------------------------- MODULE HttpTrackerProofs -------------------------
(***************************************************************************)
(* Theorems about HttpTracker.                                             *)
(***************************************************************************)
EXTENDS HttpTracker, FiniteSetTheorems, SequenceTheorems, WellFoundedInduction, TLAPS

----------------------------------------------------------------------------
(***************************************************************************)
(* Finite sets of integers                                                 *)
(***************************************************************************)
\* A set of natural numbers that is not empty has a least element.
LEMMA LeastNatural ==
  ASSUME NEW T, T \subseteq Nat, T # {}
  PROVE  \E n \in T : \A m \in T : n <= m
<1> DEFINE Below == {p \in Nat \X Nat : p[1] < p[2]}
<1>1. IsWellFoundedOn(Below, Nat)
  BY NatLessThanWellFounded DEF OpToRel
<1> HIDE DEF Below
<1>2. \E n \in T : \A m \in T : ~(<<m, n>> \in Below)
  BY <1>1, WFMin, Zenon
<1>3. PICK n \in T : \A m \in T : ~(<<m, n>> \in Below)
  BY <1>2
<1>4. ASSUME NEW m \in T PROVE n <= m
  <2>1. m \in Nat /\ n \in Nat /\ <<m, n>> \notin Below
    BY <1>3
  <2>2. <<m, n>> \in Nat \X Nat /\ <<m, n>>[1] = m /\ <<m, n>>[2] = n
    BY <2>1
  <2>3. ~(m < n)
    BY <2>1, <2>2, Zenon DEF Below
  <2> QED
    BY <2>1, <2>3
<1> QED
  BY <1>3, <1>4

\* A finite set of integers that is not empty has a greatest element.
LEMMA GreatestElement ==
  ASSUME NEW S, S \subseteq Int, IsFiniteSet(S), S # {}
  PROVE  \E m \in S : \A x \in S : x <= m
<1> DEFINE Bounded(T) == \E m \in T : \A x \in T : x <= m
           Bad == {n \in Nat : \E T \in SUBSET S : T # {} /\ ~Bounded(T) /\ Cardinality(T) = n}
<1>1. ASSUME Bad # {} PROVE FALSE
  <2>1. PICK n \in Bad : \A m \in Bad : n <= m
    BY <1>1, LeastNatural
  <2>2. PICK T \in SUBSET S : T # {} /\ ~Bounded(T) /\ Cardinality(T) = n
    BY <2>1
  <2>3. IsFiniteSet(T)
    BY <2>2, FS_Subset
  <2>4. PICK t \in T : TRUE
    BY <2>2
  <2>5. IsFiniteSet(T \ {t}) /\ Cardinality(T \ {t}) = Cardinality(T) - 1
    BY <2>3, <2>4, FS_RemoveElement
  <2>6. Cardinality(T \ {t}) \in Nat
    BY <2>5, FS_CardinalityType
  <2>7. CASE T \ {t} = {}
    BY <2>2, <2>4, <2>7
  <2>8. CASE T \ {t} # {}
    <3> DEFINE k == Cardinality(T \ {t})
    <3>a. n \in Nat /\ k \in Nat /\ k = n - 1
      BY <2>1, <2>2, <2>5, <2>6
    <3> HIDE DEF k, Bad
    <3>b. k \notin Bad
      BY <2>1, <3>a
    <3> USE DEF Bad
    <3>1. Cardinality(T \ {t}) \notin Bad
      BY <3>b DEF k
    <3>2. Bounded(T \ {t})
      BY <2>2, <2>6, <2>8, <3>1
    <3>3. PICK m \in T \ {t} : \A x \in T \ {t} : x <= m
      BY <3>2
    <3>4. CASE t <= m
      BY <2>2, <2>4, <3>3, <3>4
    <3>5. CASE m < t
      <4>1. \A x \in T : x <= t
        BY <2>2, <2>4, <3>3, <3>5
      <4> QED
        BY <2>2, <2>4, <4>1
    <3> QED
      BY <2>2, <2>4, <3>3, <3>4, <3>5
  <2> QED
    BY <2>7, <2>8
<1>2. Cardinality(S) \in Nat
  BY FS_CardinalityType
<1>3. Bounded(S)
  BY <1>1, <1>2
<1> QED
  BY <1>3

Ascending(s) == \A i, j \in DOMAIN s : i < j => s[i] < s[j]

\* A finite set of integers can be enumerated in ascending order.
LEMMA AscendingEnumeration ==
  ASSUME NEW S, S \subseteq Int, IsFiniteSet(S)
  PROVE  \E s \in SetToSeqs(S) : Ascending(s)
<1> DEFINE Listed(T) == \E s \in [1..Cardinality(T) -> T] :
                           Ascending(s) /\ \A i, j \in 1..Cardinality(T) : i # j => s[i] # s[j]
           Bad == {n \in Nat : \E T \in SUBSET S : ~Listed(T) /\ Cardinality(T) = n}
<1>1. ASSUME Bad # {} PROVE FALSE
  <2>1. PICK n \in Bad : \A m \in Bad : n <= m
    BY <1>1, LeastNatural
  <2>2. PICK T \in SUBSET S : ~Listed(T) /\ Cardinality(T) = n
    BY <2>1
  <2>3. IsFiniteSet(T)
    BY <2>2, FS_Subset
  <2>4. CASE T = {}
    <3>1. Cardinality(T) = 0
      BY <2>4, FS_EmptySet
    <3>2. << >> \in [1..Cardinality(T) -> T]
      BY <2>4, <3>1
    <3>3. Ascending(<< >>)
      BY DEF Ascending
    <3>4. \A i, j \in 1..Cardinality(T) : i # j => << >>[i] # << >>[j]
      BY <3>1
    <3>5. Listed(T)
      BY <3>2, <3>3, <3>4
    <3> QED
      BY <2>2, <3>5
  <2>5. CASE T # {}
    <3>1. PICK t \in T : \A x \in T : x <= t
      BY <2>2, <2>3, <2>5, GreatestElement
    <3> DEFINE U == T \ {t}
    <3>2. IsFiniteSet(U) /\ Cardinality(U) = Cardinality(T) - 1
      BY <2>3, <3>1, FS_RemoveElement
    <3>3. Cardinality(U) \in Nat
      BY <3>2, FS_CardinalityType
    <3> DEFINE k == Cardinality(T)
    <3>a. k \in Nat /\ k >= 1 /\ Cardinality(U) = k - 1 /\ n = k
      BY <2>1, <2>2, <3>2, <3>3
    <3>b. k - 1 \notin Bad
      <4> HIDE DEF k, Bad
      <4> QED BY <2>1, <3>a
    <3>4. Cardinality(U) \notin Bad
      BY <3>a, <3>b, Zenon
    <3>5. Listed(U)
      BY <2>2, <3>3, <3>4
    <3>6. PICK s \in [1..Cardinality(U) -> U] :
              Ascending(s) /\ \A i, j \in 1..Cardinality(U) : i # j => s[i] # s[j]
      BY <3>5
    <3> DEFINE r == [i \in 1..k |-> IF i = k THEN t ELSE s[i]]
    <3>7. k \in Nat /\ k >= 1 /\ 1..Cardinality(U) = 1..(k - 1)
      BY <3>a
    <3>u. U \subseteq T /\ t \notin U
      OBVIOUS
    <3>v. s \in [1..(k-1) -> U] /\ Ascending(s)
      BY <3>6, <3>7
    <3> HIDE DEF k, U
    <3>8. \A i \in 1..k : i # k => i \in 1..(k-1) /\ r[i] = s[i] /\ r[i] \in U
      <4> SUFFICES ASSUME NEW i \in 1..k, i # k
                   PROVE  i \in 1..(k-1) /\ r[i] = s[i] /\ r[i] \in U
        OBVIOUS
      <4>1. i \in 1..(k-1)
        BY <3>7
      <4>2. r[i] = s[i]
        OBVIOUS
      <4> QED
        BY <3>v, <4>1, <4>2
    <3>9. r \in [1..k -> T]
      BY <3>1, <3>8, <3>u
    <3>10. ASSUME NEW i \in 1..k, NEW j \in 1..k, i < j PROVE r[i] < r[j]
      <4>1. i # k /\ r[i] = s[i] /\ r[i] \in U /\ i \in 1..(k-1)
        BY <3>7, <3>8, <3>10
      <4>2. CASE j = k
        <5>1. r[j] = t
          BY <4>2
        <5>2. r[i] \in T /\ r[i] # t /\ r[i] <= t
          BY <3>1, <3>u, <4>1
        <5>3. r[i] \in Int /\ t \in Int
          BY <2>2, <3>1, <5>2
        <5> HIDE DEF r
        <5> QED
          BY <5>1, <5>2, <5>3
      <4>3. CASE j # k
        <5>1. j \in 1..(k-1) /\ r[j] = s[j]
          BY <3>8, <4>3
        <5> QED
          BY <3>v, <3>7, <3>10, <4>1, <5>1 DEF Ascending
      <4> QED
        BY <4>2, <4>3
    <3>11. Ascending(r)
      BY <3>10 DEF Ascending
    <3>12. \A i, j \in 1..k : i # j => r[i] # r[j]
      <4> SUFFICES ASSUME NEW i \in 1..k, NEW j \in 1..k, i # j PROVE r[i] # r[j]
        OBVIOUS
      <4>1. r[i] \in Int /\ r[j] \in Int
        BY <2>2, <3>9
      <4>2. i < j \/ j < i
        BY <3>7
      <4>3. r[i] < r[j] \/ r[j] < r[i]
        BY <3>10, <4>2
      <4> HIDE DEF r
      <4> QED
        BY <4>1, <4>3
    <3> HIDE DEF r
    <3>13. Listed(T)
      BY <3>9, <3>11, <3>12 DEF k
    <3> QED
      BY <2>2, <3>13
  <2> QED
    BY <2>4, <2>5
<1>2. Cardinality(S) \in Nat
  BY FS_CardinalityType
<1>3. Listed(S)
  BY <1>1, <1>2
<1> QED
  BY <1>3 DEF SetToSeqs

----------------------------------------------------------------------------
(***************************************************************************)
(* The swarm workers of a request                                          *)
(***************************************************************************)
Consumed(r) == {worker_of[h] : h \in r.info_hashes}

Servable(r) == r.info_hashes \subseteq InfoHashes /\ r.info_hashes # {}

\* Consumers lists the swarm workers of a request once each, in ascending
\* order.
LEMMA ConsumersListed ==
  ASSUME NEW r, Servable(r)
  PROVE  /\ Consumers(r) \in Seq(Workers) /\ Consumers(r) # << >>
         /\ Ascending(Consumers(r))
         /\ Range(Consumers(r)) = Consumed(r)
         /\ Len(Consumers(r)) = Cardinality(Consumed(r))
         /\ Consumed(r) \subseteq Workers /\ IsFiniteSet(Consumed(r))
<1> DEFINE S == Consumed(r)
<1>1. S \subseteq Workers /\ S # {}
  BY HttpAssumption DEF Consumed, Servable, HttpAssumption
<1>2. IsFiniteSet(S) /\ S \subseteq Int
  BY <1>1, FS_Subset, HttpAssumption DEF HttpAssumption
<1>3. \E s \in SetToSeqs(S) : Ascending(s)
  BY <1>2, AscendingEnumeration
<1>4. Consumers(r) \in SetToSeqs(S) /\ Ascending(Consumers(r))
  BY <1>3 DEF Consumers, Consumed, Ascending
<1> DEFINE n == Cardinality(S)
           s == Consumers(r)
<1>5. n \in Nat /\ n # 0
  BY <1>1, <1>2, FS_CardinalityType, FS_EmptySet
<1>6. s \in [1..n -> S] /\ \A i, j \in 1..n : i # j => s[i] # s[j]
  BY <1>4 DEF SetToSeqs
<1> HIDE DEF S, s
<1>7. s \in Seq(S) /\ Len(s) = n /\ DOMAIN s = 1..n
  BY <1>5, <1>6, SeqDef, LenProperties
<1>8. s \in Seq(Workers) /\ s # << >>
  BY <1>1, <1>5, <1>7
<1>9. Range(s) \subseteq S /\ Range(s) = {s[i] : i \in 1..n}
  BY <1>6, <1>7 DEF Range
<1>10. Cardinality(Range(s)) = n
  <2>1. s \in Bijection(1..n, Range(s))
    BY <1>6, <1>9 DEF Bijection, Injection, Surjection, IsInjective
  <2>2. ExistsBijection(1..n, Range(s))
    BY <2>1 DEF ExistsBijection
  <2>3. IsFiniteSet(Range(s))
    BY <1>2, <1>9, FS_Subset DEF S
  <2> QED
    BY <1>5, <2>2, <2>3, FS_CountingElements
<1>11. Range(s) = S
  BY <1>2, <1>9, <1>10, FS_Subset DEF S
<1> QED
  BY <1>1, <1>2, <1>4, <1>7, <1>8, <1>11 DEF S, s

----------------------------------------------------------------------------
(***************************************************************************)
(* The inductive invariant                                                 *)
(***************************************************************************)
In(s, x) == \E i \in DOMAIN s : s[i] = x
Distinct(s) == \A i, j \in DOMAIN s : s[i] = s[j] => i = j

AllRequests == UNION {Requests[c] : c \in Connections}

\* TypeOK, and the variables it leaves out.
TypeInv ==
    /\ TypeOK
    /\ config \in Configs /\ trusted_proxies \in ProxyLists
    /\ buffer \in [Connections -> Seq(AllRequests)]
    /\ to_send \in [Connections -> Seq(Workers)]
    /\ DOMAIN current = Connections

\* A connection trusts headers only of a proxy, and an address that is dealt
\* with was not forged.
AddressInv ==
    /\ \A c \in Connections : trust_forwarded_ip[c] => remote[c] \in Proxies
    /\ NeverForgedAddress

\* The handle of a task, and the message that tells it to end.
HandleInv ==
    /\ HandlesMatchTasks
    /\ \A c \in Connections : ~Running(c) => ~close_sent[c]

\* Where a request of c is with swarm worker w: not sent yet, in the
\* channel, being answered, answered, or taken.
Waiting(c, w) == In(to_send[c], w)
Queued(c, w) == In(channel[w], c)

\* It is at exactly one of them if w is asked, and at none if not.
Placed(c, w) ==
    /\ w \in Consumed(current[c].request) <=>
          \/ Waiting(c, w) \/ Queued(c, w) \/ answering[w] = c
          \/ w \in delivered[c] \/ w \in answered[c]
    /\ Waiting(c, w) => ~Queued(c, w) /\ answering[w] # c
    /\ Waiting(c, w) \/ Queued(c, w) => w \notin delivered[c] /\ w \notin answered[c]
    /\ Queued(c, w) => answering[w] # c
    /\ answering[w] = c => w \notin delivered[c] /\ w \notin answered[c]
    /\ w \in delivered[c] => w \notin answered[c]

\* Swarm workers are asked in ascending order.
AskedInOrder(c, w) ==
    Queued(c, w) \/ answering[w] = c => \A v \in Workers : Waiting(c, v) => w < v

Exchanging(c) ==
    /\ Servable(current[c].request)
    /\ Ascending(to_send[c])
    /\ phase[c] = "sending" <=> to_send[c] # << >>
    /\ answered[c] # Consumed(current[c].request)
    /\ \A w \in Workers : Placed(c, w) /\ AskedInOrder(c, w)

\* A connection without a request at a swarm worker.
Idle(c) ==
    /\ to_send[c] = << >> /\ delivered[c] = {}
    /\ \A w \in Workers : ~Queued(c, w) /\ answering[w] # c
    /\ phase[c] # "writing" => answered[c] = {}
    /\ phase[c] = "writing" /\ current[c].refusal = None =>
          answered[c] = Consumed(current[c].request)

ExchangeInv ==
    /\ \A w \in Workers : Distinct(channel[w])
    /\ \A c \in Connections :
          /\ phase[c] \in {"sending", "awaiting"} => Exchanging(c)
          /\ phase[c] \notin {"sending", "awaiting", "closed"} => Idle(c)

----------------------------------------------------------------------------
(***************************************************************************)
(* Sequences                                                               *)
(***************************************************************************)
LEMMA AppendElements ==
  ASSUME NEW X, NEW s \in Seq(X), NEW x \in X
  PROVE  /\ Append(s, x) \in Seq(X)
         /\ \A y : In(Append(s, x), y) <=> In(s, y) \/ y = x
         /\ Distinct(s) /\ ~In(s, x) => Distinct(Append(s, x))
<1> DEFINE t == Append(s, x)
           n == Len(s)
<1>1. n \in Nat /\ DOMAIN s = 1..n
  OBVIOUS
<1>2. t \in Seq(X) /\ DOMAIN t = 1..(n + 1) /\ t[n + 1] = x
      /\ \A i \in 1..n : t[i] = s[i]
  OBVIOUS
<1> HIDE DEF t, n
<1>3. \A i \in DOMAIN t : i \in 1..n \/ i = n + 1
  BY <1>1, <1>2
<1>4. 1..n \subseteq DOMAIN t /\ n + 1 \in DOMAIN t
  BY <1>1, <1>2
<1>5. ASSUME NEW y PROVE In(t, y) <=> In(s, y) \/ y = x
  BY <1>1, <1>2, <1>3, <1>4 DEF In
<1>6. ASSUME Distinct(s), ~In(s, x) PROVE Distinct(t)
  BY <1>1, <1>2, <1>3, <1>6 DEF In, Distinct
<1> QED
  BY <1>2, <1>5, <1>6 DEF t

LEMMA TailElements ==
  ASSUME NEW X, NEW s \in Seq(X), s # << >>, Distinct(s)
  PROVE  /\ Head(s) \in X /\ In(s, Head(s))
         /\ Tail(s) \in Seq(X) /\ Distinct(Tail(s))
         /\ \A y : In(Tail(s), y) <=> In(s, y) /\ y # Head(s)
<1> DEFINE t == Tail(s)
           n == Len(s)
<1>1. n \in Nat /\ n >= 1 /\ DOMAIN s = 1..n /\ Head(s) = s[1] /\ s[1] \in X
  OBVIOUS
<1>2. t \in Seq(X) /\ DOMAIN t = 1..(n - 1) /\ \A i \in 1..(n - 1) : t[i] = s[i + 1]
  OBVIOUS
<1> HIDE DEF t, n
<1>3. \A i \in 1..(n - 1) : i + 1 \in 1..n /\ i + 1 # 1
  BY <1>1
<1>4. Distinct(t)
  <2> SUFFICES ASSUME NEW i \in 1..(n - 1), NEW j \in 1..(n - 1), t[i] = t[j] PROVE i = j
    BY <1>2 DEF Distinct
  <2>1. s[i + 1] = s[j + 1]
    BY <1>2
  <2>2. i + 1 = j + 1
    BY <1>1, <1>3, <2>1 DEF Distinct
  <2> QED
    BY <1>1, <2>2
<1>5. ASSUME NEW y PROVE In(t, y) <=> In(s, y) /\ y # s[1]
  <2>1. ASSUME In(t, y) PROVE In(s, y) /\ y # s[1]
    <3>1. PICK i \in 1..(n - 1) : t[i] = y
      BY <1>2, <2>1 DEF In
    <3>2. s[i + 1] = y /\ i + 1 \in 1..n /\ i + 1 # 1 /\ 1 \in 1..n
      BY <1>1, <1>2, <1>3, <3>1
    <3> QED
      BY <1>1, <3>2 DEF In, Distinct
  <2>2. ASSUME In(s, y), y # s[1] PROVE In(t, y)
    <3>1. PICK i \in 1..n : s[i] = y
      BY <1>1, <2>2 DEF In
    <3>2. i - 1 \in 1..(n - 1) /\ (i - 1) + 1 = i
      BY <1>1, <2>2, <3>1
    <3> QED
      BY <1>2, <3>1, <3>2 DEF In
  <2> QED
    BY <2>1, <2>2
<1>6. In(s, s[1])
  BY <1>1 DEF In
<1> QED
  BY <1>1, <1>2, <1>4, <1>5, <1>6 DEF t

\* The first of an ascending sequence is below the others.
LEMMA AscendingTail ==
  ASSUME NEW s \in Seq(Workers), s # << >>, Ascending(s)
  PROVE  /\ Distinct(s) /\ Ascending(Tail(s))
         /\ \A v : In(Tail(s), v) => Head(s) < v
<1> DEFINE t == Tail(s)
           n == Len(s)
<1>0. Workers \subseteq Int
  BY HttpAssumption DEF HttpAssumption
<1>a. n \in Nat /\ n >= 1 /\ DOMAIN s = 1..n /\ Head(s) = s[1]
  OBVIOUS
<1>b. \A i \in 1..n : s[i] \in Workers
  OBVIOUS
<1>1. n \in Nat /\ n >= 1 /\ DOMAIN s = 1..n /\ Head(s) = s[1]
      /\ \A i \in 1..n : s[i] \in Int
  BY <1>0, <1>a, <1>b
<1>2. DOMAIN t = 1..(n - 1) /\ \A i \in 1..(n - 1) : t[i] = s[i + 1]
  OBVIOUS
<1> HIDE DEF t, n
<1>3. \A i \in 1..(n - 1) : i + 1 \in 1..n /\ 1 < i + 1
  BY <1>1
<1>4. Distinct(s)
  <2> SUFFICES ASSUME NEW i \in 1..n, NEW j \in 1..n, s[i] = s[j], i # j PROVE FALSE
    BY <1>1 DEF Distinct
  <2>1. i < j \/ j < i
    BY <1>1
  <2>2. s[i] < s[j] \/ s[j] < s[i]
    BY <1>1, <2>1 DEF Ascending
  <2> QED
    BY <1>1, <2>2
<1>5. Ascending(t)
  <2> SUFFICES ASSUME NEW i \in 1..(n - 1), NEW j \in 1..(n - 1), i < j PROVE t[i] < t[j]
    BY <1>2 DEF Ascending
  <2>1. i + 1 < j + 1
    BY <1>1
  <2> QED
    BY <1>1, <1>2, <1>3, <2>1 DEF Ascending
<1>6. ASSUME NEW v, In(t, v) PROVE s[1] < v
  <2>1. PICK i \in 1..(n - 1) : s[i + 1] = v
    BY <1>2, <1>6 DEF In
  <2>2. 1 \in 1..n
    BY <1>1
  <2> QED
    BY <1>1, <1>3, <2>1, <2>2 DEF Ascending
<1> QED
  BY <1>1, <1>4, <1>5, <1>6 DEF t

LEMMA EmptyElements == Distinct(<< >>) /\ Ascending(<< >>) /\ \A y : ~In(<< >>, y)
BY DEF Distinct, Ascending, In

----------------------------------------------------------------------------
(***************************************************************************)
(* Types and addresses                                                     *)
(***************************************************************************)
\* A header that a trusted proxy passes on yields the address it appended.
LEMMA LastIsOrigin ==
  ASSUME NEW h \in Seq(Addresses), NEW a, NEW trusted, a \notin trusted
  PROVE  last_forwarded_for_ip(Append(h, a), trusted) = a
<1> DEFINE t == Append(h, a)
           n == Len(h) + 1
           untrusted == {i \in DOMAIN t : t[i] \notin trusted}
<1>1. n \in Nat /\ DOMAIN t = 1..n /\ t[n] = a /\ t # << >> /\ n \in 1..n
  <2>1. Len(h) \in Nat
    OBVIOUS
  <2>2. h \in Seq(Addresses \cup {a})
    OBVIOUS
  <2> QED
    BY <2>1, <2>2
<1> HIDE DEF t, n
<1>2. untrusted \subseteq 1..n /\ n \in untrusted
  BY <1>1
<1> HIDE DEF untrusted
<1>3. \A i \in untrusted : n >= i
  BY <1>1, <1>2
<1>4. \A m \in untrusted : (\A i \in untrusted : m >= i) => m = n
  <2> SUFFICES ASSUME NEW m \in untrusted, \A i \in untrusted : m >= i PROVE m = n
    OBVIOUS
  <2>1. m \in 1..n /\ m >= n
    BY <1>2
  <2> QED
    BY <1>1, <2>1
<1>5. Max(untrusted) = n
  <2>1. \E m \in untrusted : \A i \in untrusted : m >= i
    BY <1>2, <1>3
  <2>2. Max(untrusted) \in untrusted /\ \A i \in untrusted : Max(untrusted) >= i
    BY <2>1, Zenon DEF Max
  <2> QED
    BY <1>4, <2>2, Zenon
<1>6. untrusted # {}
  BY <1>2
<1>7. last_forwarded_for_ip(t, trusted) = t[Max(untrusted)]
  BY <1>1, <1>6 DEF last_forwarded_for_ip, untrusted
<1> QED
  BY <1>1, <1>5, <1>7 DEF t

\* The address of a request is the client's own or a proxy's.
LEMMA PeerAddrHonest ==
  ASSUME TypeInv, AddressInv, NEW c \in Connections, NEW h \in Headers(c),
         PeerAddr(c, h) # None
  PROVE  PeerAddr(c, h) \in {origin[c]} \cup Proxies
<1>1. /\ origin[c] \in Clients /\ remote[c] \in Addresses
      /\ remote[c] \in Clients => remote[c] = origin[c]
      /\ Clients \cap Proxies = {} /\ Forged \subseteq Seq(Addresses)
      /\ trusted_proxies \subseteq Proxies
  BY HttpAssumption DEF HttpAssumption, TypeInv
<1>2. CASE ~trust_forwarded_ip[c]
  BY <1>1, <1>2 DEF PeerAddr, Addresses
<1>3. CASE trust_forwarded_ip[c]
  <2>1. remote[c] # origin[c] /\ origin[c] \notin trusted_proxies
    BY <1>1, <1>3 DEF AddressInv
  <2>2. h = << >> \/ \E g \in Forged : h = Append(g, origin[c])
    BY <2>1 DEF Headers
  <2>3. PeerAddr(c, h) = last_forwarded_for_ip(h, trusted_proxies)
    BY <1>3 DEF PeerAddr
  <2>4. CASE h = << >>
    BY <2>3, <2>4 DEF last_forwarded_for_ip
  <2>5. ASSUME NEW g \in Forged, h = Append(g, origin[c]) PROVE PeerAddr(c, h) = origin[c]
    BY <1>1, <2>1, <2>3, <2>5, LastIsOrigin
  <2> QED
    BY <2>2, <2>4, <2>5
<1> QED
  BY <1>2, <1>3

\* The request that TakeRequest takes.
LEMMA TakenRequest ==
  ASSUME TypeInv, NEW c \in Connections, buffer[c] # << >>,
         Head(buffer[c]).kind # "malformed"
  PROVE  /\ Servable(Head(buffer[c])) /\ Tail(buffer[c]) \in Seq(AllRequests)
         /\ Consumers(Head(buffer[c])) \in Seq(Workers)
<1>1. buffer[c] \in Seq(AllRequests)
  BY DEF TypeInv
<1>2. Head(buffer[c]) \in AllRequests /\ Tail(buffer[c]) \in Seq(AllRequests)
  BY <1>1
<1>3. Servable(Head(buffer[c]))
  BY <1>2, HttpAssumption DEF HttpAssumption, AllRequests, Servable
<1> QED
  BY <1>2, <1>3, ConsumersListed

LEMMA TypeInit == Init => TypeInv
<1> SUFFICES ASSUME Init PROVE TypeInv
  OBVIOUS
<1>1. {max_connection_idle, REQUEST_BUFFER_SIZE} \subseteq Nat
  BY HttpAssumption DEF HttpAssumption
<1>2. TypeOK
  BY <1>1 DEF Init, TypeOK
<1> QED
  BY <1>2 DEF Init, TypeInv

\* Ended leaves every variable it assigns within its type.
LEMMA EndedType ==
  ASSUME TypeInv, NEW c \in Connections, Ended(c),
         UNCHANGED <<config, lists, auto_banned, channel, answering>>
  PROVE  TypeInv'
<1>1. 0 \in 0 .. max_connection_idle /\ 0 \in 0 .. REQUEST_BUFFER_SIZE
  BY HttpAssumption DEF HttpAssumption
<1>2. TypeOK'
  BY <1>1 DEF TypeInv, TypeOK, Ended, lists
<1> QED
  BY <1>2 DEF TypeInv, Ended, lists

\* What TakeRequest assigns: x is whether the request is served, f its refusal.
Admitted(c, r, addr, f, x) ==
    /\ x <=> f = None
    /\ current' = [current EXCEPT ![c] = [request |-> r, addr |-> addr, refusal |-> f]]
    /\ \E y : valid_until' = [valid_until EXCEPT ![c] = Refreshed(c, y)]
    /\ phase' = [phase EXCEPT ![c] = IF x THEN "sending" ELSE "writing"]
    /\ to_send' = [to_send EXCEPT ![c] = IF x THEN Consumers(r) ELSE << >>]
    /\ auto_banned' \subseteq auto_banned \cup {addr}

LEMMA TakeRequestTakes ==
  ASSUME NEW c \in Connections, TakeRequest(c)
  PROVE  \E h, x, f :
            /\ h \in Headers(c) /\ x \in BOOLEAN
            /\ PeerAddr(c, h) # None /\ Admitted(c, Head(buffer[c]), PeerAddr(c, h), f, x)
<1> DEFINE r == Head(buffer[c])
           check(h) == run_security_checks(r, PeerAddr(c, h))
           refused(h) == check(h).refusal # None
           allowed == \/ r.kind = "scrape"
                      \/ \A i \in r.info_hashes : allows(config.access_list_mode, access_list, i)
           served(h) == ~refused(h) /\ allowed
           f(h) == IF refused(h) THEN check(h).refusal
                   ELSE IF allowed THEN None ELSE "Info hash not allowed"
<1>1. PICK h \in Headers(c) :
         /\ PeerAddr(c, h) # None
         /\ current' = [current EXCEPT ![c] =
                [request |-> r, addr |-> PeerAddr(c, h), refusal |-> f(h)]]
         /\ valid_until' = [valid_until EXCEPT ![c] = Refreshed(c, refused(h))]
         /\ phase' = [phase EXCEPT ![c] = IF served(h) THEN "sending" ELSE "writing"]
         /\ to_send' = [to_send EXCEPT ![c] = IF served(h) THEN Consumers(r) ELSE << >>]
         /\ auto_banned' \in {auto_banned} \cup
                {auto_banned \cup {PeerAddr(c, h)} : x \in {y \in {check(h).offence} : y # None}}
  BY Zenon DEF TakeRequest
<1>2. served(h) \in BOOLEAN
  OBVIOUS
<1>3. served(h) <=> f(h) = None
  BY DEF None
<1>4. auto_banned' \subseteq auto_banned \cup {PeerAddr(c, h)}
  BY <1>1
<1>5. Admitted(c, r, PeerAddr(c, h), f(h), served(h))
  <2> HIDE DEF f, served, refused
  <2> QED
    BY <1>1, <1>3, <1>4, Zenon DEF Admitted
<1> QED
  <2> HIDE DEF f, served, refused
  <2> QED
    BY <1>1, <1>2, <1>5, Zenon

LEMMA TypeStep == TypeInv /\ AddressInv /\ ExchangeInv /\ [Next]_vars => TypeInv'
<1> SUFFICES ASSUME TypeInv, AddressInv, ExchangeInv, [Next]_vars PROVE TypeInv'
  OBVIOUS
<1> USE DEF lists, task, input, exchange, swarm
<1>0. /\ {SHARED_CHANNEL_SIZE, REQUEST_BUFFER_SIZE} \subseteq Nat \ {0}
      /\ max_connection_idle \in Nat /\ NoRequest \notin Connections
      /\ \A d \in Connections : origin[d] \in Clients
  BY HttpAssumption DEF HttpAssumption
<1>1. ASSUME NEW c \in Connections, Accept(c) PROVE TypeInv'
  <2>1. trust_forwarded_ip' \in [Connections -> BOOLEAN]
    BY <1>1 DEF Accept, TypeInv, TypeOK, TrustsForwarded
  <2>a. \E x \in {"closed", "tls", "reading"} : phase' = [phase EXCEPT ![c] = x]
    BY <1>1 DEF Accept
  <2>2. phase' \in [Connections -> {"new", "tls", "reading", "sending", "awaiting",
                                    "writing", "bad_request", "closed"}]
    BY <2>a DEF TypeInv, TypeOK
  <2>b. \/ UNCHANGED <<handles, valid_until>>
        \/ /\ handles' = handles \cup {c}
           /\ valid_until' = [valid_until EXCEPT ![c] = max_connection_idle]
    BY <1>1 DEF Accept
  <2>c. max_connection_idle \in 0 .. max_connection_idle
    BY <1>0
  <2>3. handles' \subseteq Connections /\ valid_until' \in [Connections -> 0 .. max_connection_idle]
    BY <2>b, <2>c DEF TypeInv, TypeOK
  <2>4. TypeOK'
    BY <1>1, <2>1, <2>2, <2>3 DEF Accept, TypeInv, TypeOK
  <2> QED
    BY <1>1, <2>4 DEF Accept, TypeInv
<1>2. ASSUME NEW c \in Connections, TlsAccepted(c) PROVE TypeInv'
  BY <1>2 DEF TlsAccepted, TypeInv, TypeOK
<1>3. ASSUME NEW c \in Connections,
             Inactive(c) \/ StreamError(c) \/ RequestBufferFull(c)
                \/ PeerIpHeaderMissing(c) \/ BadRequestWritten(c)
      PROVE  TypeInv'
  BY <1>3, EndedType DEF Inactive, StreamError, RequestBufferFull, PeerIpHeaderMissing,
     BadRequestWritten
<1>4. ASSUME NEW c \in Connections, Read(c) PROVE TypeInv'
  <2>a. part[c] \in 0 .. REQUEST_BUFFER_SIZE /\ part[c] < REQUEST_BUFFER_SIZE
    BY <1>4 DEF Read, TypeInv, TypeOK
  <2>b. part[c] + 1 \in 0 .. REQUEST_BUFFER_SIZE /\ 0 \in 0 .. REQUEST_BUFFER_SIZE
    BY <1>0, <2>a
  <2>c. \E x \in {part[c] + 1, 0} : part' = [part EXCEPT ![c] = x]
    BY <1>4 DEF Read
  <2>1. part' \in [Connections -> 0 .. REQUEST_BUFFER_SIZE]
    BY <2>b, <2>c DEF TypeInv, TypeOK
  <2>2. ASSUME NEW n \in 1 .. REQUEST_BUFFER_SIZE, NEW rs \in [1 .. n -> Requests[c]]
        PROVE  rs \in Seq(AllRequests)
    <3>1. n \in Nat
      BY <1>0
    <3>2. rs \in [1 .. n -> AllRequests]
      BY DEF AllRequests
    <3> QED
      BY <3>1, <3>2, SeqDef
  <2>3. buffer' \in [Connections -> Seq(AllRequests)]
    BY <1>4, <2>2 DEF Read, TypeInv
  <2>4. TypeOK'
    BY <1>4, <2>1 DEF Read, TypeInv, TypeOK
  <2> QED
    BY <1>4, <2>3, <2>4 DEF Read, TypeInv
<1>5. ASSUME NEW c \in Connections, BadRequest(c) PROVE TypeInv'
  BY <1>5 DEF BadRequest, TypeInv, TypeOK
<1>6. ASSUME NEW c \in Connections, TakeRequest(c) PROVE TypeInv'
  <2> DEFINE r == Head(buffer[c])
  <2>1. Tail(buffer[c]) \in Seq(AllRequests) /\ Consumers(r) \in Seq(Workers)
    BY <1>6, TakenRequest DEF TakeRequest
  <2>2. PICK h, x, f :
           /\ h \in Headers(c) /\ x \in BOOLEAN
           /\ PeerAddr(c, h) # None
           /\ Admitted(c, r, PeerAddr(c, h), f, x)
    BY <1>6, TakeRequestTakes
  <2>3. PeerAddr(c, h) \in Addresses
    BY <1>0, <2>2, PeerAddrHonest DEF Addresses
  <2>4. DOMAIN current' = Connections
        /\ \A d \in Connections : current'[d] = NoRequest \/ current'[d].addr \in Addresses
    BY <2>2, <2>3 DEF Admitted, TypeInv, TypeOK
  <2>a. \A y : Refreshed(c, y) \in 0 .. max_connection_idle
    BY <1>0 DEF TypeInv, TypeOK, Refreshed
  <2>5. valid_until' \in [Connections -> 0 .. max_connection_idle]
    BY <2>a, <2>2 DEF Admitted, TypeInv, TypeOK
  <2>b. \E y \in {Consumers(r), << >>} : to_send' = [to_send EXCEPT ![c] = y]
    BY <2>2 DEF Admitted
  <2>6. to_send' \in [Connections -> Seq(Workers)] /\ buffer' \in [Connections -> Seq(AllRequests)]
    <3>1. << >> \in Seq(Workers)
      OBVIOUS
    <3>2. PICK y \in Seq(Workers) : to_send' = [to_send EXCEPT ![c] = y]
      BY <2>1, <2>b, <3>1
    <3>3. to_send' \in [Connections -> Seq(Workers)]
      BY <3>2 DEF TypeInv
    <3>4. buffer' = [buffer EXCEPT ![c] = Tail(buffer[c])]
      BY <1>6 DEF TakeRequest
    <3>5. buffer' \in [Connections -> Seq(AllRequests)]
      BY <2>1, <3>4 DEF TypeInv
    <3> QED
      BY <3>3, <3>5
  <2>c. \E y \in {"sending", "writing"} : phase' = [phase EXCEPT ![c] = y]
    BY <2>2 DEF Admitted
  <2>7. phase' \in [Connections -> {"new", "tls", "reading", "sending", "awaiting",
                                    "writing", "bad_request", "closed"}]
    BY <2>c DEF TypeInv, TypeOK
  <2>8. auto_banned' \subseteq Addresses
    BY <2>2, <2>3 DEF Admitted, TypeInv, TypeOK
  <2>9. UNCHANGED <<config, lists, handles, close_sent, trust_forwarded_ip, part,
                    answered, swarm>>
    BY <1>6 DEF TakeRequest
  <2>10. TypeOK'
    BY <2>4, <2>5, <2>7, <2>8, <2>9 DEF TypeInv, TypeOK
  <2> QED
    BY <2>4, <2>6, <2>9, <2>10 DEF TypeInv
<1>7. ASSUME NEW c \in Connections, Send(c) PROVE TypeInv'
  <2>1. to_send[c] \in Seq(Workers) /\ to_send[c] # << >>
    BY <1>7 DEF Send, TypeInv, ExchangeInv, Exchanging
  <2> DEFINE w == Head(to_send[c])
  <2>a. w \in Workers /\ channel' = [channel EXCEPT ![w] = Append(@, c)]
    BY <1>7, <2>1 DEF Send
  <2>b. Append(channel[w], c) \in Seq(Connections)
    BY <2>a DEF TypeInv, TypeOK
  <2>2. channel' \in [Workers -> Seq(Connections)]
    BY <2>a, <2>b DEF TypeInv, TypeOK
  <2>3. Tail(to_send[c]) \in Seq(Workers)
    BY <2>1
  <2>4. to_send' \in [Connections -> Seq(Workers)]
    BY <1>7, <2>3 DEF Send, TypeInv
  <2>5. TypeOK'
    BY <1>7, <2>2 DEF Send, TypeInv, TypeOK
  <2> QED
    BY <1>7, <2>4, <2>5 DEF Send, TypeInv
<1>8. ASSUME NEW c \in Connections, NEW w \in Workers, Receive(c, w) PROVE TypeInv'
  BY <1>8 DEF Receive, TypeInv, TypeOK
<1>9. ASSUME NEW c \in Connections, Written(c) PROVE TypeInv'
  <2>1. CASE config.keep_alive
    BY <1>9, <2>1 DEF Written, TypeInv, TypeOK
  <2>2. CASE ~config.keep_alive
    BY <1>9, <2>2, EndedType DEF Written
  <2> QED
    BY <2>1, <2>2
<1>10. ASSUME NEW w \in Workers, HandleRequest(w) PROVE TypeInv'
  <2>1. Head(channel[w]) \in Connections /\ Tail(channel[w]) \in Seq(Connections)
    BY <1>10 DEF HandleRequest, TypeInv, TypeOK
  <2> QED
    BY <1>10, <2>1 DEF HandleRequest, TypeInv, TypeOK
<1>11. ASSUME NEW w \in Workers, Respond(w) PROVE TypeInv'
  BY <1>11 DEF Respond, TypeInv, TypeOK
<1>12. CASE clean_connections
  BY <1>12 DEF clean_connections, Retained, TypeInv, TypeOK
<1>13. CASE Tick
  BY <1>0, <1>13 DEF Tick, TypeInv, TypeOK
<1>14. CASE Sigusr1 \/ Sigusr2
  BY <1>14 DEF Sigusr1, Sigusr2, update_trusted_proxies, TypeInv, TypeOK
<1>15. CASE UNCHANGED vars
  BY <1>15 DEF vars, TypeInv, TypeOK
<1> QED
  BY <1>1, <1>2, <1>3, <1>4, <1>5, <1>6, <1>7, <1>8, <1>9, <1>10, <1>11, <1>12, <1>13,
     <1>14, <1>15 DEF Next, ConnectionStep

----------------------------------------------------------------------------
(***************************************************************************)
(* Addresses are never forged                                              *)
(***************************************************************************)
LEMMA AddressInit == Init => AddressInv
BY DEF Init, AddressInv, NeverForgedAddress

LEMMA EndedAddress ==
  ASSUME TypeInv, AddressInv, NEW c \in Connections, Ended(c), UNCHANGED auto_banned
  PROVE  AddressInv'
<1>1. /\ trust_forwarded_ip' = [trust_forwarded_ip EXCEPT ![c] = FALSE]
      /\ current' = [current EXCEPT ![c] = NoRequest]
  BY DEF Ended
<1>2. \A d \in Connections : trust_forwarded_ip'[d] => remote[d] \in Proxies
  BY <1>1 DEF TypeInv, TypeOK, AddressInv
<1>3. \A d \in Connections : current'[d] # NoRequest => current'[d] = current[d] /\ current[d] # NoRequest
  BY <1>1 DEF TypeInv
<1>4. NeverForgedAddress'
  BY <1>3 DEF AddressInv, NeverForgedAddress
<1> QED
  BY <1>2, <1>4 DEF AddressInv

LEMMA AddressStep == TypeInv /\ AddressInv /\ [Next]_vars => AddressInv'
<1> SUFFICES ASSUME TypeInv, AddressInv, [Next]_vars PROVE AddressInv'
  OBVIOUS
<1> USE DEF lists, task, input, exchange, swarm
<1>1. ASSUME NEW c \in Connections, Accept(c) PROVE AddressInv'
  <2>1. trusted_proxies \subseteq Proxies
    BY HttpAssumption DEF HttpAssumption, TypeInv
  <2>2. \/ UNCHANGED trust_forwarded_ip
        \/ trust_forwarded_ip' = [trust_forwarded_ip EXCEPT ![c] = TrustsForwarded(c)]
    BY <1>1 DEF Accept
  <2>3. \A d \in Connections : trust_forwarded_ip'[d] => remote[d] \in Proxies
    BY <2>1, <2>2 DEF TrustsForwarded, TypeInv, TypeOK, AddressInv
  <2>4. UNCHANGED <<current, auto_banned>>
    BY <1>1 DEF Accept
  <2> QED
    BY <2>3, <2>4 DEF AddressInv, NeverForgedAddress
<1>2. ASSUME NEW c \in Connections,
             Inactive(c) \/ StreamError(c) \/ RequestBufferFull(c)
                \/ PeerIpHeaderMissing(c) \/ BadRequestWritten(c)
      PROVE  AddressInv'
  BY <1>2, EndedAddress DEF Inactive, StreamError, RequestBufferFull, PeerIpHeaderMissing,
     BadRequestWritten
<1>3. ASSUME NEW c \in Connections, TakeRequest(c) PROVE AddressInv'
  <2> DEFINE r == Head(buffer[c])
  <2>1. PICK h, x, f :
           /\ h \in Headers(c) /\ x \in BOOLEAN
           /\ PeerAddr(c, h) # None
           /\ Admitted(c, r, PeerAddr(c, h), f, x)
    BY <1>3, TakeRequestTakes
  <2>2. PeerAddr(c, h) \in {origin[c]} \cup Proxies
    BY <2>1, PeerAddrHonest
  <2>3. \A d \in Connections :
           current'[d] # NoRequest => current'[d].addr \in {origin[d]} \cup Proxies
    BY <2>1, <2>2 DEF Admitted, TypeInv, AddressInv, NeverForgedAddress
  <2>4. auto_banned' \subseteq {origin[d] : d \in Connections} \cup Proxies
    BY <2>1, <2>2 DEF Admitted, AddressInv, NeverForgedAddress
  <2>5. UNCHANGED trust_forwarded_ip
    BY <1>3 DEF TakeRequest
  <2> QED
    BY <2>3, <2>4, <2>5 DEF AddressInv, NeverForgedAddress
<1>4. ASSUME NEW c \in Connections, Written(c) PROVE AddressInv'
  <2>1. CASE config.keep_alive
    <3>1. current' = [current EXCEPT ![c] = NoRequest] /\ UNCHANGED <<trust_forwarded_ip, auto_banned>>
      BY <1>4, <2>1 DEF Written
    <3> QED
      BY <3>1 DEF TypeInv, AddressInv, NeverForgedAddress
  <2>2. CASE ~config.keep_alive
    BY <1>4, <2>2, EndedAddress DEF Written
  <2> QED
    BY <2>1, <2>2
<1>5. CASE UNCHANGED <<current, trust_forwarded_ip, auto_banned>>
  BY <1>5 DEF AddressInv, NeverForgedAddress
<1>6. ASSUME NEW c \in Connections,
             \/ TlsAccepted(c) \/ Read(c) \/ BadRequest(c) \/ Send(c)
             \/ \E w \in Workers : Receive(c, w)
      PROVE  AddressInv'
  BY <1>5, <1>6 DEF TlsAccepted, Read, BadRequest, Send, Receive
<1>7. ASSUME NEW w \in Workers, HandleRequest(w) \/ Respond(w) PROVE AddressInv'
  BY <1>5, <1>7 DEF HandleRequest, Respond
<1>8. CASE clean_connections \/ Tick \/ Sigusr1 \/ Sigusr2
  BY <1>5, <1>8 DEF clean_connections, Tick, Sigusr1, Sigusr2
<1>9. CASE UNCHANGED vars
  BY <1>5, <1>9 DEF vars
<1> QED
  BY <1>1, <1>2, <1>3, <1>4, <1>6, <1>7, <1>8, <1>9 DEF Next, ConnectionStep

----------------------------------------------------------------------------
(***************************************************************************)
(* Handles                                                                 *)
(***************************************************************************)
LEMMA HandleInit == Init => HandleInv
<1> SUFFICES ASSUME Init PROVE HandleInv
  OBVIOUS
<1>1. Cardinality({}) = 0
  BY FS_EmptySet
<1>2. config.max_connections_per_worker \in Nat
  BY HttpAssumption DEF HttpAssumption, Init
<1> QED
  BY <1>1, <1>2 DEF Init, HandleInv, HandlesMatchTasks, Running

\* A step that removes handles does not go above the limit.
LEMMA FewerHandles ==
  ASSUME TypeInv, HandleInv, handles' \subseteq handles, UNCHANGED config
  PROVE  config'.max_connections_per_worker > 0 =>
            Cardinality(handles') <= config'.max_connections_per_worker
<1>1. config.max_connections_per_worker \in Nat /\ IsFiniteSet(Connections)
  BY HttpAssumption DEF HttpAssumption, TypeInv
<1>2. IsFiniteSet(handles)
  BY <1>1, FS_Subset DEF TypeInv, TypeOK
<1>3. /\ Cardinality(handles') <= Cardinality(handles)
      /\ Cardinality(handles') \in Nat /\ Cardinality(handles) \in Nat
  BY <1>2, FS_Subset, FS_CardinalityType
<1> QED
  BY <1>1, <1>3 DEF HandleInv, HandlesMatchTasks

LEMMA EndedHandle ==
  ASSUME TypeInv, HandleInv, NEW c \in Connections, Ended(c), UNCHANGED config
  PROVE  HandleInv'
<1>1. /\ phase' = [phase EXCEPT ![c] = "closed"]
      /\ handles' = handles \ {c}
      /\ close_sent' = [close_sent EXCEPT ![c] = FALSE]
  BY DEF Ended
<1>2. /\ phase'[c] = "closed" /\ ~close_sent'[c]
      /\ \A d \in Connections : d # c => phase'[d] = phase[d] /\ close_sent'[d] = close_sent[d]
  BY <1>1 DEF TypeInv, TypeOK
<1>3. config'.max_connections_per_worker > 0 =>
         Cardinality(handles') <= config'.max_connections_per_worker
  BY <1>1, FewerHandles
<1>4. ASSUME NEW d \in Connections, Running(d)' PROVE (d \in handles') # close_sent'[d]
  <2>1. d # c
    BY <1>2, <1>4 DEF Running
  <2>2. Running(d) /\ (d \in handles' <=> d \in handles) /\ close_sent'[d] = close_sent[d]
    BY <1>1, <1>2, <1>4, <2>1 DEF Running
  <2>3. (d \in handles) # close_sent[d]
    BY <2>2 DEF HandleInv, HandlesMatchTasks
  <2> QED
    BY <2>2, <2>3
<1>5. \A d \in handles' : Running(d)'
  BY <1>1, <1>2 DEF HandleInv, HandlesMatchTasks, Running, TypeInv, TypeOK
<1>6. \A d \in Connections : ~Running(d)' => ~close_sent'[d]
  BY <1>2 DEF HandleInv, Running
<1> QED
  BY <1>3, <1>4, <1>5, <1>6 DEF HandleInv, HandlesMatchTasks

LEMMA HandleStep == TypeInv /\ HandleInv /\ [Next]_vars => HandleInv'
<1> SUFFICES ASSUME TypeInv, HandleInv, [Next]_vars PROVE HandleInv'
  OBVIOUS
<1> USE DEF lists, task, input, exchange, swarm
<1>0. config.max_connections_per_worker \in Nat /\ IsFiniteSet(Connections)
  BY HttpAssumption DEF HttpAssumption, TypeInv
<1>0a. max_connection_idle \in Nat
  BY HttpAssumption DEF HttpAssumption
<1>1. ASSUME NEW c \in Connections, Accept(c) PROVE HandleInv'
  <2>0. phase[c] = "new" /\ ~close_sent[c] /\ c \notin handles /\ UNCHANGED <<close_sent, config>>
    BY <1>1 DEF Accept, HandleInv, HandlesMatchTasks, Running
  <2>1. CASE handles' = handles /\ phase' = [phase EXCEPT ![c] = "closed"]
    BY <2>0, <2>1 DEF HandleInv, HandlesMatchTasks, Running, TypeInv, TypeOK
  <2>2. ASSUME handles' = handles \cup {c},
               NEW x \in {"tls", "reading"}, phase' = [phase EXCEPT ![c] = x],
               ~(config.max_connections_per_worker > 0 /\ LimitReached)
        PROVE  HandleInv'
    <3>1. IsFiniteSet(handles) /\ Cardinality(handles) \in Nat
      BY <1>0, FS_Subset, FS_CardinalityType DEF TypeInv, TypeOK
    <3>2. Cardinality(handles') = Cardinality(handles) + 1
      BY <2>0, <2>2, <3>1, FS_AddElement
    <3>3. config.max_connections_per_worker > 0 =>
             Cardinality(handles') <= config.max_connections_per_worker
      BY <1>0, <2>2, <3>1, <3>2 DEF LimitReached
    <3>4. /\ phase'[c] \in {"tls", "reading"}
          /\ \A d \in Connections : d # c => phase'[d] = phase[d]
      BY <2>2 DEF TypeInv, TypeOK
    <3>5. \A d \in Connections : Running(d)' => (d \in handles') # close_sent'[d]
      BY <2>0, <2>2, <3>4 DEF HandleInv, HandlesMatchTasks, Running, TypeInv, TypeOK
    <3>6. \A d \in handles' : Running(d)'
      BY <2>2, <3>4 DEF HandleInv, HandlesMatchTasks, Running, TypeInv, TypeOK
    <3>7. \A d \in Connections : ~Running(d)' => ~close_sent'[d]
      BY <2>0, <3>4 DEF HandleInv, Running
    <3> QED
      BY <2>0, <3>3, <3>5, <3>6, <3>7 DEF HandleInv, HandlesMatchTasks
  <2> QED
    BY <1>1, <2>1, <2>2 DEF Accept
<1>2. ASSUME NEW c \in Connections,
             Inactive(c) \/ StreamError(c) \/ RequestBufferFull(c)
                \/ PeerIpHeaderMissing(c) \/ BadRequestWritten(c)
      PROVE  HandleInv'
  BY <1>2, EndedHandle DEF Inactive, StreamError, RequestBufferFull, PeerIpHeaderMissing,
     BadRequestWritten
<1>3. ASSUME NEW c \in Connections, Running(c),
             NEW x \in {"reading", "sending", "awaiting", "writing", "bad_request"},
             phase' = [phase EXCEPT ![c] = x], UNCHANGED <<handles, close_sent, config>>
      PROVE  HandleInv'
  <2>1. \A d \in Connections : Running(d)' <=> Running(d)
    BY <1>3 DEF Running, TypeInv, TypeOK
  <2> QED
    BY <1>3, <2>1 DEF HandleInv, HandlesMatchTasks, TypeInv, TypeOK
<1>4. ASSUME NEW c \in Connections,
             \/ TlsAccepted(c) \/ BadRequest(c) \/ Send(c)
             \/ \E w \in Workers : Receive(c, w)
      PROVE  HandleInv'
  <2>1. Running(c)
    BY <1>4 DEF TlsAccepted, BadRequest, Send, Receive, Running
  <2>2. \E x \in {"reading", "sending", "awaiting", "writing", "bad_request"} :
           phase' = [phase EXCEPT ![c] = x]
    BY <1>4 DEF TlsAccepted, BadRequest, Send, Receive
  <2>3. UNCHANGED <<handles, close_sent, config>>
    BY <1>4 DEF TlsAccepted, BadRequest, Send, Receive
  <2> QED
    BY <1>3, <2>1, <2>2, <2>3
<1>5. ASSUME NEW c \in Connections, TakeRequest(c) PROVE HandleInv'
  <2>1. \E x \in {"sending", "writing"} : phase' = [phase EXCEPT ![c] = x]
    BY <1>5, TakeRequestTakes DEF Admitted
  <2>2. Running(c) /\ UNCHANGED <<handles, close_sent, config>>
    BY <1>5 DEF TakeRequest, Running
  <2> QED
    BY <1>3, <2>1, <2>2
<1>6. ASSUME NEW c \in Connections, Written(c) PROVE HandleInv'
  <2>1. CASE config.keep_alive
    BY <1>3, <1>6, <2>1 DEF Written, Running
  <2>2. CASE ~config.keep_alive
    BY <1>6, <2>2, EndedHandle DEF Written
  <2> QED
    BY <2>1, <2>2
<1>7. CASE clean_connections
  <2>1. handles' \subseteq handles /\ UNCHANGED <<phase, config>>
    BY <1>7 DEF clean_connections, Retained
  <2>2. \A d \in Connections :
           /\ d \in handles' <=> d \in handles /\ valid_until[d] > 0
           /\ close_sent'[d] <=> close_sent[d] \/ (d \in handles /\ valid_until[d] = 0)
           /\ valid_until[d] > 0 <=> valid_until[d] # 0
           /\ close_sent'[d] \in BOOLEAN /\ close_sent[d] \in BOOLEAN
    <3> SUFFICES ASSUME NEW d \in Connections
                 PROVE  /\ d \in handles' <=> d \in handles /\ valid_until[d] > 0
                        /\ close_sent'[d] <=> close_sent[d] \/ (d \in handles /\ valid_until[d] = 0)
                        /\ valid_until[d] > 0 <=> valid_until[d] # 0
                        /\ close_sent'[d] \in BOOLEAN /\ close_sent[d] \in BOOLEAN
      OBVIOUS
    <3>1. valid_until[d] > 0 <=> valid_until[d] # 0
      BY <1>0a DEF TypeInv, TypeOK
    <3>2. close_sent[d] \in BOOLEAN
      BY DEF TypeInv, TypeOK
    <3>3. d \in handles' <=> d \in handles /\ valid_until[d] > 0
      BY <1>7 DEF clean_connections, Retained
    <3>4. close_sent'[d] = (close_sent[d] \/ (d \in handles /\ valid_until[d] = 0))
      BY <1>7, Zenon DEF clean_connections
    <3> QED
      BY <3>1, <3>2, <3>3, <3>4
  <2>3. \A d \in Connections : Running(d)' <=> Running(d)
    BY <2>1 DEF Running
  <2>4. ASSUME NEW d \in Connections, Running(d) PROVE (d \in handles') # close_sent'[d]
    <3>1. (d \in handles) # close_sent[d]
      BY <2>4 DEF HandleInv, HandlesMatchTasks
    <3>2. d \in handles <=> ~close_sent[d]
      BY <2>2, <3>1
    <3>3. d \in handles' <=> ~close_sent'[d]
      BY <2>2, <3>2, Zenon
    <3> QED
      BY <2>2, <3>3
  <2>5. config'.max_connections_per_worker > 0 =>
           Cardinality(handles') <= config'.max_connections_per_worker
    BY <2>1, FewerHandles
  <2>6. \A d \in handles' : Running(d)'
    BY <2>1, <2>3 DEF HandleInv, HandlesMatchTasks, TypeInv, TypeOK
  <2>7. \A d \in Connections : ~Running(d)' => ~close_sent'[d]
    BY <2>2, <2>3 DEF HandleInv, HandlesMatchTasks
  <2> QED
    BY <2>3, <2>4, <2>5, <2>6, <2>7 DEF HandleInv, HandlesMatchTasks
<1>8. CASE UNCHANGED <<phase, handles, close_sent, config>>
  BY <1>8 DEF HandleInv, HandlesMatchTasks, Running
<1>9. ASSUME NEW c \in Connections, Read(c) PROVE HandleInv'
  BY <1>8, <1>9 DEF Read
<1>10. ASSUME NEW w \in Workers, HandleRequest(w) \/ Respond(w) PROVE HandleInv'
  BY <1>8, <1>10 DEF HandleRequest, Respond
<1>11. CASE Tick \/ Sigusr1 \/ Sigusr2
  BY <1>8, <1>11 DEF Tick, Sigusr1, Sigusr2
<1>12. CASE UNCHANGED vars
  BY <1>8, <1>12 DEF vars
<1> QED
  BY <1>1, <1>2, <1>4, <1>5, <1>6, <1>7, <1>9, <1>10, <1>11, <1>12 DEF Next, ConnectionStep

----------------------------------------------------------------------------
(***************************************************************************)
(* Requests and answers                                                    *)
(***************************************************************************)
\* The part of ExchangeInv that is about one connection.
ConnectionInv(c) ==
    /\ phase[c] \in {"sending", "awaiting"} => Exchanging(c)
    /\ phase[c] \notin {"sending", "awaiting", "closed"} => Idle(c)

\* A step leaves the requests of c with the swarm workers as they are.
SamePlaces(c) ==
    \A w \in Workers : (Queued(c, w)' <=> Queued(c, w)) /\ (answering'[w] = c <=> answering[w] = c)

\* A step does nothing that ConnectionInv(c) speaks of.
Undisturbed(c) ==
    /\ phase'[c] = phase[c] /\ current'[c] = current[c]
    /\ to_send'[c] = to_send[c] /\ answered'[c] = answered[c] /\ delivered'[c] = delivered[c]
    /\ SamePlaces(c)

LEMMA UndisturbedKeeps ==
  ASSUME NEW c \in Connections, ConnectionInv(c), Undisturbed(c)
  PROVE  ConnectionInv(c)'
<1>1. \A w \in Workers : Waiting(c, w)' <=> Waiting(c, w)
  BY DEF Undisturbed, Waiting
<1>2. Exchanging(c) => Exchanging(c)'
  BY <1>1 DEF Undisturbed, SamePlaces, Exchanging, Placed, AskedInOrder
<1>3. Idle(c) => Idle(c)'
  BY DEF Undisturbed, SamePlaces, Idle
<1> QED
  BY <1>2, <1>3 DEF ConnectionInv, Undisturbed

\* A connection that is idle stays so until it takes a request.
LEMMA IdleKeeps ==
  ASSUME NEW c \in Connections, Idle(c), phase[c] # "writing",
         phase'[c] \in {"tls", "reading", "bad_request", "closed"},
         to_send'[c] = to_send[c], answered'[c] = answered[c], delivered'[c] = delivered[c],
         SamePlaces(c)
  PROVE  ConnectionInv(c)'
BY DEF Idle, SamePlaces, ConnectionInv

LEMMA ExchangeParts ==
  /\ ExchangeInv <=> (\A w \in Workers : Distinct(channel[w])) /\ \A c \in Connections : ConnectionInv(c)
  /\ ExchangeInv' <=>
        (\A w \in Workers : Distinct(channel'[w])) /\ \A c \in Connections : ConnectionInv(c)'
BY DEF ExchangeInv, ConnectionInv

\* A step that leaves the swarm workers alone moves no request.
LEMMA SwarmUnchanged ==
  ASSUME NEW c \in Connections, UNCHANGED <<channel, answering>>
  PROVE  SamePlaces(c)
BY DEF SamePlaces, Queued

\* A step of c that leaves the swarm workers alone concerns only c.
LEMMA OwnStep ==
  ASSUME TypeInv, ExchangeInv, NEW c \in Connections, UNCHANGED <<channel, answering>>,
         \A d \in Connections : d # c =>
            /\ phase'[d] = phase[d] /\ current'[d] = current[d] /\ to_send'[d] = to_send[d]
            /\ answered'[d] = answered[d] /\ delivered'[d] = delivered[d],
         ConnectionInv(c)'
  PROVE  ExchangeInv'
<1>1. ASSUME NEW d \in Connections, d # c PROVE ConnectionInv(d)'
  BY <1>1, SwarmUnchanged, UndisturbedKeeps, ExchangeParts DEF Undisturbed
<1> QED
  BY <1>1, ExchangeParts

LEMMA ExchangeInit == Init => ExchangeInv
<1> SUFFICES ASSUME Init PROVE ExchangeInv
  OBVIOUS
<1>1. NoRequest \notin Connections
  BY HttpAssumption DEF HttpAssumption
<1>2. \A w \in Workers : channel[w] = << >> /\ answering[w] = NoRequest
  BY DEF Init
<1>3. \A w \in Workers : Distinct(channel[w])
  BY <1>2, EmptyElements
<1>4. \A c \in Connections, w \in Workers : ~Queued(c, w) /\ answering[w] # c
  BY <1>1, <1>2, EmptyElements DEF Queued
<1>5. \A c \in Connections : phase[c] = "new" /\ to_send[c] = << >> /\ delivered[c] = {} /\ answered[c] = {}
  BY DEF Init
<1>6. \A c \in Connections : Idle(c)
  BY <1>4, <1>5 DEF Idle
<1> QED
  BY <1>3, <1>5, <1>6 DEF ExchangeInv

LEMMA EndedExchange ==
  ASSUME TypeInv, ExchangeInv, NEW c \in Connections, Ended(c), UNCHANGED <<channel, answering>>
  PROVE  ExchangeInv'
<1>1. /\ phase' = [phase EXCEPT ![c] = "closed"]
      /\ current' = [current EXCEPT ![c] = NoRequest]
      /\ to_send' = [to_send EXCEPT ![c] = << >>]
      /\ answered' = [answered EXCEPT ![c] = {}]
      /\ delivered' = [delivered EXCEPT ![c] = {}]
  BY DEF Ended
<1>2. \A d \in Connections : d # c =>
            /\ phase'[d] = phase[d] /\ current'[d] = current[d] /\ to_send'[d] = to_send[d]
            /\ answered'[d] = answered[d] /\ delivered'[d] = delivered[d]
  BY <1>1 DEF TypeInv, TypeOK
<1>3. phase'[c] = "closed"
  BY <1>1 DEF TypeInv, TypeOK
<1>4. ConnectionInv(c)'
  BY <1>3 DEF ConnectionInv
<1> QED
  BY <1>2, <1>4, OwnStep

\* A request that is taken is sent to swarm workers or refused.
LEMMA TakeRequestExchange ==
  ASSUME TypeInv, ExchangeInv, NEW c \in Connections, TakeRequest(c)
  PROVE  ExchangeInv'
<1> DEFINE r == Head(buffer[c])
<1>1. Servable(r)
  BY TakenRequest DEF TakeRequest
<1>2. PICK h, x, f :
         /\ h \in Headers(c) /\ x \in BOOLEAN
         /\ PeerAddr(c, h) # None
         /\ Admitted(c, r, PeerAddr(c, h), f, x)
  BY TakeRequestTakes
<1>3. UNCHANGED <<answered, channel, answering, delivered>>
  BY DEF TakeRequest, swarm
<1> DEFINE q == [request |-> r, addr |-> PeerAddr(c, h), refusal |-> f]
<1>4. /\ current' = [current EXCEPT ![c] = q]
      /\ phase' = [phase EXCEPT ![c] = IF x THEN "sending" ELSE "writing"]
      /\ to_send' = [to_send EXCEPT ![c] = IF x THEN Consumers(r) ELSE << >>]
      /\ x <=> f = None
  BY <1>2 DEF Admitted
<1>5. current'[c] = q /\ q.request = r /\ q.refusal = f
  BY <1>4 DEF TypeInv
<1>6. /\ phase'[c] = IF x THEN "sending" ELSE "writing"
      /\ to_send'[c] = IF x THEN Consumers(r) ELSE << >>
  BY <1>4 DEF TypeInv, TypeOK
<1>7. \A d \in Connections : d # c =>
         /\ phase'[d] = phase[d] /\ current'[d] = current[d] /\ to_send'[d] = to_send[d]
         /\ answered'[d] = answered[d] /\ delivered'[d] = delivered[d]
  BY <1>3, <1>4 DEF TypeInv, TypeOK
<1>8. phase[c] = "reading" /\ Idle(c)
  BY DEF TakeRequest, ExchangeInv
<1>9. /\ answered'[c] = {} /\ delivered'[c] = {}
      /\ \A w \in Workers : ~Queued(c, w)' /\ answering'[w] # c
  BY <1>3, <1>8 DEF Idle, Queued
<1> HIDE DEF q, r
<1>10. CASE x
  <2>1. phase'[c] = "sending" /\ to_send'[c] = Consumers(r) /\ current'[c].request = r
    BY <1>5, <1>6, <1>10
  <2>2. /\ Consumers(r) # << >> /\ Ascending(Consumers(r))
        /\ Consumed(r) = Range(Consumers(r))
    BY <1>1, ConsumersListed
  <2>3. \A w : Waiting(c, w)' <=> w \in Consumed(r)
    BY <2>1, <2>2 DEF Waiting, In, Range
  <2>4. Consumed(r) # {}
    BY <1>1 DEF Consumed, Servable
  <2>5. \A w \in Workers : Placed(c, w)' /\ AskedInOrder(c, w)'
    BY <1>9, <2>1, <2>3 DEF Placed, AskedInOrder
  <2>6. Exchanging(c)'
    BY <1>1, <1>9, <2>1, <2>2, <2>4, <2>5 DEF Exchanging
  <2> QED
    BY <1>3, <1>7, <2>1, <2>6, OwnStep DEF ConnectionInv
<1>11. CASE ~x
  <2>1. phase'[c] = "writing" /\ to_send'[c] = << >> /\ current'[c].refusal # None
    BY <1>4, <1>5, <1>6, <1>11
  <2>2. Idle(c)'
    BY <1>9, <2>1 DEF Idle
  <2> QED
    BY <1>3, <1>7, <2>1, <2>2, OwnStep DEF ConnectionInv
<1> QED
  BY <1>10, <1>11

\* Send moves the first waiting request into its channel.
LEMMA SendExchange ==
  ASSUME TypeInv, ExchangeInv, NEW c \in Connections, Send(c)
  PROVE  ExchangeInv'
<1> DEFINE w == Head(to_send[c])
<1>1. phase[c] = "sending" /\ Exchanging(c)
  BY DEF Send, ExchangeInv
<1>2. to_send[c] \in Seq(Workers) /\ to_send[c] # << >> /\ Ascending(to_send[c])
  BY <1>1 DEF TypeInv, Exchanging
<1>3. /\ Distinct(to_send[c]) /\ Ascending(Tail(to_send[c]))
      /\ \A v : In(Tail(to_send[c]), v) => w < v
  BY <1>2, AscendingTail
<1>4. /\ w \in Workers /\ In(to_send[c], w)
      /\ \A v : In(Tail(to_send[c]), v) <=> In(to_send[c], v) /\ v # w
  BY <1>2, <1>3, TailElements
<1>5. channel[w] \in Seq(Connections) /\ Distinct(channel[w])
  BY <1>4 DEF TypeInv, TypeOK, ExchangeInv
<1>6. Waiting(c, w) /\ Placed(c, w) /\ ~Queued(c, w)
  BY <1>1, <1>4 DEF Waiting, Exchanging, Placed
<1>7. /\ Distinct(Append(channel[w], c))
      /\ \A d : In(Append(channel[w], c), d) <=> In(channel[w], d) \/ d = c
  BY <1>5, <1>6, AppendElements DEF Queued
<1>8. /\ channel' = [channel EXCEPT ![w] = Append(channel[w], c)]
      /\ to_send' = [to_send EXCEPT ![c] = Tail(to_send[c])]
      /\ phase' = [phase EXCEPT ![c] = IF Len(to_send[c]) = 1 THEN "awaiting" ELSE phase[c]]
      /\ UNCHANGED <<current, answered, answering, delivered>>
  BY DEF Send
<1>9. to_send'[c] = Tail(to_send[c]) /\ phase'[c] = IF to_send'[c] = << >> THEN "awaiting" ELSE "sending"
  <2>1. to_send'[c] = Tail(to_send[c])
    BY <1>8 DEF TypeInv
  <2>2. phase'[c] = IF Len(to_send[c]) = 1 THEN "awaiting" ELSE "sending"
    BY <1>1, <1>8 DEF TypeInv, TypeOK
  <2>3. Len(to_send[c]) = 1 <=> Tail(to_send[c]) = << >>
    <3>1. Tail(to_send[c]) \in Seq(Workers) /\ Len(Tail(to_send[c])) = Len(to_send[c]) - 1
          /\ Len(to_send[c]) \in Nat
      BY <1>2
    <3>2. Tail(to_send[c]) = << >> <=> Len(Tail(to_send[c])) = 0
      BY <3>1, EmptySeq
    <3> QED
      BY <3>1, <3>2
  <2> QED
    BY <2>1, <2>2, <2>3
<1> HIDE DEF w
<1>10. \A d \in Connections, v \in Workers :
          Queued(d, v)' <=> Queued(d, v) \/ (d = c /\ v = w)
  <2>1. channel'[w] = Append(channel[w], c) /\ \A v \in Workers : v # w => channel'[v] = channel[v]
    BY <1>4, <1>8 DEF TypeInv, TypeOK
  <2> QED
    BY <1>7, <2>1 DEF Queued
<1>11. \A v \in Workers : Distinct(channel'[v])
  BY <1>4, <1>7, <1>8 DEF TypeInv, TypeOK, ExchangeInv
<1>12. \A d \in Connections : d # c => ConnectionInv(d)'
  <2> SUFFICES ASSUME NEW d \in Connections, d # c PROVE ConnectionInv(d)'
    OBVIOUS
  <2>1. SamePlaces(d)
    BY <1>8, <1>10 DEF SamePlaces
  <2>2. phase'[d] = phase[d] /\ to_send'[d] = to_send[d]
    BY <1>8 DEF TypeInv, TypeOK
  <2>3. Undisturbed(d)
    BY <1>8, <2>1, <2>2 DEF Undisturbed
  <2> QED
    BY <2>3, UndisturbedKeeps, ExchangeParts
<1>13. \A v : Waiting(c, v)' <=> Waiting(c, v) /\ v # w
  BY <1>4, <1>9 DEF Waiting
<1>14. \A v \in Workers : Placed(c, v)'
  <2> SUFFICES ASSUME NEW v \in Workers PROVE Placed(c, v)'
    OBVIOUS
  <2>1. Placed(c, v)
    BY <1>1 DEF Exchanging
  <2>2. CASE v # w
    <3>1. Queued(c, v)' <=> Queued(c, v)
      BY <1>10, <2>2
    <3> QED
      BY <1>8, <1>13, <2>1, <2>2, <3>1 DEF Placed
  <2>3. CASE v = w
    <3>1. Queued(c, v)'
      BY <1>10, <2>3
    <3> QED
      BY <1>6, <1>8, <1>13, <2>3, <3>1 DEF Placed
  <2> QED
    BY <2>2, <2>3
<1>15. \A v \in Workers : AskedInOrder(c, v)'
  <2> SUFFICES ASSUME NEW v \in Workers, Queued(c, v)' \/ answering'[v] = c,
                      NEW u \in Workers, Waiting(c, u)'
               PROVE  v < u
    BY DEF AskedInOrder
  <2>1. Waiting(c, u) /\ In(Tail(to_send[c]), u)
    BY <1>9, <1>13 DEF Waiting
  <2>2. CASE v = w
    BY <1>3, <2>1, <2>2 DEF w
  <2>3. CASE v # w
    <3>1. Queued(c, v) \/ answering[v] = c
      BY <1>8, <1>10, <2>3
    <3>2. AskedInOrder(c, v)
      BY <1>1 DEF Exchanging
    <3> QED
      BY <2>1, <3>1, <3>2 DEF AskedInOrder
  <2> QED
    BY <2>2, <2>3
<1>16. Exchanging(c)'
  BY <1>1, <1>3, <1>8, <1>9, <1>14, <1>15 DEF Exchanging
<1>17. ConnectionInv(c)'
  BY <1>9, <1>16 DEF ConnectionInv
<1> QED
  BY <1>11, <1>12, <1>17, ExchangeParts

\* HandleRequest moves the first request of a channel to its task.
LEMMA HandleRequestExchange ==
  ASSUME TypeInv, ExchangeInv, NEW w \in Workers, HandleRequest(w)
  PROVE  ExchangeInv'
<1>0. NoRequest \notin Connections
  BY HttpAssumption DEF HttpAssumption
<1>2. channel[w] \in Seq(Connections) /\ channel[w] # << >> /\ Distinct(channel[w])
  BY DEF HandleRequest, TypeInv, TypeOK, ExchangeInv
<1>a. PICK c \in Connections : c = Head(channel[w])
  BY <1>2
<1>1. /\ answering[w] = NoRequest
      /\ answering' = [answering EXCEPT ![w] = c]
      /\ channel' = [channel EXCEPT ![w] = Tail(channel[w])]
      /\ UNCHANGED <<phase, current, to_send, answered, delivered>>
  BY <1>a DEF HandleRequest, task, exchange
<1>3. /\ c \in Connections /\ In(channel[w], c) /\ Distinct(Tail(channel[w]))
      /\ \A d : In(Tail(channel[w]), d) <=> In(channel[w], d) /\ d # c
  BY <1>2, <1>a, TailElements
<1>4. channel'[w] = Tail(channel[w]) /\ \A v \in Workers : v # w => channel'[v] = channel[v]
  BY <1>1 DEF TypeInv, TypeOK
<1>5. answering'[w] = c /\ \A v \in Workers : v # w => answering'[v] = answering[v]
  BY <1>1 DEF TypeInv, TypeOK
<1>6. \A v \in Workers : Distinct(channel'[v])
  BY <1>3, <1>4 DEF ExchangeInv
<1>7. \A d \in Connections : d # c => ConnectionInv(d)'
  <2> SUFFICES ASSUME NEW d \in Connections, d # c PROVE ConnectionInv(d)'
    OBVIOUS
  <2>1. \A v \in Workers : Queued(d, v)' <=> Queued(d, v)
    BY <1>3, <1>4 DEF Queued
  <2>2. \A v \in Workers : answering'[v] = d <=> answering[v] = d
    BY <1>0, <1>1, <1>5
  <2>3. Undisturbed(d)
    BY <1>1, <2>1, <2>2 DEF Undisturbed, SamePlaces
  <2> QED
    BY <2>3, UndisturbedKeeps, ExchangeParts
<1>8. Queued(c, w)
  BY <1>3 DEF Queued
<1>9. CASE phase[c] \in {"sending", "awaiting"}
  <2>1. Exchanging(c)
    BY <1>3, <1>9 DEF ExchangeInv
  <2>2. /\ ~Queued(c, w)' /\ answering'[w] = c
        /\ \A v \in Workers : v # w => (Queued(c, v)' <=> Queued(c, v)) /\ answering'[v] = answering[v]
    BY <1>3, <1>4, <1>5 DEF Queued
  <2>3. \A v : Waiting(c, v)' <=> Waiting(c, v)
    BY <1>1 DEF Waiting
  <2>4. \A v \in Workers : Placed(c, v)'
    <3> SUFFICES ASSUME NEW v \in Workers PROVE Placed(c, v)'
      OBVIOUS
    <3>1. Placed(c, v)
      BY <2>1 DEF Exchanging
    <3>2. CASE v # w
      BY <1>1, <2>2, <2>3, <3>1, <3>2 DEF Placed
    <3>3. CASE v = w
      BY <1>1, <1>8, <2>2, <2>3, <3>1, <3>3 DEF Placed
    <3> QED
      BY <3>2, <3>3
  <2>5. \A v \in Workers : AskedInOrder(c, v)'
    BY <1>8, <2>1, <2>2, <2>3 DEF AskedInOrder, Exchanging
  <2>6. Exchanging(c)'
    BY <1>1, <2>1, <2>4, <2>5 DEF Exchanging
  <2> QED
    BY <1>1, <1>6, <1>7, <1>9, <2>6, ExchangeParts DEF ConnectionInv
<1>10. CASE phase[c] = "closed"
  BY <1>1, <1>6, <1>7, <1>10, ExchangeParts DEF ConnectionInv
<1>11. CASE phase[c] \notin {"sending", "awaiting", "closed"}
  BY <1>3, <1>8, <1>11 DEF ExchangeInv, Idle
<1> QED
  BY <1>9, <1>10, <1>11

\* Respond delivers the answer, or drops it when the connection has ended.
LEMMA RespondExchange ==
  ASSUME TypeInv, ExchangeInv, NEW w \in Workers, Respond(w)
  PROVE  ExchangeInv'
<1>0. NoRequest \notin Connections
  BY HttpAssumption DEF HttpAssumption
<1>2. PICK c \in Connections : c = answering[w]
  BY DEF Respond, TypeInv, TypeOK
<1>1. /\ c # NoRequest /\ phase[c] \in {"awaiting", "closed"}
      /\ answering' = [answering EXCEPT ![w] = NoRequest]
      /\ delivered' = IF phase[c] = "closed" THEN delivered
                      ELSE [delivered EXCEPT ![c] = delivered[c] \cup {w}]
      /\ UNCHANGED <<phase, current, to_send, answered, channel>>
  BY <1>2 DEF Respond, task, exchange
<1>3. answering'[w] = NoRequest /\ \A v \in Workers : v # w => answering'[v] = answering[v]
  BY <1>1 DEF TypeInv, TypeOK
<1>4. \A v \in Workers : Distinct(channel'[v])
  BY <1>1 DEF ExchangeInv
<1>5. \A d, v : (Queued(d, v)' <=> Queued(d, v)) /\ (Waiting(d, v)' <=> Waiting(d, v))
  BY <1>1 DEF Queued, Waiting
<1>6. \A d \in Connections : d # c => ConnectionInv(d)'
  <2> SUFFICES ASSUME NEW d \in Connections, d # c PROVE ConnectionInv(d)'
    OBVIOUS
  <2>1. \A v \in Workers : answering'[v] = d <=> answering[v] = d
    BY <1>0, <1>2, <1>3
  <2>2. delivered'[d] = delivered[d]
    BY <1>1 DEF TypeInv, TypeOK
  <2>3. Undisturbed(d)
    BY <1>1, <1>5, <2>1, <2>2 DEF Undisturbed, SamePlaces
  <2> QED
    BY <2>3, UndisturbedKeeps, ExchangeParts
<1>7. CASE phase[c] = "closed"
  BY <1>1, <1>4, <1>6, <1>7, ExchangeParts DEF ConnectionInv
<1>8. CASE phase[c] = "awaiting"
  <2>1. Exchanging(c)
    BY <1>2, <1>8 DEF ExchangeInv
  <2>2. delivered'[c] = delivered[c] \cup {w}
    BY <1>1, <1>2, <1>8 DEF TypeInv, TypeOK
  <2>3. \A v \in Workers : Placed(c, v)'
    <3> SUFFICES ASSUME NEW v \in Workers PROVE Placed(c, v)'
      OBVIOUS
    <3>1. Placed(c, v)
      BY <2>1 DEF Exchanging
    <3>2. CASE v # w
      <4>1. answering'[v] = answering[v] /\ (v \in delivered'[c] <=> v \in delivered[c])
        BY <1>3, <2>2, <3>2
      <4> QED
        BY <1>1, <1>5, <3>1, <4>1 DEF Placed
    <3>3. CASE v = w
      <4>1. answering'[v] # c /\ v \in delivered'[c] /\ answering[v] = c
        BY <1>1, <1>2, <1>3, <2>2, <3>3
      <4> QED
        BY <1>1, <1>5, <3>1, <4>1 DEF Placed
    <3> QED
      BY <3>2, <3>3
  <2>4. \A v \in Workers : AskedInOrder(c, v)'
    <3>1. \A v \in Workers : answering'[v] = c => answering[v] = c
      BY <1>1, <1>3
    <3> QED
      BY <1>5, <2>1, <3>1 DEF AskedInOrder, Exchanging
  <2>5. Exchanging(c)'
    BY <1>1, <2>1, <2>3, <2>4 DEF Exchanging
  <2> QED
    BY <1>1, <1>4, <1>6, <1>8, <2>5, ExchangeParts DEF ConnectionInv
<1> QED
  BY <1>1, <1>7, <1>8

\* Receive takes an answer; with the last one the exchange is over.
LEMMA ReceiveExchange ==
  ASSUME TypeInv, ExchangeInv, NEW c \in Connections, NEW w \in Workers, Receive(c, w)
  PROVE  ExchangeInv'
<1> DEFINE got == answered[c] \cup {w}
           wanted == Consumed(current[c].request)
<1>1. /\ phase[c] = "awaiting" /\ w \in delivered[c]
      /\ delivered' = [delivered EXCEPT ![c] = delivered[c] \ {w}]
      /\ answered' = [answered EXCEPT ![c] = got]
      /\ phase' = [phase EXCEPT ![c] = IF Complete(c, got) THEN "writing" ELSE phase[c]]
      /\ UNCHANGED <<current, to_send, channel, answering>>
  BY DEF Receive
<1>2. Exchanging(c)
  BY <1>1 DEF ExchangeInv
<1>3. /\ delivered'[c] = delivered[c] \ {w} /\ answered'[c] = got
      /\ phase'[c] = IF Complete(c, got) THEN "writing" ELSE "awaiting"
      /\ current'[c] = current[c] /\ to_send'[c] = to_send[c]
  BY <1>1 DEF TypeInv, TypeOK
<1>4. \A d \in Connections : d # c =>
         /\ phase'[d] = phase[d] /\ current'[d] = current[d] /\ to_send'[d] = to_send[d]
         /\ answered'[d] = answered[d] /\ delivered'[d] = delivered[d]
  BY <1>1 DEF TypeInv, TypeOK
<1>5. \A v : (Queued(c, v)' <=> Queued(c, v)) /\ (Waiting(c, v)' <=> Waiting(c, v))
  BY <1>1 DEF Queued, Waiting
<1>6. to_send[c] = << >>
  BY <1>1, <1>2 DEF Exchanging
<1>7. \A v \in Workers : Placed(c, v)'
  <2> SUFFICES ASSUME NEW v \in Workers PROVE Placed(c, v)'
    OBVIOUS
  <2>1. Placed(c, v)
    BY <1>2 DEF Exchanging
  <2>2. CASE v # w
    <3>1. (v \in delivered'[c] <=> v \in delivered[c]) /\ (v \in answered'[c] <=> v \in answered[c])
      BY <1>3, <2>2
    <3> QED
      BY <1>1, <1>5, <2>1, <3>1 DEF Placed
  <2>3. CASE v = w
    <3>1. v \notin delivered'[c] /\ v \in answered'[c] /\ v \in delivered[c]
      BY <1>1, <1>3, <2>3
    <3> QED
      BY <1>1, <1>5, <2>1, <3>1 DEF Placed
  <2> QED
    BY <2>2, <2>3
<1>8. got \subseteq Workers /\ got \subseteq wanted
  BY <1>1, <1>2 DEF TypeInv, TypeOK, Exchanging, Placed
<1>9. /\ Len(Consumers(current[c].request)) = Cardinality(wanted)
      /\ wanted \subseteq Workers /\ IsFiniteSet(wanted)
  BY <1>2, ConsumersListed DEF Exchanging
<1>10. Complete(c, got) <=> got = wanted
  BY <1>8, <1>9, FS_Subset DEF Complete
<1> HIDE DEF got, wanted
<1>11. CASE Complete(c, got)
  <2>1. answered'[c] = wanted /\ phase'[c] = "writing"
    BY <1>3, <1>10, <1>11
  <2>2. \A v \in Workers : v \in wanted <=> v \in answered'[c]
    BY <2>1
  <2>3. \A v \in Workers : ~Queued(c, v)' /\ answering'[v] # c /\ v \notin delivered'[c]
    <3> SUFFICES ASSUME NEW v \in Workers
                 PROVE  ~Queued(c, v)' /\ answering'[v] # c /\ v \notin delivered'[c]
      OBVIOUS
    <3>1. Placed(c, v)'
      BY <1>7
    <3>2. CASE v \in wanted
      BY <2>1, <3>1, <3>2 DEF Placed
    <3>3. CASE v \notin wanted
      BY <1>3, <3>1, <3>3 DEF Placed, wanted
    <3> QED
      BY <3>2, <3>3
  <2>4. delivered'[c] = {}
    <3>1. delivered'[c] \subseteq Workers
      BY <1>3 DEF TypeInv, TypeOK
    <3> QED
      BY <2>3, <3>1
  <2>5. Idle(c)'
    BY <1>3, <1>6, <2>1, <2>3, <2>4 DEF Idle, wanted
  <2> QED
    BY <1>1, <1>4, <2>1, <2>5, OwnStep DEF ConnectionInv
<1>12. CASE ~Complete(c, got)
  <2>1. answered'[c] # wanted /\ phase'[c] = "awaiting"
    BY <1>3, <1>10, <1>12
  <2>2. \A v \in Workers : AskedInOrder(c, v)'
    BY <1>1, <1>2, <1>5 DEF AskedInOrder, Exchanging
  <2>3. Exchanging(c)'
    BY <1>2, <1>3, <1>6, <1>7, <2>1, <2>2 DEF Exchanging, wanted
  <2> QED
    BY <1>1, <1>4, <2>1, <2>3, OwnStep DEF ConnectionInv
<1> QED
  BY <1>11, <1>12

LEMMA ExchangeStep == TypeInv /\ ExchangeInv /\ [Next]_vars => ExchangeInv'
<1> SUFFICES ASSUME TypeInv, ExchangeInv, [Next]_vars PROVE ExchangeInv'
  OBVIOUS
<1> USE DEF lists, task, input, exchange, swarm
<1>1. ASSUME NEW c \in Connections, phase[c] \in {"new", "tls", "reading"},
             NEW x \in {"tls", "reading", "bad_request", "closed"},
             phase' = [phase EXCEPT ![c] = x], UNCHANGED <<exchange, swarm>>
      PROVE  ExchangeInv'
  <2>1. phase'[c] = x /\ \A d \in Connections : d # c => phase'[d] = phase[d]
    BY <1>1 DEF TypeInv, TypeOK
  <2>2. Idle(c)
    BY <1>1 DEF ExchangeInv
  <2>3. ConnectionInv(c)'
    BY <1>1, <2>1, <2>2, SwarmUnchanged, IdleKeeps
  <2> QED
    BY <1>1, <2>1, <2>3, OwnStep
<1>2. ASSUME NEW c \in Connections, Accept(c) \/ TlsAccepted(c) \/ BadRequest(c) PROVE ExchangeInv'
  <2>1. \E x \in {"tls", "reading", "bad_request", "closed"} : phase' = [phase EXCEPT ![c] = x]
    BY <1>2 DEF Accept, TlsAccepted, BadRequest
  <2>2. phase[c] \in {"new", "tls", "reading"} /\ UNCHANGED <<exchange, swarm>>
    BY <1>2 DEF Accept, TlsAccepted, BadRequest
  <2> QED
    BY <1>1, <2>1, <2>2
<1>3. ASSUME NEW c \in Connections,
             Inactive(c) \/ StreamError(c) \/ RequestBufferFull(c)
                \/ PeerIpHeaderMissing(c) \/ BadRequestWritten(c)
      PROVE  ExchangeInv'
  BY <1>3, EndedExchange DEF Inactive, StreamError, RequestBufferFull, PeerIpHeaderMissing,
     BadRequestWritten
<1>4. ASSUME NEW c \in Connections, Written(c) PROVE ExchangeInv'
  <2>1. CASE config.keep_alive
    <3>1. /\ phase' = [phase EXCEPT ![c] = "reading"]
          /\ current' = [current EXCEPT ![c] = NoRequest]
          /\ answered' = [answered EXCEPT ![c] = {}]
          /\ UNCHANGED <<to_send, delivered, channel, answering>>
      BY <1>4, <2>1 DEF Written
    <3>2. phase[c] = "writing" /\ Idle(c)
      BY <1>4 DEF Written, ExchangeInv
    <3>3. phase'[c] = "reading" /\ answered'[c] = {}
      BY <3>1 DEF TypeInv, TypeOK
    <3>4. Idle(c)'
      BY <3>1, <3>2, <3>3 DEF Idle, Queued
    <3>5. \A d \in Connections : d # c =>
             phase'[d] = phase[d] /\ current'[d] = current[d] /\ answered'[d] = answered[d]
      BY <3>1 DEF TypeInv, TypeOK
    <3>6. ConnectionInv(c)'
      BY <3>3, <3>4 DEF ConnectionInv
    <3> QED
      BY <3>1, <3>5, <3>6, OwnStep
  <2>2. CASE ~config.keep_alive
    BY <1>4, <2>2, EndedExchange DEF Written
  <2> QED
    BY <2>1, <2>2
<1>5. CASE UNCHANGED <<phase, exchange, swarm>>
  <2>1. \A c \in Connections : Undisturbed(c)
    BY <1>5, SwarmUnchanged DEF Undisturbed
  <2> QED
    BY <1>5, <2>1, UndisturbedKeeps, ExchangeParts
<1>6. ASSUME NEW c \in Connections, Read(c) PROVE ExchangeInv'
  BY <1>5, <1>6 DEF Read
<1>7. CASE clean_connections \/ Tick \/ Sigusr1 \/ Sigusr2
  BY <1>5, <1>7 DEF clean_connections, Tick, Sigusr1, Sigusr2
<1>8. CASE UNCHANGED vars
  BY <1>5, <1>8 DEF vars
<1> QED
  BY <1>2, <1>3, <1>4, <1>6, <1>7, <1>8, TakeRequestExchange, SendExchange,
     HandleRequestExchange, RespondExchange, ReceiveExchange DEF Next, ConnectionStep

----------------------------------------------------------------------------
(***************************************************************************)
(* What follows from the invariant                                         *)
(***************************************************************************)
\* The swarm worker with the greatest number among those that wait for a
\* connection waits for one that can move: what it still has to send goes to
\* workers of greater numbers, none of which is waiting.
LEMMA ExchangeMoves == TypeInv /\ ExchangeInv => NoStall
<1> SUFFICES ASSUME TypeInv, ExchangeInv, ~NoStall PROVE FALSE
  OBVIOUS
<1>0. /\ Workers \subseteq Int /\ IsFiniteSet(Workers) /\ SHARED_CHANNEL_SIZE \in Nat \ {0}
      /\ NoRequest \notin Connections
  BY HttpAssumption DEF HttpAssumption
<1>1. PICK c \in Connections : phase[c] \in {"sending", "awaiting"}
  BY DEF NoStall
<1>2. \A d \in Connections : ~Movable(d)
  BY DEF NoStall
<1>3. \A w \in Workers : answering[w] = NoRequest => channel[w] = << >>
  BY DEF NoStall
<1>4. \A w \in Workers : answering[w] # NoRequest => phase[answering[w]] \notin {"awaiting", "closed"}
  BY DEF NoStall
<1> DEFINE Busy == {w \in Workers : answering[w] # NoRequest}
<1>5. ASSUME NEW d \in Connections, phase[d] = "sending"
      PROVE  /\ Head(to_send[d]) \in Busy /\ Waiting(d, Head(to_send[d]))
  <2>1. to_send[d] \in Seq(Workers) /\ to_send[d] # << >> /\ Ascending(to_send[d])
    BY <1>5 DEF TypeInv, ExchangeInv, Exchanging
  <2>2. Distinct(to_send[d])
    BY <2>1, AscendingTail
  <2>3. Head(to_send[d]) \in Workers /\ Waiting(d, Head(to_send[d]))
    BY <2>1, <2>2, TailElements DEF Waiting
  <2>4. ~(Len(channel[Head(to_send[d])]) < SHARED_CHANNEL_SIZE)
    BY <1>2, <1>5 DEF Movable
  <2>5. channel[Head(to_send[d])] # << >>
    <3>1. CASE channel[Head(to_send[d])] = << >>
      <4>1. Len(channel[Head(to_send[d])]) = 0
        BY <3>1
      <4> QED
        BY <1>0, <2>4, <4>1
    <3> QED
      BY <3>1
  <2> QED
    BY <1>3, <2>3, <2>5
<1>6. Busy # {}
  <2>1. CASE phase[c] = "sending"
    BY <1>5, <2>1
  <2>2. CASE phase[c] = "awaiting"
    <3>1. Exchanging(c) /\ to_send[c] = << >> /\ delivered[c] = {}
      BY <1>2, <2>2 DEF ExchangeInv, Exchanging, Movable
    <3>2. answered[c] # Consumed(current[c].request) /\ Consumed(current[c].request) \subseteq Workers
      BY <3>1, ConsumersListed DEF Exchanging
    <3>3. \A w \in Workers : ~Waiting(c, w)
      BY <3>1, EmptyElements DEF Waiting
    <3>4. answered[c] \subseteq Workers /\ \A w \in Workers : Placed(c, w)
      BY <3>1 DEF TypeInv, TypeOK, Exchanging
    <3>5. PICK w \in Workers : Queued(c, w) \/ answering[w] = c
      BY <3>1, <3>2, <3>3, <3>4 DEF Placed
    <3>6. CASE answering[w] = c
      BY <1>0, <3>6
    <3>7. CASE Queued(c, w)
      <4>1. channel[w] # << >>
        BY <3>7, EmptyElements DEF Queued
      <4> QED
        BY <1>3, <4>1
    <3> QED
      BY <3>5, <3>6, <3>7
  <2> QED
    BY <1>1, <2>1, <2>2
<1>7. PICK w \in Busy : \A v \in Busy : v <= w
  <2>1. Busy \subseteq Int /\ IsFiniteSet(Busy)
    BY <1>0, FS_Subset
  <2> HIDE DEF Busy
  <2> QED
    BY <1>6, <2>1, GreatestElement
<1>8. PICK d \in Connections : d = answering[w]
  BY <1>7 DEF TypeInv, TypeOK
<1>9. phase[d] = "sending"
  <2>1. phase[d] \notin {"awaiting", "closed"}
    BY <1>4, <1>7, <1>8
  <2>2. ~Idle(d)
    BY <1>7, <1>8 DEF Idle
  <2> QED
    BY <2>1, <2>2 DEF ExchangeInv
<1>10. Head(to_send[d]) \in Busy /\ Waiting(d, Head(to_send[d]))
  BY <1>5, <1>9
<1>11. AskedInOrder(d, w)
  BY <1>7, <1>9 DEF ExchangeInv, Exchanging
<1>12. w < Head(to_send[d])
  BY <1>7, <1>8, <1>10, <1>11 DEF AskedInOrder
<1>13. Head(to_send[d]) <= w
  BY <1>7, <1>10
<1>14. w \in Int /\ Head(to_send[d]) \in Int
  BY <1>0, <1>7, <1>10
<1> QED
  BY <1>12, <1>13, <1>14

LEMMA ExchangeAnswers == ExchangeInv => AnswerComplete
BY DEF ExchangeInv, Idle, AnswerComplete, Consumed

HttpInv == TypeInv /\ AddressInv /\ HandleInv /\ ExchangeInv

LEMMA HttpInvariant == Spec => []HttpInv
<1>1. Init => HttpInv
  BY TypeInit, AddressInit, HandleInit, ExchangeInit DEF HttpInv
<1>2. HttpInv /\ [Next]_vars => HttpInv'
  BY TypeStep, AddressStep, HandleStep, ExchangeStep DEF HttpInv
<1> QED
  BY <1>1, <1>2, PTL DEF Spec

\* Every step of a connection, of a swarm worker's task, of the timers and of
\* the signal thread keeps the variables within their types.
THEOREM HttpTypeCorrect == Spec => []TypeOK
<1>1. HttpInv => TypeOK
  BY DEF HttpInv, TypeInv
<1> QED
  BY <1>1, HttpInvariant, PTL

\* run_connection, parse_forwarded_header: whatever clients write into
\* X-Forwarded-For, and however the list of proxies changes, a request is
\* checked and banned under its client's or a proxy's address.
THEOREM HttpNeverForgedAddress == Spec => []NeverForgedAddress
<1>1. HttpInv => NeverForgedAddress
  BY DEF HttpInv, AddressInv
<1> QED
  BY <1>1, HttpInvariant, PTL

\* handle_connection, clean_connections: handles and tasks match, and no more
\* than max_connections_per_worker exist.
THEOREM HttpHandlesMatchTasks == Spec => []HandlesMatchTasks
<1>1. HttpInv => HandlesMatchTasks
  BY DEF HttpInv, HandleInv
<1> QED
  BY <1>1, HttpInvariant, PTL

\* wait_for_scrape_responses: an answer holds the results of exactly the
\* swarm workers that were to be asked.
THEOREM HttpAnswerComplete == Spec => []AnswerComplete
<1>1. HttpInv => AnswerComplete
  BY ExchangeAnswers DEF HttpInv
<1> QED
  BY <1>1, HttpInvariant, PTL

\* handle_request: for any number of connections and swarm workers and every
\* channel size, connections and swarm workers never wait in a circle.
THEOREM HttpNoStall == Spec => []NoStall
<1>1. HttpInv => NoStall
  BY ExchangeMoves DEF HttpInv
<1> QED
  BY <1>1, HttpInvariant, PTL
============================================================================
