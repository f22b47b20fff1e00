--------------------------- MODULE UdpUringProofs ---------------------------
(***************************************************************************)
(* Proofs about UdpUring, for every ring size, every modulus of the tail   *)
(* that the ring size divides, and any number of datagrams: buffers are    *)
(* never lost, shown twice or overwritten while the kernel uses them.      *)
(***************************************************************************)
EXTENDS UdpUring, TLAPS, FiniteSetTheorems, SequenceTheorems

----------------------------------------------------------------------------
(***************************************************************************)
(* Arithmetic of the ring                                                  *)
(***************************************************************************)
LEMMA Sizes ==
  /\ ring_entries \in Nat \ {0} /\ TailModulus \in Nat \ {0}
  /\ ring_entries < TailModulus /\ TailModulus % ring_entries = 0
  /\ "send" \notin Families /\ "pulse" \notin Families /\ IsFiniteSet(Families)
<1>1. Families \subseteq {"v4", "v6"}
  BY UdpUringAssumption DEF UdpUringAssumption
<1>2. IsFiniteSet({"v4", "v6"})
  <2>1. IsFiniteSet({"v4"}) /\ {"v4", "v6"} = {"v4"} \cup {"v6"}
    BY FS_Singleton
  <2> QED
    BY <2>1, FS_AddElement
<1>3. IsFiniteSet(Families)
  BY <1>1, <1>2, FS_Subset
<1> QED
  BY <1>1, <1>3, UdpUringAssumption DEF UdpUringAssumption

\* Remainders of numbers within one turn of the tail.
LEMMA OneTurn ==
  ASSUME NEW n \in Nat \ {0}
  PROVE  /\ \A x \in Int : x % n \in 0..n - 1
         /\ \A x \in 0..n - 1 : x % n = x
         /\ \A x \in Int : n <= x /\ x < 2 * n => x % n = x - n
         /\ \A x \in Int : 0 - n <= x /\ x < 0 => x % n = x + n
<1>1. ASSUME NEW x \in Int PROVE x % n \in 0..n - 1
  OBVIOUS
<1>2. ASSUME NEW x \in 0..n - 1 PROVE x % n = x
  OBVIOUS
<1>3. ASSUME NEW x \in Int, n <= x, x < 2 * n PROVE x % n = x - n
  BY <1>3
<1>4. ASSUME NEW x \in Int, 0 - n <= x, x < 0 PROVE x % n = x + n
  BY <1>4
<1> QED
  BY <1>1, <1>2, <1>3, <1>4

\* A multiple of n is not strictly between 0 and n.
LEMMA NoMultipleBetween ==
  ASSUME NEW n \in Nat \ {0}, NEW z \in Int, 1 <= n * z, n * z <= n - 1
  PROVE  FALSE
OBVIOUS

\* Positions less than a ring apart have different slots, also when the tail
\* has wrapped between them.
LEMMA SlotsDiffer ==
  ASSUME NEW x \in Int, NEW y \in Int, NEW d \in 1..ring_entries - 1,
         y = x + d \/ y = x + d - TailModulus
  PROVE  mask(x) # mask(y)
<1> DEFINE n == ring_entries
           a == x \div n
           b == y \div n
           q == TailModulus \div n
<1>1. n \in Nat \ {0} /\ TailModulus \in Nat /\ TailModulus % n = 0
  BY Sizes
<1>2. x = n * a + (x % n) /\ a \in Int /\ x % n \in Int
  BY <1>1
<1>3. y = n * b + (y % n) /\ b \in Int /\ y % n \in Int
  BY <1>1
<1>4. TailModulus = n * q /\ q \in Int
  <2>1. TailModulus = n * q + (TailModulus % n) /\ q \in Int
    BY <1>1
  <2> QED
    BY <1>1, <2>1
<1> HIDE DEF n, a, b, q
<1>5. ASSUME x % n = y % n PROVE FALSE
  <2>1. y - x = n * b - n * a
    BY <1>1, <1>2, <1>3, <1>5
  <2>2. n * b - n * a = n * (b - a) /\ b - a \in Int
    BY <1>1, <1>2, <1>3
  <2>3. CASE y = x + d
    <3>1. n * (b - a) = d
      BY <2>1, <2>2, <2>3
    <3>2. d \in 1..n - 1
      BY DEF n
    <3> QED
      BY <1>1, <2>2, <3>1, <3>2, NoMultipleBetween
  <2>4. CASE y = x + d - TailModulus
    <3>1. n * (b - a) + n * q = d
      BY <1>1, <1>4, <2>1, <2>2, <2>4
    <3>2. n * (b - a) + n * q = n * (b - a + q) /\ b - a + q \in Int
      BY <1>1, <1>4, <2>2
    <3>3. d \in 1..n - 1
      BY DEF n
    <3> QED
      BY <1>1, <3>1, <3>2, <3>3, NoMultipleBetween
  <2> QED
    BY <2>3, <2>4
<1> QED
  BY <1>5 DEF mask, n

Positions == 0..TailModulus - 1
Length(tail, hd) == (tail - hd) % TailModulus
At(hd, k) == (hd + k) % TailModulus

\* The distance of two positions, however the tail has wrapped.
LEMMA Distance ==
  ASSUME NEW tail \in Positions, NEW hd \in Positions
  PROVE  /\ Length(tail, hd) \in Positions
         /\ tail = At(hd, Length(tail, hd))
         /\ \A k \in Positions :
               /\ At(hd, k) \in Positions
               /\ At(hd, k) = IF hd + k < TailModulus THEN hd + k ELSE hd + k - TailModulus
         /\ Length(tail, hd) > 0 =>
               Length(tail, (hd + 1) % TailModulus) = Length(tail, hd) - 1
         /\ Length(tail, hd) < TailModulus - 1 =>
               Length((tail + 1) % TailModulus, hd) = Length(tail, hd) + 1
         /\ \A k \in Positions : k + 1 \in Positions =>
               At((hd + 1) % TailModulus, k) = At(hd, k + 1)
<1> DEFINE T == TailModulus
           P(x) == x % T
<1>1. T \in Nat \ {0} /\ tail \in 0..T - 1 /\ hd \in 0..T - 1
  BY Sizes DEF Positions
<1> HIDE DEF T
<1>2. /\ \A x \in Int : P(x) \in 0..T - 1
      /\ \A x \in 0..T - 1 : P(x) = x
      /\ \A x \in Int : T <= x /\ x < 2 * T => P(x) = x - T
      /\ \A x \in Int : 0 - T <= x /\ x < 0 => P(x) = x + T
  BY <1>1, OneTurn
<1> HIDE DEF P
<1>3. P(tail - hd) \in 0..T - 1 /\ P(tail - hd) = IF tail >= hd THEN tail - hd ELSE tail - hd + T
  BY <1>1, <1>2
<1>4. tail = P(hd + P(tail - hd))
  BY <1>1, <1>2, <1>3
<1>5. P(hd + 1) = IF hd + 1 = T THEN 0 ELSE hd + 1
  BY <1>1, <1>2
<1>6. P(tail + 1) = IF tail + 1 = T THEN 0 ELSE tail + 1
  BY <1>1, <1>2
<1>7. P(tail - hd) > 0 => P(tail - P(hd + 1)) = P(tail - hd) - 1
  BY <1>1, <1>2, <1>3, <1>5
<1>8. P(tail - hd) < T - 1 => P(P(tail + 1) - hd) = P(tail - hd) + 1
  BY <1>1, <1>2, <1>3, <1>6
<1>9. ASSUME NEW k \in 0..T - 1, k + 1 \in 0..T - 1 PROVE P(P(hd + 1) + k) = P(hd + (k + 1))
  BY <1>1, <1>2, <1>5, <1>9
<1>10. \A k \in 0..T - 1 : P(hd + k) \in 0..T - 1
                          /\ P(hd + k) = IF hd + k < T THEN hd + k ELSE hd + k - T
  BY <1>1, <1>2
<1> QED
  BY <1>3, <1>4, <1>7, <1>8, <1>9, <1>10 DEF Positions, Length, At, T, P
----------------------------------------------------------------------------
(***************************************************************************)
(* Types                                                                   *)
(***************************************************************************)
\* Addresses that can be answered: with the IPv4 socket alone only IPv4 ones.
Reachable == {ip \in Ips : send_socket(ip) \in Families}
Answerable == [to: Reachable, fits: BOOLEAN]

\* TypeOK, and that every address in use can be answered: it came in through
\* a socket that is open.  Entries wait only in the loop that fills the queue,
\* and completions that the worker counted stay until it takes them.
TypeInv ==
    /\ TypeOK
    /\ local_responses \in Seq(Answerable)
    /\ socket \in [Families -> Seq(Reachable)]
    /\ \A i \in Delivered : cq[i].from \in Reachable
    /\ \A e \in sending : e.user_data = "send"
    /\ pc # "fill" => sq = << >>
    /\ pc = "reap" => unseen <= Len(cq)

\* What the user data of a completion says about its other fields.
LEMMA CqeFields ==
  ASSUME NEW e \in Cqe
  PROVE  /\ e.user_data \in Families \cup {"pulse", "send"}
         /\ e.user_data \in Families => e.ok \in BOOLEAN /\ e.more \in BOOLEAN
         /\ e.user_data \in Families /\ e.ok => e.bid \in Bids
         /\ e.user_data = "send" => e.index \in Indices
BY Sizes DEF Cqe

LEMMA SqeFields ==
  ASSUME NEW e \in Sqe, e.user_data = "send"
  PROVE  e.index \in Indices /\ e.response \in Response
BY Sizes DEF Sqe, Resubmittable

\* The completions of a queue that loses its first one, or gets another.
LEMMA QueueTail ==
  ASSUME NEW X, NEW q \in Seq(X), q # << >>
  PROVE  /\ Head(q) \in X /\ Head(q) = q[1] /\ 1 \in DOMAIN q
         /\ Tail(q) \in Seq(X)
         /\ \A i \in DOMAIN Tail(q) : i + 1 \in DOMAIN q /\ i + 1 # 1 /\ Tail(q)[i] = q[i + 1]
         /\ \A i \in DOMAIN q : i # 1 => i - 1 \in DOMAIN Tail(q) /\ Tail(q)[i - 1] = q[i]
         /\ DOMAIN q \subseteq Nat /\ DOMAIN Tail(q) \subseteq Nat
<1> DEFINE n == Len(q)
           t == Tail(q)
<1>1. n \in Nat /\ n >= 1 /\ DOMAIN q = 1..n /\ Head(q) = q[1] /\ q[1] \in X
  OBVIOUS
<1>2. t \in Seq(X) /\ DOMAIN t = 1..n - 1 /\ \A i \in 1..n - 1 : t[i] = q[i + 1]
  OBVIOUS
<1> HIDE DEF n, t
<1>3. \A i \in 1..n - 1 : i + 1 \in 1..n /\ i + 1 # 1
  BY <1>1
<1>4. \A i \in 1..n : i # 1 => i - 1 \in 1..n - 1 /\ t[i - 1] = q[i]
  <2> SUFFICES ASSUME NEW i \in 1..n, i # 1 PROVE i - 1 \in 1..n - 1 /\ t[i - 1] = q[i]
    OBVIOUS
  <2>1. i - 1 \in 1..n - 1 /\ (i - 1) + 1 = i
    BY <1>1
  <2> QED
    BY <1>2, <2>1
<1> QED
  BY <1>1, <1>2, <1>3, <1>4 DEF t

LEMMA QueueAppend ==
  ASSUME NEW X, NEW q \in Seq(X), NEW e \in X
  PROVE  /\ Append(q, e) \in Seq(X)
         /\ Len(q) \in Nat /\ DOMAIN q = 1..Len(q)
         /\ DOMAIN Append(q, e) = DOMAIN q \cup {Len(q) + 1}
         /\ Len(q) + 1 \notin DOMAIN q
         /\ \A i \in DOMAIN q : Append(q, e)[i] = q[i]
         /\ Append(q, e)[Len(q) + 1] = e
<1> DEFINE n == Len(q)
           a == Append(q, e)
<1>1. n \in Nat /\ DOMAIN q = 1..n
  OBVIOUS
<1>2. a \in Seq(X) /\ DOMAIN a = 1..n + 1 /\ a[n + 1] = e /\ \A i \in 1..n : a[i] = q[i]
  OBVIOUS
<1>3. 1..n + 1 = 1..n \cup {n + 1} /\ n + 1 \notin 1..n
  BY <1>1
<1> QED
  BY <1>1, <1>2, <1>3

LEMMA TypeInit == Init => TypeInv
<1> SUFFICES ASSUME Init PROVE TypeInv
  OBVIOUS
<1> USE Sizes
<1>1. resubmittable_sqe_buf \in Seq(Resubmittable)
  <2>1. IsFiniteSet(Resubmittable)
    BY FS_AddElement DEF Resubmittable
  <2>2. Cardinality(Resubmittable) \in Nat
    BY <2>1, FS_CardinalityType
  <2>3. resubmittable_sqe_buf \in [1..Cardinality(Resubmittable) -> Resubmittable]
    BY DEF Init
  <2> QED
    BY <2>2, <2>3, SeqDef
<1>2. 0 \in 0..ring_entries /\ 0 \in 0..TailModulus - 1
  OBVIOUS
<1>3. local_tail \in 0..TailModulus - 1
  <2>1. local_tail = ring_entries % TailModulus
    BY DEF Init
  <2> QED
    BY <2>1, OneTurn
<1>4. buf_ring \in [0..ring_entries - 1 -> Bids]
  BY DEF Init, new_ring, Bids
<1>5. buffers \in [Indices -> [free: BOOLEAN, bytes: Response \cup {NoResponse}]]
  BY DEF Init
<1>6. arrived \in 0..MaxDatagrams
  BY UdpUringAssumption DEF Init, UdpUringAssumption
<1>7. TypeOK
  BY <1>1, <1>2, <1>3, <1>4, <1>5, <1>6 DEF Init, TypeOK
<1> QED
  BY <1>7 DEF Init, TypeInv, Delivered

\* The ring with one more or one less id in it.
LEMMA PositionSteps ==
  ASSUME NEW x \in Positions
  PROVE  (x + 1) % TailModulus \in Positions /\ mask(x) \in 0..ring_entries - 1
<1>1. x \in Int /\ x + 1 \in Int
  BY Sizes DEF Positions
<1> QED
  BY <1>1, Sizes, OneTurn DEF Positions, mask

LEMMA ReachableSocket ==
  /\ Reachable \subseteq Ips /\ Answerable \subseteq LocalResponse
  /\ \A ip \in Reachable : [to |-> ip, socket |-> send_socket(ip)] \in Response
  /\ \A f \in Families : \A ip \in Ips : (f = "v4" => ip \in V4Ips) => ip \in Reachable
<1>1. Families \subseteq {"v4", "v6"}
  BY UdpUringAssumption DEF UdpUringAssumption
<1>2. ASSUME NEW f \in Families, NEW ip \in Ips, f = "v4" => ip \in V4Ips PROVE ip \in Reachable
  BY <1>1, <1>2 DEF Reachable, send_socket
<1>3. Answerable \subseteq LocalResponse
  BY DEF Answerable, LocalResponse, Reachable
<1> QED
  BY <1>2, <1>3 DEF Reachable, Response

LEMMA PushType ==
  ASSUME TypeInv, PushResubmittable
  PROVE  TypeInv'
<1>1. sq' \in Seq(Sqe)
  <2>1. resubmittable_sqe_buf \in Seq(Resubmittable)
    BY DEF TypeInv, TypeOK
  <2>2. PICK n \in Nat : resubmittable_sqe_buf \in [1..n -> Resubmittable]
    BY <2>1, SeqDef
  <2>3. \A x \in Resubmittable : [user_data |-> x] \in Sqe
    BY DEF Sqe
  <2>4. sq' \in [1..n -> Sqe]
    BY <2>2, <2>3 DEF PushResubmittable
  <2> QED
    BY <2>4, SeqDef
<1>2. resubmittable_sqe_buf' \in Seq(Resubmittable) /\ num_send_added' \in Nat
  BY DEF PushResubmittable
<1>3. sq_space' \in Int
  <2>1. Len(resubmittable_sqe_buf) \in Nat /\ ring_entries \in Int
    BY Sizes DEF TypeInv, TypeOK
  <2> QED
    BY <2>1 DEF PushResubmittable
<1> QED
  BY <1>1, <1>2, <1>3 DEF PushResubmittable, TypeInv, TypeOK, Delivered

\* A turn of the loop uses a free buffer and takes the first response.
LEMMA TakeFacts ==
  ASSUME TypeInv, NEW i \in Indices, TakeResponse(i)
  PROVE  /\ buffers[i].free
         /\ Head(local_responses) \in Answerable
         /\ local_responses' \in Seq(Answerable) /\ local_responses' \in Seq(LocalResponse)
         /\ sq_space' \in Int
         /\ UNCHANGED <<pc, unseen, resubmittable_sqe_buf, buf_ring, local_tail, cq,
                        head, armed, sending, socket, arrived>>
<1>1. local_responses \in Seq(Answerable) /\ local_responses # << >>
  BY DEF TakeResponse, TypeInv
<1>2. Head(local_responses) \in Answerable /\ Tail(local_responses) \in Seq(Answerable)
  BY <1>1
<1>3. Seq(Answerable) \subseteq Seq(LocalResponse)
  BY ReachableSocket, SeqDef
<1>4. buffers[i].free
  BY DEF TakeResponse, next_free_index, FreeFrom
<1>5. sq_space' \in Int
  BY DEF TakeResponse, TypeInv, TypeOK
<1> QED
  BY <1>2, <1>3, <1>4, <1>5 DEF TakeResponse

LEMMA EnqueueFacts ==
  ASSUME TypeInv, EnqueueResponse
  PROVE  \E i \in Indices, r \in Response :
           /\ buffers[i].free
           /\ buffers' = [buffers EXCEPT ![i] = [free |-> FALSE, bytes |-> r]]
           /\ sq' = Append(sq, [user_data |-> "send", index |-> i, response |-> r])
           /\ likely_next_free_index' = i + 1
<1> DEFINE ip == Head(local_responses).to
           r == [to |-> ip, socket |-> send_socket(ip)]
<1>1. PICK i \in Indices :
         /\ TakeResponse(i) /\ prepare_entry(i, r)
         /\ sq' = Append(sq, [user_data |-> "send", index |-> i, response |-> r])
  BY DEF EnqueueResponse
<1>2. ip \in Reachable /\ buffers[i].free
  BY <1>1, TakeFacts DEF Answerable
<1>3. r \in Response
  BY <1>2, ReachableSocket
<1> QED
  BY <1>1, <1>2, <1>3 DEF prepare_entry

\* A response that cannot be serialized disturbs only a free buffer.
LEMMA FailedFacts ==
  ASSUME TypeInv, SerializationFailed
  PROVE  \E i \in Indices :
           /\ TakeResponse(i)
           /\ buffers[i].free
           /\ buffers' = [buffers EXCEPT ![i].bytes = NoResponse]
           /\ UNCHANGED <<likely_next_free_index, sq, num_send_added>>
BY TakeFacts DEF SerializationFailed

LEMMA FailedType ==
  ASSUME TypeInv, SerializationFailed
  PROVE  TypeInv'
<1>1. PICK i \in Indices :
         /\ TakeResponse(i)
         /\ buffers' = [buffers EXCEPT ![i].bytes = NoResponse]
         /\ UNCHANGED <<likely_next_free_index, sq, num_send_added>>
  BY FailedFacts
<1>2. /\ local_responses' \in Seq(Answerable) /\ local_responses' \in Seq(LocalResponse)
      /\ sq_space' \in Int
      /\ UNCHANGED <<pc, unseen, resubmittable_sqe_buf, buf_ring, local_tail, cq,
                     head, armed, sending, socket, arrived>>
  BY <1>1, TakeFacts
<1>3. buffers' \in [Indices -> [free: BOOLEAN, bytes: Response \cup {NoResponse}]]
  BY <1>1 DEF TypeInv, TypeOK
<1> QED
  BY <1>1, <1>2, <1>3 DEF TypeInv, TypeOK, Delivered

LEMMA EnqueueType ==
  ASSUME TypeInv, EnqueueResponse
  PROVE  TypeInv'
<1>1. PICK i \in Indices, r \in Response :
           /\ buffers' = [buffers EXCEPT ![i] = [free |-> FALSE, bytes |-> r]]
           /\ sq' = Append(sq, [user_data |-> "send", index |-> i, response |-> r])
           /\ likely_next_free_index' = i + 1
  BY EnqueueFacts
<1>2. sq' \in Seq(Sqe)
  <2>1. [user_data |-> "send", index |-> i, response |-> r] \in Sqe
    BY DEF Sqe
  <2> QED
    BY <1>1, <2>1, QueueAppend DEF TypeInv, TypeOK
<1>3. buffers' \in [Indices -> [free: BOOLEAN, bytes: Response \cup {NoResponse}]]
  BY <1>1 DEF TypeInv, TypeOK
<1>4. likely_next_free_index' \in 0..ring_entries
  BY <1>1, Sizes DEF Indices
<1>5. /\ local_responses' \in Seq(Answerable) /\ local_responses' \in Seq(LocalResponse)
      /\ sq_space' \in Int /\ pc = "fill"
      /\ UNCHANGED <<pc, unseen, resubmittable_sqe_buf, buf_ring, local_tail, cq,
                     head, armed, sending, socket, arrived>>
  <2>1. PICK j \in Indices : TakeResponse(j)
    BY DEF EnqueueResponse
  <2> QED
    BY <2>1, TakeFacts DEF TakeResponse
<1>6. num_send_added' \in Nat
  BY DEF EnqueueResponse, TypeInv, TypeOK
<1> QED
  BY <1>2, <1>3, <1>4, <1>5, <1>6 DEF TypeInv, TypeOK, Delivered

LEMMA SubmitType ==
  ASSUME TypeInv, Submit
  PROVE  TypeInv'
<1>1. \A i \in DOMAIN sq : sq[i] \in Sqe
  BY DEF TypeInv, TypeOK
<1>2. sending' \subseteq Sqe /\ \A e \in sending' : e.user_data = "send"
  BY <1>1 DEF Submit, TypeInv, TypeOK, Sends
<1>3. armed' \subseteq Resubmittable
  <2>1. \A e \in Sqe : e.user_data # "send" => e.user_data \in Resubmittable
    BY DEF Sqe
  <2> QED
    BY <1>1, <2>1 DEF Submit, TypeInv, TypeOK
<1>4. sq' \in Seq(Sqe) /\ sq' = << >>
  BY DEF Submit
<1> QED
  BY <1>2, <1>3, <1>4 DEF Submit, push_front, TypeInv, TypeOK, Delivered

LEMMA WakeType ==
  ASSUME TypeInv, Wake
  PROVE  TypeInv'
<1>1. Len(cq) \in Nat
  BY DEF TypeInv, TypeOK
<1> QED
  BY <1>1 DEF Wake, TypeInv, TypeOK, Delivered

LEMMA ReapDoneType ==
  ASSUME TypeInv, ReapDone
  PROVE  TypeInv'
<1>1. likely_next_free_index' \in 0..ring_entries
  BY Sizes DEF ReapDone
<1> QED
  BY <1>1 DEF ReapDone, TypeInv, TypeOK, Delivered

\* The completion that handle_cqe takes, and what it does for its kind.
LEMMA HandleCqeFacts ==
  ASSUME TypeInv, handle_cqe
  PROVE  /\ cq # << >> /\ cq \in Seq(Cqe) /\ cq' = Tail(cq)
         /\ \E e \in Cqe :
              /\ e = Head(cq)
              /\ \/ /\ e.user_data \in Families /\ e.ok
                    /\ dropping_bid(e.bid)
                    /\ local_responses' \in 
                          {local_responses} \cup {Append(local_responses, [to |-> e.from, fits |-> b]) :
                                                   b \in BOOLEAN}
                    /\ UNCHANGED buffers
                 \/ /\ e.user_data \in Families /\ ~e.ok
                    /\ UNCHANGED <<local_responses, buf_ring, local_tail, buffers>>
                 \/ /\ e.user_data = "pulse"
                    /\ UNCHANGED <<local_responses, buf_ring, local_tail, buffers>>
                 \/ /\ e.user_data = "send"
                    /\ buffers' = [buffers EXCEPT ![e.index].free = TRUE]
                    /\ UNCHANGED <<local_responses, buf_ring, local_tail>>
              /\ resubmittable_sqe_buf' \in {resubmittable_sqe_buf,
                        Append(resubmittable_sqe_buf, e.user_data)}
              /\ e.user_data = "send" => UNCHANGED resubmittable_sqe_buf
<1>1. cq # << >> /\ cq \in Seq(Cqe) /\ cq' = Tail(cq)
  <2>1. unseen \in Nat /\ unseen > 0 /\ unseen <= Len(cq)
    BY DEF handle_cqe, TypeInv, TypeOK
  <2>2. Len(<< >>) = 0
    OBVIOUS
  <2>3. cq # << >>
    BY <2>1, <2>2
  <2> QED
    BY <2>3 DEF handle_cqe, TypeInv, TypeOK
<1>2. PICK e \in Cqe : e = Head(cq)
  BY <1>1, QueueTail
<1>a. (CASE e.user_data \in Families -> HandleRecv(e)
         [] e.user_data = "pulse" -> HandlePulse
         [] OTHER -> HandleSent(e))
  BY <1>2 DEF handle_cqe
<1>3. e.user_data \in Families \cup {"pulse", "send"}
  BY CqeFields
<1>4. CASE e.user_data \in Families
  <2>2. e.user_data # "pulse" /\ e.user_data # "send"
    BY <1>4, Sizes
  <2>1. HandleRecv(e)
    BY <1>a, <1>4, <2>2
  <2>3. resubmittable_sqe_buf' \in {resubmittable_sqe_buf, Append(resubmittable_sqe_buf, e.user_data)}
    BY <2>1 DEF HandleRecv
  <2>4. CASE e.ok
    <3>1. PICK outcome \in ParseOutcomes : \E answered \in handle_request(outcome) :
               /\ \E fits \in BOOLEAN : local_responses' = IF answered
                     THEN Append(local_responses, [to |-> e.from, fits |-> fits])
                     ELSE local_responses
               /\ drop_buffer(e, answered)
      BY <2>1, <2>4 DEF HandleRecv
    <3>2. /\ local_responses' \in
                 {local_responses} \cup {Append(local_responses, [to |-> e.from, fits |-> b]) :
                                          b \in BOOLEAN}
          /\ dropping_bid(e.bid)
      BY <3>1 DEF drop_buffer
    <3> QED
      BY <1>1, <1>2, <1>4, <2>1, <2>2, <2>3, <2>4, <3>2 DEF HandleRecv
  <2>5. CASE ~e.ok
    BY <1>1, <1>2, <1>4, <2>1, <2>2, <2>3, <2>5 DEF HandleRecv
  <2> QED
    BY <2>4, <2>5
<1>5. CASE e.user_data = "pulse"
  <2>1. e.user_data \notin Families
    BY <1>5, Sizes
  <2>2. HandlePulse
    BY <1>a, <1>5, <2>1
  <2> QED
    BY <1>1, <1>2, <1>5, <2>2 DEF HandlePulse
<1>6. CASE e.user_data = "send"
  <2>1. e.user_data \notin Families /\ e.user_data # "pulse"
    BY <1>6, Sizes
  <2>2. HandleSent(e)
    BY <1>a, <2>1
  <2> QED
    BY <1>1, <1>2, <1>6, <2>2 DEF HandleSent
<1> QED
  BY <1>3, <1>4, <1>5, <1>6

LEMMA HandleCqeType ==
  ASSUME TypeInv, handle_cqe
  PROVE  TypeInv'
<1>1. /\ cq # << >> /\ cq \in Seq(Cqe) /\ cq' = Tail(cq) /\ unseen > 0 /\ unseen' = unseen - 1
      /\ UNCHANGED <<pc, num_send_added, sq_space, likely_next_free_index, sq, head, armed,
                     sending, socket, arrived>>
  BY HandleCqeFacts DEF handle_cqe
<1>2. PICK e \in Cqe :
              /\ e = Head(cq)
              /\ \/ /\ e.user_data \in Families /\ e.ok
                    /\ dropping_bid(e.bid)
                    /\ local_responses' \in 
                          {local_responses} \cup {Append(local_responses, [to |-> e.from, fits |-> b]) :
                                                   b \in BOOLEAN}
                    /\ UNCHANGED buffers
                 \/ /\ e.user_data \in Families /\ ~e.ok
                    /\ UNCHANGED <<local_responses, buf_ring, local_tail, buffers>>
                 \/ /\ e.user_data = "pulse"
                    /\ UNCHANGED <<local_responses, buf_ring, local_tail, buffers>>
                 \/ /\ e.user_data = "send"
                    /\ buffers' = [buffers EXCEPT ![e.index].free = TRUE]
                    /\ UNCHANGED <<local_responses, buf_ring, local_tail>>
              /\ resubmittable_sqe_buf' \in {resubmittable_sqe_buf,
                        Append(resubmittable_sqe_buf, e.user_data)}
              /\ e.user_data = "send" => UNCHANGED resubmittable_sqe_buf
  BY HandleCqeFacts, Zenon
<1>3. cq' \in Seq(Cqe) /\ Len(cq') = Len(cq) - 1
  BY <1>1
<1>4. unseen' \in Nat /\ (pc' = "reap" => unseen' <= Len(cq'))
  <2>1. unseen \in Nat /\ Len(cq) \in Nat /\ (pc = "reap" => unseen <= Len(cq))
    BY <1>1 DEF TypeInv, TypeOK
  <2> QED
    BY <1>1, <1>3, <2>1
<1>5. resubmittable_sqe_buf' \in Seq(Resubmittable)
  <2>1. resubmittable_sqe_buf \in Seq(Resubmittable)
    BY DEF TypeInv, TypeOK
  <2>2. e.user_data # "send" => e.user_data \in Resubmittable
    BY CqeFields DEF Resubmittable
  <2> QED
    BY <1>2, <2>1, <2>2, QueueAppend
<1>6. buffers' \in [Indices -> [free: BOOLEAN, bytes: Response \cup {NoResponse}]]
  <2>1. buffers \in [Indices -> [free: BOOLEAN, bytes: Response \cup {NoResponse}]]
    BY DEF TypeInv, TypeOK
  <2>2. CASE e.user_data = "send"
    <3>1. e.index \in Indices
      BY <2>2, CqeFields
    <3>2. buffers' = [buffers EXCEPT ![e.index].free = TRUE]
      BY <1>2, <2>2, Sizes
    <3> QED
      BY <2>1, <3>1, <3>2
  <2>3. CASE e.user_data # "send"
    BY <1>2, <2>1, <2>3
  <2> QED
    BY <2>2, <2>3
<1>7. local_responses' \in Seq(Answerable) /\ local_responses' \in Seq(LocalResponse)
  <2>1. local_responses \in Seq(Answerable) /\ Answerable \subseteq LocalResponse
    BY ReachableSocket DEF TypeInv
  <2>2. e.user_data \in Families /\ e.ok =>
           \A b \in BOOLEAN : [to |-> e.from, fits |-> b] \in Answerable
    <3>1. 1 \in DOMAIN cq /\ e = cq[1]
      BY <1>1, <1>2, QueueTail
    <3>2. e.user_data \in Families /\ e.ok => e.from \in Reachable
      BY <3>1 DEF TypeInv, Delivered
    <3> QED
      BY <3>2 DEF Answerable
  <2>3. local_responses' \in Seq(Answerable)
    <3>1. CASE local_responses' = local_responses
      BY <2>1, <3>1
    <3>2. CASE local_responses' # local_responses
      <4>1. PICK b \in BOOLEAN : local_responses' = Append(local_responses, [to |-> e.from, fits |-> b])
        BY <1>2, <3>2
      <4>2. e.user_data \in Families /\ e.ok
        BY <1>2, <3>2
      <4> QED
        BY <2>1, <2>2, <4>1, <4>2, QueueAppend
    <3> QED
      BY <3>1, <3>2
  <2>4. Seq(Answerable) \subseteq Seq(LocalResponse)
    BY <2>1, SeqDef
  <2> QED
    BY <2>3, <2>4
<1>8. buf_ring' \in [0..ring_entries - 1 -> Bids] /\ local_tail' \in 0..TailModulus - 1
  <2>1. buf_ring \in [0..ring_entries - 1 -> Bids] /\ local_tail \in Positions
    BY DEF TypeInv, TypeOK, Positions
  <2>2. CASE e.user_data \in Families /\ e.ok
    <3>1. dropping_bid(e.bid) /\ e.bid \in Bids
      BY <1>2, <2>2, CqeFields, Sizes
    <3>2. mask(local_tail) \in 0..ring_entries - 1 /\ (local_tail + 1) % TailModulus \in Positions
      BY <2>1, PositionSteps
    <3> QED
      BY <2>1, <3>1, <3>2 DEF dropping_bid, Positions
  <2>3. CASE ~(e.user_data \in Families /\ e.ok)
    BY <1>2, <2>1, <2>3 DEF Positions
  <2> QED
    BY <2>2, <2>3
<1>9. \A i \in Delivered' : cq'[i].from \in Reachable
  <2>1. \A i \in DOMAIN Tail(cq) : i + 1 \in DOMAIN cq /\ Tail(cq)[i] = cq[i + 1]
    BY <1>1, QueueTail
  <2> QED
    BY <1>1, <2>1 DEF TypeInv, Delivered
<1>10. pc # "fill" => sq = << >>
  BY DEF TypeInv
<1> QED
  BY <1>1, <1>3, <1>4, <1>5, <1>6, <1>7, <1>8, <1>9, <1>10 DEF TypeInv, TypeOK

\* A completion that the kernel adds.
LEMMA CompletionType ==
  ASSUME TypeInv, NEW e \in Cqe, cq' = Append(cq, e), UNCHANGED worker,
         e.user_data \in Families /\ e.ok => e.from \in Reachable,
         head' \in 0..TailModulus - 1, armed' \subseteq Resubmittable,
         sending' \subseteq sending, socket' \in [Families -> Seq(Reachable)],
         arrived' \in 0..MaxDatagrams
  PROVE  TypeInv'
<1>1. cq \in Seq(Cqe)
  BY DEF TypeInv, TypeOK
<1>2. /\ cq' \in Seq(Cqe) /\ Len(cq') = Len(cq) + 1 /\ Len(cq) \in Nat
      /\ DOMAIN cq' = DOMAIN cq \cup {Len(cq) + 1}
      /\ \A i \in DOMAIN cq : cq'[i] = cq[i]
      /\ cq'[Len(cq) + 1] = e
  BY <1>1, QueueAppend
<1>3. \A i \in Delivered' : cq'[i].from \in Reachable
  BY <1>2 DEF TypeInv, Delivered
<1>4. pc' = "reap" => unseen' <= Len(cq')
  BY <1>2 DEF TypeInv, TypeOK, worker
<1>5. socket' \in [Families -> Seq(Ips)]
  <2>1. Seq(Reachable) \subseteq Seq(Ips)
    BY ReachableSocket, SeqDef
  <2> QED
    BY <2>1
<1> QED
  BY <1>2, <1>3, <1>4, <1>5 DEF TypeInv, TypeOK, worker

LEMMA KernelReceiveFacts ==
  ASSUME TypeInv, NEW f \in Families, KernelReceive(f)
  PROVE  \E e \in Cqe :
           /\ e.user_data = f /\ e.ok /\ e.bid = RingBid(0) /\ e.from \in Reachable
           /\ cq' = Append(cq, e)
           /\ armed' \subseteq armed
<1>1. PICK more \in BOOLEAN :
          /\ cq' = Append(cq, [user_data |-> f, ok |-> TRUE, bid |-> RingBid(0),
                               from |-> Head(socket[f]), more |-> more])
          /\ armed' = IF more THEN armed ELSE armed \ {f}
  BY DEF KernelReceive
<1>2. Head(socket[f]) \in Reachable /\ Head(socket[f]) \in Ips
  BY ReachableSocket DEF KernelReceive, TypeInv
<1>3. RingBid(0) \in Bids
  <2>1. buf_ring \in [0..ring_entries - 1 -> Bids] /\ head \in Positions
    BY DEF TypeInv, TypeOK, Positions
  <2>2. (head + 0) % TailModulus \in Positions
    BY <2>1, Sizes, OneTurn DEF Positions
  <2>3. mask((head + 0) % TailModulus) \in 0..ring_entries - 1
    BY <2>2, PositionSteps
  <2> QED
    BY <2>1, <2>3 DEF RingBid
<1> DEFINE e == [user_data |-> f, ok |-> TRUE, bid |-> RingBid(0),
                 from |-> Head(socket[f]), more |-> more]
<1>4. e \in Cqe
  BY <1>2, <1>3 DEF Cqe
<1> QED
  BY <1>1, <1>2, <1>4

LEMMA KernelType ==
  ASSUME TypeInv,
         \/ \E f \in Families : KernelRecv(f)
         \/ \E e \in sending : KernelSent(e)
         \/ KernelPulse
  PROVE  TypeInv'
<1> USE DEF TypeInv, TypeOK
<1>1. CASE \E f \in Families : KernelReceive(f)
  <2>1. PICK f \in Families : KernelReceive(f)
    BY <1>1
  <2>2. PICK e \in Cqe :
           /\ e.user_data = f /\ e.ok /\ e.from \in Reachable
           /\ cq' = Append(cq, e)
           /\ armed' \subseteq armed
    BY <2>1, KernelReceiveFacts
  <2>3. head' \in 0..TailModulus - 1
    BY <2>1, PositionSteps DEF KernelReceive, Positions
  <2>4. socket' \in [Families -> Seq(Reachable)]
    BY <2>1 DEF KernelReceive
  <2> QED
    BY <2>1, <2>2, <2>3, <2>4, CompletionType DEF KernelReceive
<1>2. CASE \E f \in Families : KernelNoBuffers(f)
  <2>1. PICK f \in Families : KernelNoBuffers(f)
    BY <1>2
  <2> DEFINE e == [user_data |-> f, ok |-> FALSE, more |-> FALSE]
  <2>2. e \in Cqe /\ ~e.ok
    BY DEF Cqe
  <2> QED
    BY <2>1, <2>2, CompletionType DEF KernelNoBuffers
<1>3. CASE \E e \in sending : KernelSent(e)
  <2>1. PICK s \in sending : KernelSent(s)
    BY <1>3
  <2> DEFINE e == [user_data |-> "send", index |-> s.index]
  <2>2. s.user_data = "send"
    BY DEF TypeInv
  <2>3. e \in Cqe /\ e.user_data \notin Families
    BY <2>2, SqeFields, Sizes DEF Cqe
  <2> QED
    BY <2>1, <2>3, CompletionType DEF KernelSent
<1>4. CASE KernelPulse
  <2> DEFINE e == [user_data |-> "pulse"]
  <2>1. e \in Cqe /\ e.user_data \notin Families
    BY Sizes DEF Cqe
  <2> QED
    BY <1>4, <2>1, CompletionType DEF KernelPulse
<1> QED
  BY <1>1, <1>2, <1>3, <1>4 DEF KernelRecv

LEMMA ArriveType ==
  ASSUME TypeInv, NEW f \in Families, NEW ip \in Ips, Arrive(f, ip)
  PROVE  TypeInv'
<1>1. ip \in Reachable
  BY ReachableSocket DEF Arrive
<1>2. socket' \in [Families -> Seq(Reachable)]
  BY <1>1 DEF Arrive, TypeInv
<1>3. socket' \in [Families -> Seq(Ips)]
  <2>1. Seq(Reachable) \subseteq Seq(Ips)
    BY ReachableSocket, SeqDef
  <2> QED
    BY <1>2, <2>1
<1>4. arrived' \in 0..MaxDatagrams
  BY UdpUringAssumption DEF Arrive, TypeInv, TypeOK, UdpUringAssumption
<1> QED
  BY <1>2, <1>3, <1>4 DEF Arrive, TypeInv, TypeOK, worker, Delivered

LEMMA TypeStep == TypeInv /\ [Next]_vars => TypeInv'
<1> SUFFICES ASSUME TypeInv, [Next]_vars PROVE TypeInv'
  OBVIOUS
<1>1. CASE UNCHANGED vars
  BY <1>1 DEF vars, worker, TypeInv, TypeOK, Delivered
<1>2. CASE run_inner
  BY <1>2, PushType, EnqueueType, FailedType, SubmitType, WakeType, HandleCqeType, ReapDoneType DEF run_inner
<1>3. CASE \/ \E f \in Families : KernelRecv(f)
           \/ \E e \in sending : KernelSent(e)
           \/ KernelPulse
  BY <1>3, KernelType
<1>4. CASE \E f \in Families, ip \in Ips : Arrive(f, ip)
  BY <1>4, ArriveType
<1> QED
  BY <1>1, <1>2, <1>3, <1>4 DEF Next

\* The worker and the kernel keep every variable in its type; every address
\* that is to be answered came in through a socket that is open, so that
\* send_socket names one; entries wait in the submission queue only while the
\* worker fills it; and the completions that it counted are there when
\* handle_cqe takes them.
THEOREM UringTypeCorrect == Spec => []TypeInv
<1>1. TypeInv /\ [Next]_vars => TypeInv'
  BY TypeStep
<1> QED
  BY <1>1, TypeInit, PTL DEF Spec

----------------------------------------------------------------------------
(***************************************************************************)
(* Send buffers                                                            *)
(***************************************************************************)
\* Buffers named by the send entries of a queue; no buffer is named twice.
SendIndices(queue) == {queue[i].index : i \in Sends(queue)}
NamesEachOnce(queue) ==
    \A i, j \in Sends(queue) : queue[i].index = queue[j].index => i = j

LEMMA SendsAppend ==
  ASSUME NEW X, NEW q \in Seq(X), NEW e \in X
  PROVE  /\ e.user_data = "send" =>
               /\ SendIndices(Append(q, e)) = SendIndices(q) \cup {e.index}
               /\ NamesEachOnce(q) /\ e.index \notin SendIndices(q)
                     => NamesEachOnce(Append(q, e))
         /\ e.user_data # "send" =>
               /\ SendIndices(Append(q, e)) = SendIndices(q)
               /\ NamesEachOnce(q) => NamesEachOnce(Append(q, e))
<1> DEFINE a == Append(q, e)
           n == Len(q) + 1
<1>1. /\ DOMAIN a = DOMAIN q \cup {n}
      /\ n \notin DOMAIN q
      /\ \A i \in DOMAIN q : a[i] = q[i]
      /\ a[n] = e
  BY QueueAppend
<1> HIDE DEF a, n
<1>2. CASE e.user_data = "send"
  <2>1. Sends(a) = Sends(q) \cup {n}
    BY <1>1, <1>2 DEF Sends
  <2>2. SendIndices(a) = SendIndices(q) \cup {e.index}
    BY <1>1, <2>1 DEF SendIndices, Sends
  <2>3. NamesEachOnce(q) /\ e.index \notin SendIndices(q) => NamesEachOnce(a)
    BY <1>1, <2>1 DEF SendIndices, NamesEachOnce, Sends
  <2> QED
    BY <1>2, <2>2, <2>3 DEF a
<1>3. CASE e.user_data # "send"
  <2>1. Sends(a) = Sends(q)
    BY <1>1, <1>3 DEF Sends
  <2>2. \A i \in Sends(q) : a[i] = q[i]
    BY <1>1 DEF Sends
  <2> QED
    BY <1>3, <2>1, <2>2 DEF SendIndices, NamesEachOnce, a
<1> QED
  BY <1>2, <1>3

LEMMA SendsTail ==
  ASSUME NEW X, NEW q \in Seq(X), q # << >>, NamesEachOnce(q)
  PROVE  /\ NamesEachOnce(Tail(q))
         /\ Head(q).user_data = "send" =>
               /\ SendIndices(Tail(q)) = SendIndices(q) \ {Head(q).index}
               /\ Head(q).index \in SendIndices(q)
         /\ Head(q).user_data # "send" => SendIndices(Tail(q)) = SendIndices(q)
<1> DEFINE t == Tail(q)
           e == Head(q)
<1>1. /\ e = q[1] /\ 1 \in DOMAIN q
      /\ \A i \in DOMAIN t : i + 1 \in DOMAIN q /\ i + 1 # 1 /\ t[i] = q[i + 1]
      /\ \A i \in DOMAIN q : i # 1 => i - 1 \in DOMAIN t /\ t[i - 1] = q[i]
      /\ DOMAIN t \subseteq Nat
  BY QueueTail
<1> HIDE DEF t, e
<1>2. \A i \in Sends(t) : i + 1 \in Sends(q) /\ i + 1 # 1 /\ t[i] = q[i + 1] /\ i \in Nat
  BY <1>1 DEF Sends
<1>3. \A i \in Sends(q) : i # 1 => i - 1 \in Sends(t) /\ t[i - 1] = q[i]
  BY <1>1 DEF Sends
<1>4. NamesEachOnce(t)
  <2> SUFFICES ASSUME NEW i \in Sends(t), NEW j \in Sends(t), t[i].index = t[j].index
               PROVE i = j
    BY DEF NamesEachOnce
  <2>1. i + 1 = j + 1
    BY <1>2 DEF NamesEachOnce
  <2> QED
    BY <1>2, <2>1
<1>5. CASE e.user_data = "send"
  <2>1. 1 \in Sends(q) /\ q[1] = e
    BY <1>1, <1>5 DEF Sends
  <2>2. SendIndices(t) \subseteq SendIndices(q) \ {e.index}
    BY <1>2, <2>1 DEF SendIndices, NamesEachOnce
  <2>3. SendIndices(q) \ {e.index} \subseteq SendIndices(t)
    BY <1>3, <2>1 DEF SendIndices
  <2> QED
    BY <1>4, <1>5, <2>1, <2>2, <2>3 DEF SendIndices, t, e
<1>6. CASE e.user_data # "send"
  <2>1. \A i \in Sends(q) : i # 1
    BY <1>1, <1>6 DEF Sends
  <2>2. SendIndices(t) = SendIndices(q)
    <3>1. SendIndices(t) \subseteq SendIndices(q)
      BY <1>2 DEF SendIndices
    <3>2. SendIndices(q) \subseteq SendIndices(t)
      BY <1>3, <2>1 DEF SendIndices
    <3> QED
      BY <3>1, <3>2
  <2> QED
    BY <1>4, <1>6, <2>2 DEF t, e
<1> QED
  BY <1>5, <1>6

SendingIndices == {e.index : e \in sending}
Busy == {i \in Indices : ~buffers[i].free}

\* Every buffer in use is named by exactly one entry, which waits in the
\* submission queue, is with the kernel, or has its completion in the queue;
\* in the first two cases the buffer holds what the entry is to send.
SendInv ==
    /\ \A i \in Sends(sq) : buffers[sq[i].index].bytes = sq[i].response
    /\ \A e \in sending : buffers[e.index].bytes = e.response
    /\ NamesEachOnce(sq) /\ NamesEachOnce(cq)
    /\ \A e, f \in sending : e.index = f.index => e = f
    /\ SendIndices(sq) \cap SendingIndices = {}
    /\ SendIndices(sq) \cap SendIndices(cq) = {}
    /\ SendingIndices \cap SendIndices(cq) = {}
    /\ SendIndices(sq) \cup SendingIndices \cup SendIndices(cq) = Busy

LEMMA SendEmpty == SendIndices(<< >>) = {} /\ NamesEachOnce(<< >>) /\ Sends(<< >>) = {}
BY DEF SendIndices, NamesEachOnce, Sends

LEMMA SendInit == Init => SendInv
<1> SUFFICES ASSUME Init PROVE SendInv
  OBVIOUS
<1>1. Busy = {} /\ SendingIndices = {}
  BY DEF Init, Busy, SendingIndices
<1> QED
  BY <1>1, SendEmpty DEF Init, SendInv

\* A queue of receives and timeouts names no buffer.
LEMMA PushSends ==
  ASSUME TypeInv, SendInv, PushResubmittable
  PROVE  SendInv'
<1>1. \A i \in DOMAIN resubmittable_sqe_buf : resubmittable_sqe_buf[i] \in Resubmittable
  BY DEF TypeInv, TypeOK
<1>2. Sends(sq') = {}
  BY <1>1, Sizes DEF PushResubmittable, Sends, Resubmittable
<1>3. SendIndices(sq') = {} /\ NamesEachOnce(sq')
  BY <1>2 DEF SendIndices, NamesEachOnce
<1>4. sq = << >> /\ SendIndices(sq) = {}
  BY SendEmpty DEF PushResubmittable, TypeInv
<1>5. UNCHANGED <<sending, cq, buffers>> /\ SendingIndices' = SendingIndices /\ Busy' = Busy
  BY DEF PushResubmittable, SendingIndices, Busy
<1> QED
  BY <1>2, <1>3, <1>4, <1>5 DEF SendInv

LEMMA EnqueueSends ==
  ASSUME TypeInv, SendInv, EnqueueResponse
  PROVE  SendInv'
<1>1. PICK n \in Indices, r \in Response :
           /\ buffers[n].free
           /\ buffers' = [buffers EXCEPT ![n] = [free |-> FALSE, bytes |-> r]]
           /\ sq' = Append(sq, [user_data |-> "send", index |-> n, response |-> r])
  BY EnqueueFacts
<1>2. UNCHANGED <<sending, cq>> /\ SendingIndices' = SendingIndices
  BY DEF EnqueueResponse, TakeResponse, SendingIndices
<1>3. buffers \in [Indices -> [free: BOOLEAN, bytes: Response \cup {NoResponse}]] /\ sq \in Seq(Sqe)
  BY DEF TypeInv, TypeOK
<1>4. n \notin Busy /\ Busy' = Busy \cup {n}
  BY <1>1, <1>3 DEF Busy
<1> DEFINE e == [user_data |-> "send", index |-> n, response |-> r]
<1>5. e \in Sqe /\ e.user_data = "send" /\ e.index = n /\ e.response = r
  BY DEF Sqe
<1> HIDE DEF e
<1>6. n \notin SendIndices(sq) /\ n \notin SendingIndices /\ n \notin SendIndices(cq)
  BY <1>4 DEF SendInv
<1>7. /\ SendIndices(sq') = SendIndices(sq) \cup {n}
      /\ NamesEachOnce(sq')
      /\ \A i \in Sends(sq') : (i \in Sends(sq) /\ sq'[i] = sq[i]) \/ sq'[i] = e
  <2>1. sq' = Append(sq, e) /\ NamesEachOnce(sq)
    BY <1>1 DEF SendInv, e
  <2>2. SendIndices(sq') = SendIndices(sq) \cup {n} /\ NamesEachOnce(sq')
    BY <1>3, <1>5, <1>6, <2>1, SendsAppend
  <2>3. \A i \in DOMAIN sq' : (i \in DOMAIN sq /\ sq'[i] = sq[i]) \/ sq'[i] = e
    BY <1>3, <1>5, <2>1, QueueAppend
  <2>4. \A i \in Sends(sq') : (i \in Sends(sq) /\ sq'[i] = sq[i]) \/ sq'[i] = e
    BY <2>3 DEF Sends
  <2> QED
    BY <2>2, <2>4
<1>8. \A i \in Sends(sq') : buffers'[sq'[i].index].bytes = sq'[i].response
  <2> SUFFICES ASSUME NEW i \in Sends(sq') PROVE buffers'[sq'[i].index].bytes = sq'[i].response
    OBVIOUS
  <2>1. CASE sq'[i] = e
    BY <1>1, <1>3, <1>5, <2>1
  <2>2. CASE i \in Sends(sq) /\ sq'[i] = sq[i]
    <3>1. sq[i].index \in Indices /\ sq[i].index # n
      <4>1. sq[i].index \in SendIndices(sq)
        BY <2>2 DEF SendIndices
      <4> QED
        BY <1>6, <4>1 DEF SendInv, Busy
    <3> QED
      BY <1>1, <1>3, <2>2, <3>1 DEF SendInv
  <2> QED
    BY <1>7, <2>1, <2>2
<1>9. \A s \in sending' : buffers'[s.index].bytes = s.response
  <2> SUFFICES ASSUME NEW s \in sending PROVE buffers'[s.index].bytes = s.response
    BY <1>2
  <2>1. s.index \in SendingIndices
    BY DEF SendingIndices
  <2>2. s.index \in Indices /\ s.index # n
    BY <1>6, <2>1 DEF SendInv, Busy
  <2> QED
    BY <1>1, <1>3, <2>2 DEF SendInv
<1> QED
  BY <1>2, <1>4, <1>6, <1>7, <1>8, <1>9 DEF SendInv

\* No entry names the buffer that a failed serialization leaves free.
LEMMA FailedSends ==
  ASSUME TypeInv, SendInv, SerializationFailed
  PROVE  SendInv'
<1>1. PICK n \in Indices :
         /\ TakeResponse(n)
         /\ buffers[n].free
         /\ buffers' = [buffers EXCEPT ![n].bytes = NoResponse]
         /\ UNCHANGED <<likely_next_free_index, sq, num_send_added>>
  BY FailedFacts
<1>2. UNCHANGED <<sending, cq, sq>> /\ SendingIndices' = SendingIndices
  BY <1>1 DEF TakeResponse, SendingIndices
<1>3. buffers \in [Indices -> [free: BOOLEAN, bytes: Response \cup {NoResponse}]]
  BY DEF TypeInv, TypeOK
<1>4. n \notin Busy /\ Busy' = Busy
  BY <1>1, <1>3 DEF Busy
<1>5. \A j \in Busy : buffers'[j].bytes = buffers[j].bytes
  BY <1>1, <1>3, <1>4 DEF Busy
<1>6. \A i \in Sends(sq) : sq[i].index \in Busy
  BY DEF SendInv, SendIndices
<1>7. \A e \in sending : e.index \in Busy
  BY DEF SendInv, SendingIndices
<1> QED
  BY <1>2, <1>4, <1>5, <1>6, <1>7 DEF SendInv

LEMMA SubmitSends ==
  ASSUME TypeInv, SendInv, Submit
  PROVE  SendInv'
<1>1. sending' = sending \cup {sq[i] : i \in Sends(sq)} /\ sq' = << >>
      /\ UNCHANGED <<cq, buffers>> /\ Busy' = Busy
  BY DEF Submit, Busy
<1>2. SendIndices(sq') = {} /\ NamesEachOnce(sq') /\ Sends(sq') = {}
  BY <1>1, SendEmpty
<1>3. SendingIndices' = SendingIndices \cup SendIndices(sq)
  BY <1>1 DEF SendingIndices, SendIndices
<1>4. \A e \in sending' : buffers'[e.index].bytes = e.response
  BY <1>1 DEF SendInv
<1>5. \A e, f \in sending' : e.index = f.index => e = f
  <2> SUFFICES ASSUME NEW e \in sending', NEW f \in sending', e.index = f.index PROVE e = f
    OBVIOUS
  <2>1. \A x \in {sq[i] : i \in Sends(sq)} : x.index \in SendIndices(sq)
    BY DEF SendIndices
  <2>2. \A x \in sending : x.index \in SendingIndices
    BY DEF SendingIndices
  <2>3. CASE e \in sending /\ f \in sending
    BY <2>3 DEF SendInv
  <2>4. CASE e \in {sq[i] : i \in Sends(sq)} /\ f \in {sq[i] : i \in Sends(sq)}
    BY <2>4 DEF SendInv, NamesEachOnce
  <2>5. CASE e \in sending /\ f \in {sq[i] : i \in Sends(sq)}
    BY <2>1, <2>2, <2>5 DEF SendInv
  <2>6. CASE f \in sending /\ e \in {sq[i] : i \in Sends(sq)}
    BY <2>1, <2>2, <2>6 DEF SendInv
  <2> QED
    BY <1>1, <2>3, <2>4, <2>5, <2>6
<1> QED
  BY <1>1, <1>2, <1>3, <1>4, <1>5 DEF SendInv

LEMMA HandleCqeSends ==
  ASSUME TypeInv, SendInv, handle_cqe
  PROVE  SendInv'
<1>1. cq # << >> /\ cq \in Seq(Cqe) /\ cq' = Tail(cq)
      /\ UNCHANGED <<sq, sending>> /\ SendingIndices' = SendingIndices
  BY HandleCqeFacts DEF handle_cqe, SendingIndices
<1>2. PICK e \in Cqe :
              /\ e = Head(cq)
              /\ \/ e.user_data \in Families \cup {"pulse"} /\ UNCHANGED buffers
                 \/ /\ e.user_data = "send"
                    /\ buffers' = [buffers EXCEPT ![e.index].free = TRUE]
  BY HandleCqeFacts
<1>3. buffers \in [Indices -> [free: BOOLEAN, bytes: Response \cup {NoResponse}]]
  BY DEF TypeInv, TypeOK
<1>4. NamesEachOnce(cq') /\ NamesEachOnce(cq)
  BY <1>1, SendsTail DEF SendInv
<1>5. CASE e.user_data = "send"
  <2>1. e.index \in Indices /\ buffers' = [buffers EXCEPT ![e.index].free = TRUE]
    BY <1>2, <1>5, CqeFields, Sizes
  <2>2. SendIndices(cq') = SendIndices(cq) \ {e.index} /\ e.index \in SendIndices(cq)
    BY <1>1, <1>2, <1>4, <1>5, SendsTail
  <2>3. Busy' = Busy \ {e.index}
    BY <1>3, <2>1 DEF Busy
  <2>4. \A i \in Indices : buffers'[i].bytes = buffers[i].bytes
    BY <1>3, <2>1
  <2>5. \A i \in Sends(sq) : sq[i].index \in Indices
    BY SqeFields DEF TypeInv, TypeOK, Sends
  <2>6. \A s \in sending : s.index \in Indices
    BY SqeFields DEF TypeInv, TypeOK
  <2>7. /\ \A i \in Sends(sq') : buffers'[sq'[i].index].bytes = sq'[i].response
        /\ \A s \in sending' : buffers'[s.index].bytes = s.response
    BY <1>1, <2>4, <2>5, <2>6 DEF SendInv
  <2> QED
    BY <1>1, <1>4, <2>2, <2>3, <2>7 DEF SendInv
<1>6. CASE e.user_data # "send"
  <2>1. SendIndices(cq') = SendIndices(cq)
    BY <1>1, <1>2, <1>4, <1>6, SendsTail
  <2>2. UNCHANGED buffers /\ Busy' = Busy
    BY <1>2, <1>6 DEF Busy
  <2> QED
    BY <1>1, <1>4, <2>1, <2>2 DEF SendInv
<1> QED
  BY <1>5, <1>6

LEMMA KernelSends ==
  ASSUME TypeInv, SendInv,
         \/ \E f \in Families : KernelRecv(f)
         \/ \E e \in sending : KernelSent(e)
         \/ KernelPulse
  PROVE  SendInv'
<1>1. UNCHANGED <<sq, buffers>> /\ Busy' = Busy /\ cq \in Seq(Cqe)
  BY DEF TypeInv, TypeOK, KernelRecv, KernelReceive, KernelNoBuffers, KernelSent, KernelPulse,
         worker, Busy
<1>2. CASE ~\E e \in sending : KernelSent(e)
  <2>1. UNCHANGED sending /\ SendingIndices' = SendingIndices
    BY <1>2 DEF KernelRecv, KernelReceive, KernelNoBuffers, KernelPulse, SendingIndices
  <2>2. PICK e \in Cqe : e.user_data # "send" /\ cq' = Append(cq, e)
    <3>1. CASE \E f \in Families : KernelReceive(f)
      BY <3>1, KernelReceiveFacts, Sizes
    <3>2. CASE \E f \in Families : KernelNoBuffers(f)
      <4>1. PICK f \in Families : KernelNoBuffers(f)
        BY <3>2
      <4>2. [user_data |-> f, ok |-> FALSE, more |-> FALSE] \in Cqe
        BY DEF Cqe
      <4> QED
        BY <4>1, <4>2, Sizes DEF KernelNoBuffers
    <3>3. CASE KernelPulse
      <4>1. [user_data |-> "pulse"] \in Cqe
        BY DEF Cqe
      <4> QED
        BY <3>3, <4>1 DEF KernelPulse
    <3> QED
      BY <1>2, <3>1, <3>2, <3>3 DEF KernelRecv
  <2>3. SendIndices(cq') = SendIndices(cq) /\ NamesEachOnce(cq')
    BY <1>1, <2>2, SendsAppend DEF SendInv
  <2> QED
    BY <1>1, <2>1, <2>3 DEF SendInv
<1>3. CASE \E e \in sending : KernelSent(e)
  <2>1. PICK s \in sending : KernelSent(s)
    BY <1>3
  <2>2. sending' = sending \ {s} /\ s.index \in SendingIndices
    BY <2>1 DEF KernelSent, SendingIndices
  <2>3. SendingIndices' = SendingIndices \ {s.index}
    BY <2>2 DEF SendingIndices, SendInv
  <2> DEFINE e == [user_data |-> "send", index |-> s.index]
  <2>4. e \in Cqe /\ e.user_data = "send" /\ e.index = s.index
    BY SqeFields DEF Cqe, TypeInv, TypeOK
  <2>5. cq' = Append(cq, e)
    BY <2>1 DEF KernelSent
  <2> HIDE DEF e
  <2>6. s.index \notin SendIndices(cq) /\ s.index \notin SendIndices(sq)
    BY <2>2 DEF SendInv
  <2>7. SendIndices(cq') = SendIndices(cq) \cup {s.index} /\ NamesEachOnce(cq')
    BY <1>1, <2>4, <2>5, <2>6, SendsAppend DEF SendInv
  <2> QED
    BY <1>1, <2>2, <2>3, <2>6, <2>7 DEF SendInv
<1> QED
  BY <1>2, <1>3

LEMMA SendStep == TypeInv /\ SendInv /\ [Next]_vars => SendInv'
<1> SUFFICES ASSUME TypeInv, SendInv, [Next]_vars PROVE SendInv'
  OBVIOUS
<1>1. CASE UNCHANGED <<sq, cq, sending, buffers>>
  BY <1>1 DEF SendInv, SendingIndices, Busy
<1>2. CASE run_inner
  <2>1. Wake \/ ReapDone => UNCHANGED <<sq, cq, sending, buffers>>
    BY DEF Wake, ReapDone
  <2> QED
    BY <1>1, <1>2, <2>1, PushSends, EnqueueSends, FailedSends, SubmitSends, HandleCqeSends DEF run_inner
<1>3. CASE \/ \E f \in Families : KernelRecv(f)
           \/ \E e \in sending : KernelSent(e)
           \/ KernelPulse
  BY <1>3, KernelSends
<1>4. (\E f \in Families, ip \in Ips : Arrive(f, ip)) \/ UNCHANGED vars
          => UNCHANGED <<sq, cq, sending, buffers>>
  BY DEF Arrive, worker, vars
<1> QED
  BY <1>1, <1>2, <1>3, <1>4 DEF Next

\* A function that takes no value twice has as many values as arguments.
LEMMA ImageSize ==
  ASSUME NEW S, IsFiniteSet(S), NEW I, NEW f \in [S -> I], I = {f[x] : x \in S},
         \A x, y \in S : f[x] = f[y] => x = y
  PROVE  IsFiniteSet(I) /\ Cardinality(I) = Cardinality(S) /\ Cardinality(S) \in Nat
<1>1. f \in Surjection(S, I) /\ f \in Injection(S, I)
  BY DEF Surjection, Injection, IsInjective
<1> QED
  BY <1>1, FS_Surjection, FS_CardinalityType

LEMMA SendsCounted ==
  ASSUME NEW q, NEW n \in Nat, DOMAIN q = 1..n, NamesEachOnce(q)
  PROVE  /\ IsFiniteSet(SendIndices(q)) /\ Cardinality(Sends(q)) \in Nat
         /\ Cardinality(SendIndices(q)) = Cardinality(Sends(q))
<1> DEFINE f == [i \in Sends(q) |-> q[i].index]
<1>1. IsFiniteSet(1..n)
  BY FS_Interval
<1>2. IsFiniteSet(Sends(q))
  BY <1>1, FS_Subset DEF Sends
<1>3. f \in [Sends(q) -> SendIndices(q)] /\ SendIndices(q) = {f[i] : i \in Sends(q)}
  BY DEF SendIndices
<1>4. \A i, j \in Sends(q) : f[i] = f[j] => i = j
  BY DEF NamesEachOnce
<1> HIDE DEF f
<1> QED
  BY <1>2, <1>3, <1>4, ImageSize

LEMMA SendCount == TypeInv /\ SendInv => SendsWhatWasQueued
<1> SUFFICES ASSUME TypeInv, SendInv PROVE SendsWhatWasQueued
  OBVIOUS
<1>1. IsFiniteSet(Busy)
  <2>1. 0 \in Int /\ ring_entries - 1 \in Int
    BY Sizes
  <2>2. IsFiniteSet(Indices)
    BY <2>1, FS_Interval DEF Indices
  <2> QED
    BY <2>2, FS_Subset DEF Busy
<1>2. IsFiniteSet(SendingIndices)
  BY <1>1, FS_Subset DEF SendInv
<1>3. Cardinality(SendingIndices) = Cardinality(sending)
  <2> DEFINE f == [e \in sending |-> e.index]
  <2>1. f \in Injection(sending, SendingIndices) /\ f \in Surjection(sending, SendingIndices)
    BY DEF Injection, IsInjective, Surjection, SendInv, SendingIndices
  <2> HIDE DEF f
  <2> QED
    BY <1>2, <2>1, FS_Injection
<1>4. /\ IsFiniteSet(SendIndices(sq)) /\ Cardinality(Sends(sq)) \in Nat
      /\ Cardinality(SendIndices(sq)) = Cardinality(Sends(sq))
  <2>1. Len(sq) \in Nat /\ DOMAIN sq = 1..Len(sq)
    BY DEF TypeInv, TypeOK
  <2> QED
    BY <2>1, SendsCounted DEF SendInv
<1>5. /\ IsFiniteSet(SendIndices(cq)) /\ Cardinality(Sends(cq)) \in Nat
      /\ Cardinality(SendIndices(cq)) = Cardinality(Sends(cq))
  <2>1. Len(cq) \in Nat /\ DOMAIN cq = 1..Len(cq)
    BY DEF TypeInv, TypeOK
  <2> QED
    BY <2>1, SendsCounted DEF SendInv
<1> DEFINE U == SendIndices(sq) \cup SendingIndices
<1>6. IsFiniteSet(U) /\ Cardinality(U) = Cardinality(Sends(sq)) + Cardinality(sending)
  <2>1. SendIndices(sq) \cap SendingIndices = {}
    BY DEF SendInv
  <2>2. Cardinality(sending) \in Nat
    BY <1>2, <1>3, FS_CardinalityType
  <2> QED
    BY <1>2, <1>3, <1>4, <2>1, <2>2, FS_Union, FS_EmptySet
<1>7. U \cap SendIndices(cq) = {} /\ U \cup SendIndices(cq) = Busy
  BY DEF SendInv
<1> HIDE DEF U
<1>8. Cardinality(sending) \in Nat
  BY <1>2, <1>3, FS_CardinalityType
<1>9. Cardinality(Busy) = Cardinality(U) + Cardinality(SendIndices(cq))
  BY <1>5, <1>6, <1>7, FS_Union, FS_EmptySet, FS_CardinalityType
<1> QED
  BY <1>4, <1>5, <1>6, <1>8, <1>9 DEF SendsWhatWasQueued, SendInv, Busy

\* SendsWhatWasQueued for every ring size and any number of datagrams: a send
\* buffer is handed out again only after the completion of its last entry has
\* been taken, so the kernel never reads a buffer that was written over, and
\* no buffer is lost, although a round may start with sends of earlier rounds
\* still under way.
THEOREM UringSendsWhatWasQueued == Spec => []SendsWhatWasQueued
<1>1. Init => TypeInv /\ SendInv
  BY TypeInit, SendInit
<1>2. TypeInv /\ SendInv /\ [Next]_vars => TypeInv' /\ SendInv'
  BY TypeStep, SendStep
<1>3. TypeInv /\ SendInv => SendsWhatWasQueued
  BY SendCount
<1> QED
  BY <1>1, <1>2, <1>3, PTL DEF Spec

----------------------------------------------------------------------------
(***************************************************************************)
(* Receive buffers                                                         *)
(***************************************************************************)
\* Buffers handed over by the completions of a queue; none twice.
DeliveredIn(queue) == {i \in DOMAIN queue : queue[i].user_data \in Families /\ queue[i].ok}
BidsIn(queue) == {queue[i].bid : i \in DeliveredIn(queue)}
HandsEachOnce(queue) ==
    \A i, j \in DeliveredIn(queue) : queue[i].bid = queue[j].bid => i = j

Hands(e) == e.user_data \in Families /\ e.ok

LEMMA BidsAppend ==
  ASSUME NEW X, NEW q \in Seq(X), NEW e \in X, HandsEachOnce(q)
  PROVE  /\ Hands(e) =>
               /\ BidsIn(Append(q, e)) = BidsIn(q) \cup {e.bid}
               /\ e.bid \notin BidsIn(q) => HandsEachOnce(Append(q, e))
         /\ ~Hands(e) =>
               /\ BidsIn(Append(q, e)) = BidsIn(q)
               /\ HandsEachOnce(Append(q, e))
<1> DEFINE a == Append(q, e)
           n == Len(q) + 1
<1>1. /\ DOMAIN a = DOMAIN q \cup {n}
      /\ n \notin DOMAIN q
      /\ \A i \in DOMAIN q : a[i] = q[i]
      /\ a[n] = e
  BY QueueAppend
<1> HIDE DEF a, n
<1>2. CASE Hands(e)
  <2>1. DeliveredIn(a) = DeliveredIn(q) \cup {n}
    BY <1>1, <1>2 DEF DeliveredIn, Hands
  <2>2. BidsIn(a) = BidsIn(q) \cup {e.bid}
    BY <1>1, <2>1 DEF BidsIn, DeliveredIn
  <2>3. e.bid \notin BidsIn(q) => HandsEachOnce(a)
    BY <1>1, <2>1 DEF BidsIn, HandsEachOnce, DeliveredIn
  <2> QED
    BY <1>2, <2>2, <2>3 DEF a
<1>3. CASE ~Hands(e)
  <2>1. DeliveredIn(a) = DeliveredIn(q)
    BY <1>1, <1>3 DEF DeliveredIn, Hands
  <2>2. \A i \in DeliveredIn(q) : a[i] = q[i]
    BY <1>1 DEF DeliveredIn
  <2> QED
    BY <1>3, <2>1, <2>2 DEF BidsIn, HandsEachOnce, a
<1> QED
  BY <1>2, <1>3

LEMMA BidsTail ==
  ASSUME NEW X, NEW q \in Seq(X), q # << >>, HandsEachOnce(q)
  PROVE  /\ HandsEachOnce(Tail(q))
         /\ Hands(Head(q)) =>
               /\ BidsIn(Tail(q)) = BidsIn(q) \ {Head(q).bid}
               /\ Head(q).bid \in BidsIn(q)
         /\ ~Hands(Head(q)) => BidsIn(Tail(q)) = BidsIn(q)
<1> DEFINE t == Tail(q)
           e == Head(q)
<1>1. /\ e = q[1] /\ 1 \in DOMAIN q
      /\ \A i \in DOMAIN t : i + 1 \in DOMAIN q /\ i + 1 # 1 /\ t[i] = q[i + 1]
      /\ \A i \in DOMAIN q : i # 1 => i - 1 \in DOMAIN t /\ t[i - 1] = q[i]
      /\ DOMAIN t \subseteq Nat
  BY QueueTail
<1> HIDE DEF t, e
<1>2. \A i \in DeliveredIn(t) : i + 1 \in DeliveredIn(q) /\ i + 1 # 1 /\ t[i] = q[i + 1] /\ i \in Nat
  BY <1>1 DEF DeliveredIn
<1>3. \A i \in DeliveredIn(q) : i # 1 => i - 1 \in DeliveredIn(t) /\ t[i - 1] = q[i]
  BY <1>1 DEF DeliveredIn
<1>4. HandsEachOnce(t)
  <2> SUFFICES ASSUME NEW i \in DeliveredIn(t), NEW j \in DeliveredIn(t), t[i].bid = t[j].bid
               PROVE i = j
    BY DEF HandsEachOnce
  <2>1. i + 1 = j + 1
    BY <1>2 DEF HandsEachOnce
  <2> QED
    BY <1>2, <2>1
<1>5. CASE Hands(e)
  <2>1. 1 \in DeliveredIn(q) /\ q[1] = e
    BY <1>1, <1>5 DEF DeliveredIn, Hands
  <2>2. BidsIn(t) \subseteq BidsIn(q) \ {e.bid}
    BY <1>2, <2>1 DEF BidsIn, HandsEachOnce
  <2>3. BidsIn(q) \ {e.bid} \subseteq BidsIn(t)
    BY <1>3, <2>1 DEF BidsIn
  <2> QED
    BY <1>4, <1>5, <2>1, <2>2, <2>3 DEF BidsIn, t, e
<1>6. CASE ~Hands(e)
  <2>1. \A i \in DeliveredIn(q) : i # 1
    BY <1>1, <1>6 DEF DeliveredIn, Hands
  <2>2. BidsIn(t) \subseteq BidsIn(q)
    BY <1>2 DEF BidsIn
  <2>3. BidsIn(q) \subseteq BidsIn(t)
    BY <1>3, <2>1 DEF BidsIn
  <2> QED
    BY <1>4, <1>6, <2>2, <2>3 DEF t, e
<1> QED
  BY <1>5, <1>6

InRing == 0..RingLen - 1
RingBids == {RingBid(k) : k \in InRing}

\* Every receive buffer is in the ring at one position or in one completion.
RingInv ==
    /\ \A k, l \in InRing : RingBid(k) = RingBid(l) => k = l
    /\ HandsEachOnce(cq)
    /\ RingBids \cap BidsIn(cq) = {}
    /\ RingBids \cup BidsIn(cq) = Bids

LEMMA RingCount == TypeInv /\ RingInv => BufferIdsConserved
<1> SUFFICES ASSUME TypeInv, RingInv PROVE BufferIdsConserved
  OBVIOUS
<1>1. RingLen \in Nat
  <2>1. local_tail \in Positions /\ head \in Positions
    BY DEF TypeInv, TypeOK, Positions
  <2>2. Length(local_tail, head) \in Positions
    BY <2>1, Distance
  <2> QED
    BY <2>2, Sizes DEF RingLen, Length, Positions
<1>2. IsFiniteSet(InRing) /\ Cardinality(InRing) = RingLen
  <2>1. 0 \in Int /\ RingLen - 1 \in Int
    BY <1>1
  <2>2. IsFiniteSet(0..RingLen - 1)
        /\ Cardinality(0..RingLen - 1) = IF 0 > RingLen - 1 THEN 0 ELSE RingLen - 1 - 0 + 1
    BY <2>1, FS_Interval
  <2> QED
    BY <1>1, <2>2 DEF InRing
<1>3. IsFiniteSet(RingBids) /\ Cardinality(RingBids) = RingLen
  <2> DEFINE f == [k \in InRing |-> RingBid(k)]
  <2>1. f \in [InRing -> RingBids] /\ RingBids = {f[k] : k \in InRing}
    BY DEF RingBids
  <2>2. \A k, l \in InRing : f[k] = f[l] => k = l
    BY DEF RingInv
  <2> HIDE DEF f
  <2> QED
    BY <1>2, <2>1, <2>2, ImageSize
<1>4. /\ IsFiniteSet(BidsIn(cq)) /\ Cardinality(Delivered) \in Nat
      /\ Cardinality(BidsIn(cq)) = Cardinality(Delivered)
  <2>1. Delivered = DeliveredIn(cq)
    BY DEF Delivered, DeliveredIn
  <2>2. IsFiniteSet(DOMAIN cq)
    <3>1. Len(cq) \in Nat /\ DOMAIN cq = 1..Len(cq)
      BY DEF TypeInv, TypeOK
    <3> QED
      BY <3>1, FS_Interval
  <2>3. IsFiniteSet(Delivered)
    BY <2>2, FS_Subset DEF Delivered
  <2> DEFINE f == [i \in Delivered |-> cq[i].bid]
  <2>4. f \in [Delivered -> BidsIn(cq)] /\ BidsIn(cq) = {f[i] : i \in Delivered}
    BY <2>1 DEF BidsIn
  <2>5. \A i, j \in Delivered : f[i] = f[j] => i = j
    BY <2>1 DEF RingInv, HandsEachOnce
  <2> HIDE DEF f
  <2> QED
    BY <2>3, <2>4, <2>5, ImageSize
<1>5. Cardinality(Bids) = ring_entries
  <2>1. 0 \in Int /\ ring_entries - 1 \in Int
    BY Sizes
  <2>2. Cardinality(Bids) = IF 0 > ring_entries - 1 THEN 0 ELSE ring_entries - 1 - 0 + 1
    BY <2>1, FS_Interval DEF Bids
  <2> QED
    BY <2>2, Sizes
<1>6. Cardinality(Bids) = Cardinality(RingBids) + Cardinality(BidsIn(cq))
  <2>1. RingBids \cap BidsIn(cq) = {} /\ RingBids \cup BidsIn(cq) = Bids
    BY DEF RingInv
  <2>2. Cardinality(RingBids \cup BidsIn(cq)) = Cardinality(RingBids) + Cardinality(BidsIn(cq))
                                                 - Cardinality(RingBids \cap BidsIn(cq))
    BY <1>3, <1>4, FS_Union
  <2>3. Cardinality(RingBids \cap BidsIn(cq)) = 0
    BY <2>1, FS_EmptySet
  <2>4. Cardinality(RingBids) \in Nat /\ Cardinality(BidsIn(cq)) \in Nat
    BY <1>3, <1>4, FS_CardinalityType
  <2>5. Cardinality(RingBids \cup BidsIn(cq)) = Cardinality(Bids)
    BY <2>1, Zenon
  <2> QED
    BY <2>2, <2>3, <2>4, <2>5
<1>7. RingLen + Cardinality(Delivered) = ring_entries
  BY <1>1, <1>3, <1>4, <1>5, <1>6
<1> QED
  BY <1>7 DEF BufferIdsConserved, RingInv, RingBids, InRing, BidsIn, DeliveredIn, Delivered

LEMMA RingInit == Init => RingInv
<1> SUFFICES ASSUME Init PROVE RingInv
  OBVIOUS
<1>1. ring_entries % TailModulus = ring_entries
  BY Sizes
<1>2. RingLen = ring_entries
  <2>1. local_tail = ring_entries /\ head = 0 /\ ring_entries - 0 = ring_entries
    BY <1>1, Sizes DEF Init
  <2> QED
    BY <1>1, <2>1 DEF RingLen
<1>3. \A k \in InRing : RingBid(k) = k
  <2> SUFFICES ASSUME NEW k \in 0..ring_entries - 1 PROVE RingBid(k) = k
    BY <1>2 DEF InRing
  <2>1. (0 + k) % TailModulus = k /\ mask(k) = k
    BY Sizes DEF mask
  <2> QED
    BY <2>1 DEF Init, RingBid, new_ring
<1>4. RingBids = Bids
  BY <1>2, <1>3 DEF RingBids, InRing, Bids
<1>5. DeliveredIn(cq) = {}
  BY DEF Init, DeliveredIn
<1> QED
  BY <1>3, <1>4, <1>5 DEF RingInv, BidsIn, HandsEachOnce

\* The kernel takes the id at the head of the ring.
LEMMA ReceiveRing ==
  ASSUME TypeInv, RingInv, NEW f \in Families, KernelReceive(f)
  PROVE  RingInv'
<1>1. PICK e \in Cqe :
           /\ e.user_data = f /\ e.ok /\ e.bid = RingBid(0)
           /\ cq' = Append(cq, e)
  BY KernelReceiveFacts
<1>2. /\ local_tail \in Positions /\ head \in Positions /\ RingLen > 0 /\ cq \in Seq(Cqe)
      /\ head' = (head + 1) % TailModulus /\ UNCHANGED <<local_tail, buf_ring>>
  BY DEF TypeInv, TypeOK, Positions, KernelReceive, worker
<1>3. RingLen \in Positions /\ RingLen' = RingLen - 1
  BY <1>2, Distance DEF RingLen, Length
<1>4. RingLen \in Nat /\ Positions = 0..TailModulus - 1 /\ TailModulus \in Nat
  BY <1>3, Sizes DEF Positions
<1>5. ASSUME NEW k \in InRing' PROVE k + 1 \in InRing /\ k \in InRing /\ RingBid(k)' = RingBid(k + 1)
  <2>1. k + 1 \in InRing /\ k \in InRing /\ k \in Positions /\ k + 1 \in Positions
    BY <1>3, <1>4 DEF InRing
  <2>2. At(head', k) = At(head, k + 1)
    BY <1>2, <2>1, Distance
  <2> QED
    BY <1>2, <2>1, <2>2 DEF RingBid, At
<1>6. \A k \in InRing : k # 0 => k - 1 \in InRing' /\ k - 1 + 1 = k
  BY <1>3, <1>4 DEF InRing
<1>7. 0 \in InRing /\ \A k \in InRing : k \in Nat
  BY <1>2, <1>4 DEF InRing
<1>8. \A k, l \in InRing' : RingBid(k)' = RingBid(l)' => k = l
  <2> SUFFICES ASSUME NEW k \in InRing', NEW l \in InRing', RingBid(k)' = RingBid(l)' PROVE k = l
    OBVIOUS
  <2>1. k + 1 = l + 1
    BY <1>5 DEF RingInv
  <2>2. k \in Nat /\ l \in Nat
    BY <1>5, <1>7
  <2> QED
    BY <2>1, <2>2
<1>9. RingBids' = RingBids \ {e.bid} /\ e.bid \in RingBids
  <2>1. RingBids' \subseteq RingBids \ {e.bid}
    <3> SUFFICES ASSUME NEW k \in InRing' PROVE RingBid(k)' \in RingBids \ {RingBid(0)}
      BY <1>1 DEF RingBids
    <3>1. k + 1 \in InRing /\ RingBid(k)' = RingBid(k + 1) /\ k \in Nat
      BY <1>5, <1>7
    <3>2. k + 1 # 0
      BY <3>1
    <3> QED
      BY <1>7, <3>1, <3>2 DEF RingBids, RingInv
  <2>2. RingBids \ {e.bid} \subseteq RingBids'
    <3> SUFFICES ASSUME NEW k \in InRing, RingBid(k) # RingBid(0) PROVE RingBid(k) \in RingBids'
      BY <1>1 DEF RingBids
    <3>1. k - 1 \in InRing' /\ k - 1 + 1 = k
      BY <1>6
    <3>2. RingBid(k - 1)' = RingBid(k)
      BY <1>5, <3>1
    <3> QED
      BY <3>1, <3>2 DEF RingBids
  <2>3. e.bid \in RingBids
    BY <1>1, <1>7 DEF RingBids
  <2> QED
    BY <2>1, <2>2, <2>3
<1>10. BidsIn(cq') = BidsIn(cq) \cup {e.bid} /\ HandsEachOnce(cq')
  <2>1. Hands(e) /\ e.bid \notin BidsIn(cq) /\ HandsEachOnce(cq)
    BY <1>1, <1>9 DEF Hands, RingInv
  <2> QED
    BY <1>1, <1>2, <2>1, BidsAppend
<1> QED
  BY <1>8, <1>9, <1>10 DEF RingInv

\* The worker gives an id back: its slot is none of those in use.
LEMMA DropRing ==
  ASSUME TypeInv, RingInv, cq # << >>, cq' = Tail(cq), Hands(Head(cq)),
         dropping_bid(Head(cq).bid), UNCHANGED head
  PROVE  RingInv'
<1> DEFINE T == TailModulus
<1>1. PICK b : b = Head(cq).bid
  OBVIOUS
<1>n. PICK n : n = RingLen
  OBVIOUS
<1>2. /\ local_tail \in Positions /\ head \in Positions /\ cq \in Seq(Cqe)
      /\ buf_ring \in [0..ring_entries - 1 -> Bids]
      /\ buf_ring' = [buf_ring EXCEPT ![mask(local_tail)] = b]
      /\ local_tail' = (local_tail + 1) % T
  BY <1>1 DEF TypeInv, TypeOK, Positions, dropping_bid
<1>3. BidsIn(cq') = BidsIn(cq) \ {b} /\ HandsEachOnce(cq') /\ b \in BidsIn(cq)
  BY <1>1, <1>2, BidsTail DEF RingInv
<1>4. RingLen \in Nat /\ RingLen < ring_entries /\ RingLen \in Positions
  <2>1. RingLen \in Positions
    BY <1>2, Distance DEF RingLen, Length
  <2>a. RingLen \in Nat
    BY <2>1, Sizes DEF Positions
  <2>2. RingLen + Cardinality(Delivered) = ring_entries
    BY RingCount DEF BufferIdsConserved
  <2>3. Delivered # {}
    BY <1>3 DEF BidsIn, DeliveredIn, Delivered
  <2>4. IsFiniteSet(Delivered)
    <3>1. Len(cq) \in Nat /\ DOMAIN cq = 1..Len(cq)
      BY <1>2
    <3>2. IsFiniteSet(DOMAIN cq)
      BY <3>1, FS_Interval
    <3> QED
      BY <3>2, FS_Subset DEF Delivered
  <2>5. Cardinality(Delivered) \in Nat /\ Cardinality(Delivered) # 0
    BY <2>3, <2>4, FS_CardinalityType, FS_EmptySet
  <2> QED
    BY <2>1, <2>a, <2>2, <2>5, Sizes
<1>5. RingLen' = RingLen + 1
  <2>1. RingLen < T - 1
    BY <1>4, Sizes
  <2> QED
    BY <1>2, <2>1, Distance DEF RingLen, Length
<1>6. InRing' = InRing \cup {RingLen} /\ RingLen \notin InRing /\ \A k \in InRing : k \in 0..ring_entries - 1
  BY <1>4, <1>5, Sizes DEF InRing
<1>7. local_tail = At(head, RingLen)
  BY <1>2, Distance DEF RingLen, Length
<1>8. ASSUME NEW k \in InRing PROVE RingBid(k)' = RingBid(k)
  <2> DEFINE x == At(head, k)
             d == RingLen - k
  <2>a. k \in Positions /\ k \in Nat /\ k < RingLen
    BY <1>4, Sizes DEF InRing, Positions
  <2>1. x \in Positions /\ x = IF head + k < T THEN head + k ELSE head + k - T
    BY <1>2, <2>a, Distance
  <2>b. local_tail = IF head + RingLen < T THEN head + RingLen ELSE head + RingLen - T
    BY <1>2, <1>4, <1>7, Distance
  <2>2. /\ d \in 1..ring_entries - 1 /\ x \in Int /\ local_tail \in Int
        /\ head \in Nat /\ T \in Nat /\ RingLen \in Nat
    BY <1>2, <1>4, <2>1, <2>a, Sizes DEF Positions
  <2>3. local_tail = x + d \/ local_tail = x + d - T
    <3> HIDE DEF T, x
    <3> QED
      BY <2>1, <2>2, <2>a, <2>b
  <2>4. mask(x) # mask(local_tail)
    BY <2>2, <2>3, SlotsDiffer
  <2>5. mask(x) \in 0..ring_entries - 1
    BY <2>1, PositionSteps
  <2> QED
    BY <1>2, <2>4, <2>5 DEF RingBid, At
<1>9. RingBid(n)' = b
  <2>1. mask(local_tail) \in 0..ring_entries - 1
    BY <1>2, PositionSteps
  <2>2. buf_ring'[mask(local_tail)] = b
    BY <1>2, <2>1
  <2>3. head' = head
    OBVIOUS
  <2> QED
    BY <1>7, <1>n, <2>2, <2>3 DEF RingBid, At
<1>10. InRing' = InRing \cup {n} /\ n \notin InRing
  BY <1>6, <1>n
<1>11. RingBids' = RingBids \cup {b}
  BY <1>8, <1>9, <1>10 DEF RingBids
<1>12. b \notin RingBids
  BY <1>3 DEF RingInv
<1>13. \A k, l \in InRing' : RingBid(k)' = RingBid(l)' => k = l
  <2> SUFFICES ASSUME NEW k \in InRing', NEW l \in InRing', RingBid(k)' = RingBid(l)' PROVE k = l
    OBVIOUS
  <2>1. \A i \in InRing : RingBid(i)' = RingBid(i) /\ RingBid(i) # b
    BY <1>8, <1>12 DEF RingBids
  <2> QED
    BY <1>9, <1>10, <2>1 DEF RingInv
<1> QED
  BY <1>3, <1>11, <1>12, <1>13 DEF RingInv

LEMMA RingStep == TypeInv /\ RingInv /\ [Next]_vars => RingInv'
<1> SUFFICES ASSUME TypeInv, RingInv, [Next]_vars PROVE RingInv'
  OBVIOUS
<1>1. ASSUME UNCHANGED <<buf_ring, local_tail, head>>, BidsIn(cq') = BidsIn(cq), HandsEachOnce(cq')
      PROVE  RingInv'
  <2>1. InRing' = InRing /\ \A k \in InRing : RingBid(k)' = RingBid(k)
    BY <1>1 DEF InRing, RingLen, RingBid
  <2>2. RingBids' = RingBids
    BY <2>1 DEF RingBids
  <2> QED
    BY <1>1, <2>1, <2>2 DEF RingInv
<1>2. CASE UNCHANGED <<buf_ring, local_tail, head, cq>>
  BY <1>1, <1>2 DEF RingInv
<1>3. CASE handle_cqe
  <2>1. PICK e \in Cqe :
              /\ e = Head(cq)
              /\ \/ Hands(e) /\ dropping_bid(e.bid)
                 \/ ~Hands(e) /\ UNCHANGED <<buf_ring, local_tail>>
    BY <1>3, HandleCqeFacts, Sizes DEF Hands
  <2>2. cq # << >> /\ cq \in Seq(Cqe) /\ cq' = Tail(cq) /\ UNCHANGED head
    BY <1>3, HandleCqeFacts DEF handle_cqe
  <2>3. CASE Hands(e) /\ dropping_bid(e.bid)
    BY <2>1, <2>2, <2>3, DropRing
  <2>4. CASE ~Hands(e) /\ UNCHANGED <<buf_ring, local_tail>>
    <3>1. BidsIn(cq') = BidsIn(cq) /\ HandsEachOnce(cq')
      BY <2>1, <2>2, <2>4, BidsTail DEF RingInv
    <3> QED
      BY <1>1, <2>2, <2>4, <3>1
  <2> QED
    BY <2>1, <2>3, <2>4
<1>4. CASE run_inner
  <2>1. \/ PushResubmittable \/ EnqueueResponse \/ SerializationFailed \/ Submit \/ Wake \/ ReapDone
           => UNCHANGED <<buf_ring, local_tail, head, cq>>
    BY DEF PushResubmittable, EnqueueResponse, SerializationFailed, TakeResponse, Submit, Wake, ReapDone
  <2> QED
    BY <1>2, <1>3, <1>4, <2>1 DEF run_inner
<1>5. CASE \E f \in Families : KernelReceive(f)
  BY <1>5, ReceiveRing
<1>6. ASSUME NEW e \in Cqe, cq' = Append(cq, e), ~Hands(e), UNCHANGED <<buf_ring, local_tail, head>>
      PROVE  RingInv'
  <2>1. BidsIn(cq') = BidsIn(cq) /\ HandsEachOnce(cq')
    BY <1>6, BidsAppend DEF RingInv, TypeInv, TypeOK
  <2> QED
    BY <1>1, <1>6, <2>1
<1>7. CASE \E f \in Families : KernelNoBuffers(f)
  <2>1. PICK f \in Families : KernelNoBuffers(f)
    BY <1>7
  <2> DEFINE e == [user_data |-> f, ok |-> FALSE, more |-> FALSE]
  <2>2. e \in Cqe /\ ~Hands(e)
    BY DEF Cqe, Hands
  <2> QED
    BY <1>6, <2>1, <2>2 DEF KernelNoBuffers, worker
<1>8. CASE \E e \in sending : KernelSent(e)
  <2>1. PICK s \in sending : KernelSent(s)
    BY <1>8
  <2> DEFINE e == [user_data |-> "send", index |-> s.index]
  <2>2. e \in Cqe /\ ~Hands(e)
    BY SqeFields, Sizes DEF Cqe, Hands, TypeInv, TypeOK
  <2> QED
    BY <1>6, <2>1, <2>2 DEF KernelSent, worker
<1>9. CASE KernelPulse
  <2> DEFINE e == [user_data |-> "pulse"]
  <2>1. e \in Cqe /\ ~Hands(e)
    BY Sizes DEF Cqe, Hands
  <2> QED
    BY <1>6, <1>9, <2>1 DEF KernelPulse, worker
<1>10. (\E f \in Families, ip \in Ips : Arrive(f, ip)) \/ UNCHANGED vars
          => UNCHANGED <<buf_ring, local_tail, head, cq>>
  BY DEF Arrive, worker, vars
<1> QED
  BY <1>2, <1>4, <1>5, <1>7, <1>8, <1>9, <1>10 DEF Next, KernelRecv

\* BufferIdsConserved for every ring size and every modulus of the tail: the
\* slot that dropping_bid writes is none of those between the kernel's head
\* and the tail, also when the u16 tail has wrapped, so no id is shown to the
\* kernel twice and none is lost.
THEOREM UringBufferIdsConserved == Spec => []BufferIdsConserved
<1>1. Init => TypeInv /\ RingInv
  BY TypeInit, RingInit
<1>2. TypeInv /\ RingInv /\ [Next]_vars => TypeInv' /\ RingInv'
  BY TypeStep, RingStep
<1>3. TypeInv /\ RingInv => BufferIdsConserved
  BY RingCount
<1> QED
  BY <1>1, <1>2, <1>3, PTL DEF Spec
============================================================================
