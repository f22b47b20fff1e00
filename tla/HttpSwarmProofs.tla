-------------------------- MODULE HttpSwarmProofs --------------------------
(***************************************************************************)
(* Proofs about HttpSwarm: answers hold the right number of distinct peers *)
(* (the arithmetic of the two halves), the cached counts are exact, and    *)
(* the worker implements Swarm.                                            *)
(***************************************************************************)
EXTENDS HttpSwarm, TLAPS, FiniteSetTheorems, SequenceTheorems

----------------------------------------------------------------------------
(***************************************************************************)
(* Peers of an answer                                                      *)
(***************************************************************************)
Injective(s) == \A i, j \in 1 .. Len(s) : s[i] = s[j] => i = j

\* n distinct elements of S
Fits(s, S, n) == s \in Seq(S) /\ Len(s) = n /\ Injective(s)

\* An order is a sequence without repetitions.
LEMMA OrderProperties ==
    ASSUME NEW S, Cardinality(S) \in Nat, NEW order \in Orders(S)
    PROVE  /\ order \in Seq(S) /\ Len(order) = Cardinality(S)
           /\ order \in [1 .. Len(order) -> S] /\ Injective(order)
<1>1. order \in [1 .. Cardinality(S) -> S]
  BY DEF Orders
<1>2. order \in Seq(S)
  BY <1>1, SeqDef
<1>3. Len(order) = Cardinality(S)
  BY <1>1, <1>2, LenProperties
<1> QED BY <1>1, <1>2, <1>3 DEF Orders, Injective

\* A range of an order that lies within it.
LEMMA RangeProperties ==
    ASSUME NEW S, NEW order \in Seq(S), NEW a \in Nat, NEW n \in Nat, a + n <= Len(order)
    PROVE  /\ get_range(order, a, n) \in Seq(S) /\ Len(get_range(order, a, n)) = n
           /\ \A i \in 1 .. n : get_range(order, a, n)[i] = order[a + i]
<1>1. Len(order) \in Nat /\ order \in [1 .. Len(order) -> S]
  BY LenProperties
<1>2. \A i \in a + 1 .. a + n : order[i] \in S
  BY <1>1
<1>3. a + 1 \in Int /\ a + n \in Int /\ (a + 1 <= a + n \/ n = 0)
  OBVIOUS
<1>4. /\ SubSeq(order, a + 1, a + n) \in Seq(S)
      /\ Len(SubSeq(order, a + 1, a + n)) = IF a + 1 <= a + n THEN a + n - (a + 1) + 1 ELSE 0
      /\ \A i \in 1 .. a + n - (a + 1) + 1 :
            SubSeq(order, a + 1, a + n)[i] = order[a + 1 + i - 1]
  BY <1>2, <1>3, SubSeqProperties
<1>5. Len(SubSeq(order, a + 1, a + n)) = n
  BY <1>4
<1>6. \A i \in 1 .. n : SubSeq(order, a + 1, a + n)[i] = order[a + i]
  <2> TAKE i \in 1 .. n
  <2>1. a + n - (a + 1) + 1 = n /\ a + 1 + i - 1 = a + i
    OBVIOUS
  <2> QED BY <1>4, <2>1
<1> QED BY <1>4, <1>5, <1>6 DEF get_range

\* The halves a map longer than the limit is split into can give the peers
\* asked of them.
LEMMA HalvesFit ==
    ASSUME NEW len \in Nat, NEW max \in Nat, max < len
    PROVE  /\ Halves(len, max).middle \in Nat
           /\ Halves(len, max).one \in Nat /\ Halves(len, max).two \in Nat
           /\ Halves(len, max).one + Halves(len, max).two = max
           /\ Halves(len, max).one <= Halves(len, max).middle
           /\ Halves(len, max).two <= len - Halves(len, max).middle
BY DEF Halves

\* Two ranges, the second after the first, have no entry in common.
LEMMA TwoRanges ==
    ASSUME NEW S, NEW order \in Seq(S), Injective(order),
           NEW a \in Nat, NEW n1 \in Nat, NEW b \in Nat, NEW n2 \in Nat,
           a + n1 <= b, b + n2 <= Len(order)
    PROVE  Fits(get_range(order, a, n1) \o get_range(order, b, n2), S, n1 + n2)
<1> DEFINE p1 == get_range(order, a, n1)
           p2 == get_range(order, b, n2)
           p == p1 \o p2
           at(x) == IF x <= n1 THEN a + x ELSE b + (x - n1)
<1>1. Len(order) \in Nat /\ a + n1 <= Len(order)
  BY LenProperties
<1>2. p1 \in Seq(S) /\ Len(p1) = n1 /\ \A x \in 1 .. n1 : p1[x] = order[a + x]
  BY <1>1, RangeProperties
<1>3. p2 \in Seq(S) /\ Len(p2) = n2 /\ \A x \in 1 .. n2 : p2[x] = order[b + x]
  BY <1>1, RangeProperties
<1> HIDE DEF p1, p2
<1>4. /\ p \in Seq(S) /\ Len(p) = n1 + n2
      /\ \A x \in 1 .. n1 + n2 : p[x] = IF x <= n1 THEN p1[x] ELSE p2[x - n1]
  BY <1>2, <1>3, ConcatProperties
<1> HIDE DEF p
<1>5. \A x \in 1 .. n1 + n2 : at(x) \in 1 .. Len(order) /\ p[x] = order[at(x)]
  <2> TAKE x \in 1 .. n1 + n2
  <2>1. at(x) \in 1 .. Len(order)
    BY <1>1
  <2>2. CASE x <= n1
    BY <1>2, <1>4, <2>1, <2>2
  <2>3. CASE ~(x <= n1)
    <3>1. x - n1 \in 1 .. n2
      BY <2>3
    <3> QED BY <1>3, <1>4, <2>1, <2>3, <3>1
  <2> QED BY <2>2, <2>3
<1>6. \A x, y \in 1 .. n1 + n2 : at(x) = at(y) => x = y
  OBVIOUS
<1> HIDE DEF at
<1>7. \A x, y \in 1 .. n1 + n2 : p[x] = p[y] => x = y
  BY <1>5, <1>6 DEF Injective
<1> QED BY <1>4, <1>7 DEF Fits, Injective, p, p1, p2

\* Every answer holds distinct peers of the map, as many as the limit allows.
LEMMA ExtractProperties ==
    ASSUME NEW S, Cardinality(S) \in Nat, NEW order \in Orders(S), NEW max \in Nat,
           NEW large \in BOOLEAN,
           NEW p \in extract_response_peers(large, order, max)
    PROVE  /\ p \in Seq(S) /\ Injective(p)
           /\ Len(p) = IF Cardinality(S) < max THEN Cardinality(S) ELSE max
<1> DEFINE len == Len(order)
           half == Halves(len, max)
<1>1. /\ order \in Seq(S) /\ len = Cardinality(S)
      /\ order \in [1 .. len -> S] /\ Injective(order) /\ len \in Nat
  BY OrderProperties
<1>2. CASE len <= max
  <2>1. p = order
    BY <1>2 DEF extract_response_peers
  <2> QED BY <1>1, <1>2, <2>1
<1>3. CASE ~(len <= max) /\ ~large
  <2>1. p = get_range(order, 0, max)
    <3>1. p = SubSeq(order, 1, max)
      BY <1>3 DEF extract_response_peers
    <3>2. 0 + 1 = 1 /\ 0 + max = max
      OBVIOUS
    <3> QED BY <3>1, <3>2 DEF get_range
  <2>a. order \in Seq(S) /\ 0 \in Nat /\ max \in Nat /\ 0 + max <= Len(order)
    BY <1>1, <1>3
  <2>2. /\ p \in Seq(S) /\ Len(p) = max /\ \A i \in 1 .. max : p[i] = order[0 + i]
    BY <2>a, <2>1, RangeProperties, Zenon
  <2>3. Injective(p)
    BY <1>1, <1>3, <2>2 DEF Injective
  <2> QED BY <1>1, <1>3, <2>2, <2>3
<1>4. CASE ~(len <= max) /\ large
  <2>1. /\ half.middle \in Nat /\ half.one \in Nat /\ half.two \in Nat
        /\ half.one + half.two = max /\ half.one <= half.middle
        /\ half.two <= len - half.middle
    BY <1>1, <1>4, HalvesFit
  <2>2. PICK i \in 0 .. half.middle - half.one, j \in 0 .. len - half.middle - half.two :
           p = get_range(order, i, half.one) \o get_range(order, half.middle + j, half.two)
    <3>1. PICK o \in (0 .. half.middle - half.one) \X (0 .. len - half.middle - half.two) :
             p = get_range(order, o[1], half.one) \o get_range(order, half.middle + o[2], half.two)
      BY <1>4 DEF extract_response_peers
    <3> QED BY <3>1
  <2> DEFINE b == half.middle + j
  <2>3. /\ i \in Nat /\ half.one \in Nat /\ b \in Nat /\ half.two \in Nat
        /\ i + half.one <= b /\ b + half.two <= len
    BY <1>1, <2>1, <2>2
  <2> DEFINE r == get_range(order, i, half.one) \o get_range(order, b, half.two)
  <2>4. p = r
    BY <2>2
  <2> HIDE DEF half, b
  <2>5. r \in Seq(S) /\ Len(r) = half.one + half.two /\ Injective(r)
    <3>1. /\ order \in Seq(S) /\ Injective(order) /\ i \in Nat /\ half.one \in Nat
          /\ b \in Nat /\ half.two \in Nat /\ i + half.one <= b
          /\ b + half.two <= Len(order)
      BY <1>1, <2>3
    <3>2. \A a1, x1, b1, y1 \in Nat : a1 + x1 <= b1 /\ b1 + y1 <= Len(order) =>
             Fits(get_range(order, a1, x1) \o get_range(order, b1, y1), S, x1 + y1)
      BY <3>1, TwoRanges
    <3>3. Fits(r, S, half.one + half.two)
      BY <3>1, <3>2
    <3> QED BY <3>3 DEF Fits
  <2> QED BY <1>1, <1>4, <2>1, <2>4, <2>5
<1> QED BY <1>2, <1>3, <1>4

\* There is always an answer to give.
LEMMA ExtractNonEmpty ==
    ASSUME NEW order, Len(order) \in Nat, NEW max \in Nat, NEW large \in BOOLEAN
    PROVE  extract_response_peers(large, order, max) # {}
<1> DEFINE half == Halves(Len(order), max)
<1>1. CASE Len(order) <= max \/ ~large
  BY <1>1 DEF extract_response_peers
<1>2. CASE ~(Len(order) <= max) /\ large
  <2>1. /\ half.middle \in Nat /\ half.one \in Nat /\ half.two \in Nat
        /\ half.one <= half.middle /\ half.two <= Len(order) - half.middle
    BY <1>2, HalvesFit
  <2>2. <<0, 0>> \in (0 .. half.middle - half.one) \X (0 .. Len(order) - half.middle - half.two)
    BY <2>1
  <2> QED BY <1>2, <2>2 DEF extract_response_peers
<1> QED BY <1>1, <1>2

----------------------------------------------------------------------------
(***************************************************************************)
(* One torrent                                                             *)
(***************************************************************************)
\* What every torrent satisfies between operations.
Valid(t) ==
    /\ t \in TorrentData
    /\ t.large => t.num_seeders = Cardinality(Seeders(t))
    /\ ~t.large => /\ t.num_seeders = 0
                   /\ Cardinality(Present(t)) <= SMALL_PEER_MAP_CAPACITY

\* The peers and the seeders of a torrent are finite sets.
LEMMA FiniteTorrent ==
    ASSUME NEW t
    PROVE  /\ IsFiniteSet(Present(t)) /\ Cardinality(Present(t)) \in Nat
           /\ IsFiniteSet(Seeders(t)) /\ Cardinality(Seeders(t)) \in Nat
           /\ Seeders(t) \subseteq Present(t)
<1>1. Present(t) \subseteq Keys /\ Seeders(t) \subseteq Present(t)
  BY DEF Present, Seeders
<1>2. IsFiniteSet(Present(t))
  BY <1>1, HttpSwarmAssumption, FS_Subset
<1>3. IsFiniteSet(Seeders(t))
  BY <1>1, <1>2, FS_Subset
<1> QED BY <1>1, <1>2, <1>3, FS_CardinalityType

LEMMA DefaultValid ==
    Valid(Default) /\ Present(Default) = {} /\ Seeders(Default) = {}
<1>1. Default \in TorrentData
  BY DEF Default, TorrentData
<1>2. Present(Default) = {} /\ Seeders(Default) = {}
  BY DEF Default, Present, Seeders
<1>3. ~Default.large /\ Default.num_seeders = 0
  BY DEF Default
<1> QED BY <1>1, <1>2, <1>3, FS_EmptySet, HttpSwarmAssumption DEF Valid

\* The reported numbers follow from validity.
LEMMA ValidCounts ==
    ASSUME NEW t, Valid(t)
    PROVE  /\ num_seeders(t) = Cardinality(Seeders(t))
           /\ num_leechers(t) = Cardinality(Present(t) \ Seeders(t))
<1>1. num_seeders(t) = Cardinality(Seeders(t))
  BY DEF num_seeders, Valid
<1>2. Present(t) \cap Seeders(t) = Seeders(t)
  BY FiniteTorrent
<1>3. Cardinality(Present(t) \ Seeders(t)) =
         Cardinality(Present(t)) - Cardinality(Seeders(t))
  BY <1>2, FiniteTorrent, FS_Difference
<1> QED BY <1>1, <1>3 DEF num_leechers

LEMMA RemoveValid ==
    ASSUME NEW t, Valid(t), NEW k \in Keys
    PROVE  /\ Valid(remove_peer(t, k))
           /\ Present(remove_peer(t, k)) = Present(t) \ {k}
           /\ Seeders(remove_peer(t, k)) = Seeders(t) \ {k}
           /\ remove_peer(t, k).completed_count = t.completed_count
<1> DEFINE n == IF t.large /\ k \in Seeders(t) THEN t.num_seeders - 1 ELSE t.num_seeders
           removed == [t EXCEPT !.peers[k] = NoPeer, !.num_seeders = n]
<1>0. removed = remove_peer(t, k)
  BY DEF remove_peer
<1>1. t \in TorrentData
  BY DEF Valid
<1>2. n \in Nat
  <2>1. CASE t.large /\ k \in Seeders(t)
    <3>1. Cardinality(Seeders(t)) # 0
      BY <2>1, FiniteTorrent, FS_EmptySet
    <3> QED BY <2>1, <3>1, FiniteTorrent DEF Valid
  <2>2. CASE ~(t.large /\ k \in Seeders(t))
    BY <1>1, <2>2 DEF TorrentData
  <2> QED BY <2>1, <2>2
<1> HIDE DEF n
<1>3. /\ removed \in TorrentData
      /\ removed.large = t.large
      /\ removed.completed_count = t.completed_count
      /\ removed.num_seeders = n
  BY <1>1, <1>2 DEF TorrentData
<1>4. /\ Present(removed) = Present(t) \ {k}
      /\ Seeders(removed) = Seeders(t) \ {k}
  BY <1>1 DEF TorrentData, Present, Seeders
<1>5. Cardinality(Present(removed)) <= Cardinality(Present(t))
  BY <1>4, FiniteTorrent, FS_Subset
<1>6. Cardinality(Seeders(removed)) =
         IF k \in Seeders(t) THEN Cardinality(Seeders(t)) - 1 ELSE Cardinality(Seeders(t))
  BY <1>4, FiniteTorrent, FS_RemoveElement
<1> HIDE DEF removed
<1>7. t.large => Valid(removed)
  BY <1>3, <1>6 DEF Valid, n
<1>8. ~t.large => Valid(removed)
  BY <1>3, <1>5, FiniteTorrent, HttpSwarmAssumption DEF Valid, n
<1>9. Valid(removed)
  BY <1>7, <1>8
<1> QED BY <1>0, <1>3, <1>4, <1>9

\* Inserting an absent peer keeps the torrent valid if there is room.
LEMMA InsertValid ==
    ASSUME NEW t, Valid(t), NEW k \in Keys, k \notin Present(t), NEW peer \in Peer,
           ~t.large => Cardinality(Present(t)) < SMALL_PEER_MAP_CAPACITY
    PROVE  /\ Valid(insert(t, k, peer))
           /\ Present(insert(t, k, peer)) = Present(t) \cup {k}
           /\ Seeders(insert(t, k, peer)) = IF peer.is_seeder THEN Seeders(t) \cup {k}
                                            ELSE Seeders(t)
           /\ insert(t, k, peer).completed_count = t.completed_count
<1> DEFINE n == IF t.large /\ peer.is_seeder THEN t.num_seeders + 1 ELSE t.num_seeders
           inserted == [t EXCEPT !.peers[k] = peer, !.num_seeders = n]
<1>0. inserted = insert(t, k, peer)
  BY DEF insert
<1>1. t \in TorrentData
  BY DEF Valid
<1>2. n \in Nat
  BY <1>1 DEF TorrentData
<1> HIDE DEF n
<1>3. /\ inserted \in TorrentData
      /\ inserted.large = t.large
      /\ inserted.completed_count = t.completed_count
      /\ inserted.num_seeders = n
  BY <1>1, <1>2 DEF TorrentData
<1>4. /\ Present(inserted) = Present(t) \cup {k}
      /\ Seeders(inserted) = IF peer.is_seeder THEN Seeders(t) \cup {k} ELSE Seeders(t)
  BY <1>1, HttpSwarmAssumption DEF TorrentData, Present, Seeders
<1>5. Cardinality(Present(inserted)) = Cardinality(Present(t)) + 1
  BY <1>4, FiniteTorrent, FS_AddElement
<1>6. Cardinality(Seeders(t) \cup {k}) = Cardinality(Seeders(t)) + 1
  BY FiniteTorrent, FS_AddElement
<1> HIDE DEF inserted
<1>7. t.large => Valid(inserted)
  BY <1>3, <1>4, <1>6 DEF Valid, n
<1>8. ~t.large => Valid(inserted)
  BY <1>3, <1>5, FiniteTorrent, HttpSwarmAssumption DEF Valid, n
<1> QED BY <1>0, <1>3, <1>4, <1>7, <1>8

\* After the change of variant there is room for a peer that will be inserted.
LEMMA ResizeValid ==
    ASSUME NEW t, Valid(t), NEW status
    PROVE  /\ Valid(resize(t, status))
           /\ Present(resize(t, status)) = Present(t)
           /\ Seeders(resize(t, status)) = Seeders(t)
           /\ resize(t, status).completed_count = t.completed_count
           /\ status # "Stopped" /\ ~resize(t, status).large =>
                 Cardinality(Present(t)) < SMALL_PEER_MAP_CAPACITY
<1> DEFINE resized == resize(t, status)
<1>1. t \in TorrentData
  BY DEF Valid
<1>2. CASE resized = t /\ (status = "Stopped" \/ t.large \/ ~is_full(t))
  BY <1>2, FiniteTorrent, HttpSwarmAssumption DEF Valid, is_full
<1>3. CASE status # "Stopped" /\ ~t.large /\ is_full(t)
  <2> DEFINE big == [t EXCEPT !.large = TRUE, !.num_seeders = Cardinality(Seeders(t))]
  <2>1. resized = big
    BY <1>3 DEF resize, to_large
  <2>2. Cardinality(Seeders(t)) \in Nat
    BY FiniteTorrent
  <2>3. /\ big \in TorrentData /\ big.large
        /\ big.num_seeders = Cardinality(Seeders(t))
        /\ big.completed_count = t.completed_count
        /\ Present(big) = Present(t) /\ Seeders(big) = Seeders(t)
    BY <1>1, <2>2 DEF TorrentData, Present, Seeders
  <2> HIDE DEF big
  <2> QED BY <2>1, <2>3 DEF Valid
<1>4. CASE status = "Stopped" /\ t.large /\ Cardinality(Present(t)) <= SMALL_PEER_MAP_CAPACITY
  <2> DEFINE small == [t EXCEPT !.large = FALSE, !.num_seeders = 0]
  <2>1. resized = small
    BY <1>4 DEF resize, try_shrink
  <2>2. /\ small \in TorrentData /\ ~small.large /\ small.num_seeders = 0
        /\ small.completed_count = t.completed_count
        /\ Present(small) = Present(t) /\ Seeders(small) = Seeders(t)
    BY <1>1 DEF TorrentData, Present, Seeders
  <2> HIDE DEF small
  <2> QED BY <1>4, <2>1, <2>2 DEF Valid
<1> QED BY <1>2, <1>3, <1>4 DEF resize, try_shrink

\* The torrent an answer is computed from.
LEMMA BeforeInsertValid ==
    ASSUME NEW t, Valid(t), NEW k \in Keys, NEW event
    PROVE  /\ Valid(before_insert(t, k, event))
           /\ Present(before_insert(t, k, event)) = Present(t) \ {k}
           /\ Seeders(before_insert(t, k, event)) = Seeders(t) \ {k}
           /\ before_insert(t, k, event).completed_count =
                 IF event = "completed" THEN t.completed_count + 1 ELSE t.completed_count
<1> DEFINE c == IF event = "completed" THEN t.completed_count + 1 ELSE t.completed_count
           counted == [t EXCEPT !.completed_count = c]
<1>1. c \in Nat
  BY DEF Valid, TorrentData
<1>2. before_insert(t, k, event) = remove_peer(counted, k)
  BY DEF before_insert
<1> HIDE DEF c
<1>3. /\ counted \in TorrentData /\ counted.completed_count = c
      /\ counted.large = t.large /\ counted.num_seeders = t.num_seeders
      /\ Present(counted) = Present(t) /\ Seeders(counted) = Seeders(t)
  BY <1>1 DEF Valid, TorrentData, Present, Seeders
<1> HIDE DEF counted
<1>4. Valid(counted)
  BY <1>3 DEF Valid
<1> QED BY <1>2, <1>3, <1>4, RemoveValid DEF c

\* An announce keeps the torrent valid and changes the one peer.
LEMMA UpsertValid ==
    ASSUME NEW t, Valid(t), NEW k \in Keys, NEW event, NEW bytes_left,
           peer_valid_until \in 0 .. max_peer_age
    PROVE  /\ Valid(upsert_peer(t, k, event, bytes_left))
           /\ Present(upsert_peer(t, k, event, bytes_left)) =
                 IF event = "stopped" THEN Present(t) \ {k} ELSE Present(t) \cup {k}
           /\ Seeders(upsert_peer(t, k, event, bytes_left)) =
                 IF event # "stopped" /\ bytes_left = 0 THEN Seeders(t) \cup {k}
                 ELSE Seeders(t) \ {k}
           /\ upsert_peer(t, k, event, bytes_left).completed_count =
                 IF event = "completed" THEN t.completed_count + 1 ELSE t.completed_count
<1> DEFINE before == before_insert(t, k, event)
           status == from_event_and_bytes_left(event, bytes_left)
           resized == resize(before, status)
           peer == [is_seeder |-> (status = "Seeding"), valid_until |-> peer_valid_until]
           u == upsert_peer(t, k, event, bytes_left)
<1>1. /\ status = "Stopped" <=> event = "stopped"
      /\ status = "Seeding" <=> event # "stopped" /\ bytes_left = 0
  BY DEF from_event_and_bytes_left
<1>2. /\ Valid(before)
      /\ Present(before) = Present(t) \ {k} /\ Seeders(before) = Seeders(t) \ {k}
      /\ before.completed_count =
            IF event = "completed" THEN t.completed_count + 1 ELSE t.completed_count
  BY BeforeInsertValid
<1>3. u = IF status = "Stopped" THEN resized ELSE insert(resized, k, peer)
  BY DEF upsert_peer
<1> HIDE DEF before, status, u
<1>4. /\ Valid(resized) /\ Present(resized) = Present(before)
      /\ Seeders(resized) = Seeders(before)
      /\ resized.completed_count = before.completed_count
      /\ status # "Stopped" /\ ~resized.large =>
            Cardinality(Present(before)) < SMALL_PEER_MAP_CAPACITY
  BY <1>2, ResizeValid
<1>5. peer \in Peer /\ peer.is_seeder = (status = "Seeding")
  BY DEF Peer
<1> HIDE DEF resized, peer
<1>6. Seeders(t) \subseteq Present(t)
  BY FiniteTorrent
<1>7. CASE status = "Stopped"
  BY <1>1, <1>2, <1>3, <1>4, <1>7 DEF u
<1>8. CASE status # "Stopped"
  <2>1. k \notin Present(resized)
    BY <1>2, <1>4
  <2>2. /\ Valid(insert(resized, k, peer))
        /\ Present(insert(resized, k, peer)) = Present(resized) \cup {k}
        /\ Seeders(insert(resized, k, peer)) = IF peer.is_seeder THEN Seeders(resized) \cup {k}
                                               ELSE Seeders(resized)
        /\ insert(resized, k, peer).completed_count = resized.completed_count
    BY <1>4, <1>5, <1>8, <2>1, InsertValid
  <2>3. u = insert(resized, k, peer)
    BY <1>3, <1>8
  <2>4. Present(u) = Present(t) \cup {k}
    BY <1>2, <1>4, <2>2, <2>3
  <2>5. Seeders(u) = IF bytes_left = 0 THEN Seeders(t) \cup {k} ELSE Seeders(t) \ {k}
    BY <1>1, <1>2, <1>4, <1>5, <1>8, <2>2, <2>3
  <2> QED BY <1>1, <1>2, <1>4, <1>8, <2>2, <2>3, <2>4, <2>5 DEF u
<1> QED BY <1>7, <1>8

LEMMA CleanValid ==
    ASSUME NEW t, Valid(t)
    PROVE  /\ Valid(clean_and_get_num_peers(t))
           /\ Present(clean_and_get_num_peers(t)) = Present(t) \ Expired(t)
           /\ Seeders(clean_and_get_num_peers(t)) = Seeders(t) \ Expired(t)
           /\ clean_and_get_num_peers(t).completed_count = t.completed_count
<1> DEFINE gone == Expired(t) \cap Seeders(t)
           n == IF t.large THEN t.num_seeders - Cardinality(gone) ELSE t.num_seeders
           peers == [k \in Keys |-> IF k \in Expired(t) THEN NoPeer ELSE t.peers[k]]
           cleaned == [t EXCEPT !.peers = peers, !.num_seeders = n]
<1>0. clean_and_get_num_peers(t) = cleaned
  BY DEF clean_and_get_num_peers
<1>1. t \in TorrentData
  BY DEF Valid
<1>2. /\ Cardinality(Seeders(t) \ gone) = Cardinality(Seeders(t)) - Cardinality(gone)
      /\ Cardinality(Seeders(t) \ gone) \in Nat
  <2>1. Seeders(t) \cap gone = gone
    OBVIOUS
  <2>2. Cardinality(Seeders(t) \ gone) = Cardinality(Seeders(t)) - Cardinality(gone)
    BY <2>1, FiniteTorrent, FS_Difference
  <2>3. IsFiniteSet(Seeders(t) \ gone)
    BY FiniteTorrent, FS_Difference
  <2> QED BY <2>2, <2>3, FS_CardinalityType
<1>3. n \in Nat /\ (t.large => n = Cardinality(Seeders(t) \ gone))
  BY <1>1, <1>2 DEF Valid, TorrentData
<1>4. peers \in [Keys -> Peer \cup {NoPeer}]
  BY <1>1 DEF TorrentData
<1>5. /\ {k \in Keys : peers[k] # NoPeer} = Present(t) \ Expired(t)
      /\ {k \in Present(t) \ Expired(t) : peers[k].is_seeder} = Seeders(t) \ Expired(t)
      /\ Seeders(t) \ Expired(t) = Seeders(t) \ gone
  BY DEF Present, Seeders, Expired
<1> HIDE DEF n, peers
<1>6. /\ cleaned \in TorrentData /\ cleaned.large = t.large
      /\ cleaned.num_seeders = n /\ cleaned.peers = peers
      /\ cleaned.completed_count = t.completed_count
  BY <1>1, <1>3, <1>4 DEF TorrentData
<1>7. /\ Present(cleaned) = Present(t) \ Expired(t)
      /\ Seeders(cleaned) = Seeders(t) \ Expired(t)
  BY <1>5, <1>6 DEF Present, Seeders
<1> HIDE DEF cleaned
<1>8. t.large => Valid(cleaned)
  BY <1>3, <1>5, <1>6, <1>7 DEF Valid
<1>9. ~t.large => Valid(cleaned)
  <2>1. Cardinality(Present(cleaned)) <= Cardinality(Present(t))
    BY <1>7, FiniteTorrent, FS_Subset
  <2> QED BY <1>6, <2>1, FiniteTorrent, HttpSwarmAssumption DEF Valid, n
<1> QED BY <1>0, <1>6, <1>7, <1>8, <1>9

\* Time passes.
Aged(t) ==
    [t EXCEPT !.peers = [k \in Keys |-> IF t.peers[k] = NoPeer THEN NoPeer
                         ELSE [t.peers[k] EXCEPT !.valid_until = Left(@)]]]

LEMMA AgedValid ==
    ASSUME NEW t, Valid(t)
    PROVE  /\ Valid(Aged(t)) /\ Present(Aged(t)) = Present(t)
           /\ Seeders(Aged(t)) = Seeders(t)
           /\ Aged(t).completed_count = t.completed_count
<1> DEFINE peers == [k \in Keys |-> IF t.peers[k] = NoPeer THEN NoPeer
                     ELSE [t.peers[k] EXCEPT !.valid_until = Left(@)]]
           aged == [t EXCEPT !.peers = peers]
<1>0. Aged(t) = aged
  BY DEF Aged
<1>1. t \in TorrentData
  BY DEF Valid
<1>2. \A p \in Peer : /\ [p EXCEPT !.valid_until = Left(p.valid_until)] \in Peer
                      /\ [p EXCEPT !.valid_until = Left(p.valid_until)].is_seeder = p.is_seeder
  BY HttpSwarmAssumption DEF Peer, Left
<1>3. \A k \in Keys : /\ peers[k] \in Peer \cup {NoPeer}
                      /\ peers[k] = NoPeer <=> t.peers[k] = NoPeer
                      /\ peers[k] # NoPeer => peers[k].is_seeder = t.peers[k].is_seeder
  <2> TAKE k \in Keys
  <2>1. t.peers[k] \in Peer \cup {NoPeer}
    BY <1>1 DEF TorrentData
  <2> QED BY <1>2, <2>1, HttpSwarmAssumption
<1>4. peers \in [Keys -> Peer \cup {NoPeer}]
  BY <1>3
<1> HIDE DEF peers
<1>5. /\ aged \in TorrentData /\ aged.large = t.large /\ aged.num_seeders = t.num_seeders
      /\ aged.peers = peers /\ aged.completed_count = t.completed_count
  BY <1>1, <1>4 DEF TorrentData
<1> HIDE DEF aged
<1>6. Present(aged) = Present(t) /\ Seeders(aged) = Seeders(t)
  BY <1>3, <1>5 DEF Present, Seeders
<1> QED BY <1>0, <1>5, <1>6 DEF Valid

----------------------------------------------------------------------------
(***************************************************************************)
(* The worker                                                              *)
(***************************************************************************)
\* A stored torrent is valid, and its peers are of the map's family.
ValidIn(f, t) == Valid(t) /\ \A k \in Present(t) : family_of[k] = f

TorrentsValid ==
    \A f \in Families, h \in InfoHashes :
        torrents[f][h] # NoTorrent => ValidIn(f, torrents[f][h])

\* Cleaning has yet to look at torrents that are stored.
UnvisitedStored ==
    \A f \in Families, h \in InfoHashes : <<f, h>> \in unvisited => torrents[f][h] # NoTorrent

\* The peers of a family that cleaning has seen and kept.
Counted(f) == {e \in Stored(f, torrents) : <<f, e[1]>> \notin unvisited}

\* While it cleans a family, the total is the number of these.
TotalExact ==
    \A f \in Families :
        (\E h \in InfoHashes : <<f, h>> \in unvisited) =>
            total_num_peers[f] = Cardinality(Counted(f))

SwarmInv == TypeOK /\ TorrentsValid /\ PeerGaugeExact /\ UnvisitedStored /\ TotalExact

\* Between cleanings nothing is left to visit.
LEMMA NotCleaning ==
    ASSUME unvisited = {}
    PROVE  UnvisitedStored /\ TotalExact
BY DEF UnvisitedStored, TotalExact

\* What an operation finds in the map, or puts there.
LEMMA EntryValid ==
    ASSUME TorrentsValid, NEW f \in Families, NEW h \in InfoHashes
    PROVE  ValidIn(f, entry(f, h))
BY DefaultValid DEF TorrentsValid, ValidIn, entry

\* The stored peers of a family.
LEMMA StoredFinite ==
    ASSUME NEW f, NEW ts
    PROVE  IsFiniteSet(Stored(f, ts)) /\ Cardinality(Stored(f, ts)) \in Nat
<1>1. IsFiniteSet(InfoHashes \X Keys)
  BY HttpSwarmAssumption, FS_Product
<1>2. Stored(f, ts) \subseteq InfoHashes \X Keys
  BY DEF Stored
<1>3. IsFiniteSet(Stored(f, ts))
  BY <1>1, <1>2, FS_Subset
<1> QED BY <1>3, FS_CardinalityType

LEMMA InitInv == ASSUME Init PROVE SwarmInv
<1>1. TypeOK /\ TorrentsValid
  BY HttpSwarmAssumption DEF Init, TypeOK, TorrentsValid
<1>2. \A f \in Families : Stored(f, torrents) = {}
  BY DEF Init, Stored
<1>3. PeerGaugeExact
  BY <1>2, FS_EmptySet DEF Init, PeerGaugeExact
<1>4. UnvisitedStored /\ TotalExact
  BY NotCleaning DEF Init
<1> QED BY <1>1, <1>3, <1>4 DEF SwarmInv

LEMMA AnnounceStep ==
    ASSUME SwarmInv, NEW h \in InfoHashes, NEW k \in Keys, NEW event, NEW bytes_left,
           NEW want, handle_announce_request(h, k, event, bytes_left, want)
    PROVE  SwarmInv'
<1> DEFINE f == family_of[k]
           t == entry(f, h)
           u == upsert_peer(t, k, event, bytes_left)
<1>1. f \in Families
  BY HttpSwarmAssumption
<1>2. /\ torrents' = [torrents EXCEPT ![f][h] = u]
      /\ peer_gauge' = [peer_gauge EXCEPT ![f] = @ + gauge_change(t, k, event)]
      /\ peer_valid_until' = peer_valid_until /\ access_list' = access_list
      /\ unvisited = {} /\ unvisited' = {} /\ total_num_peers' = total_num_peers
  BY DEF handle_announce_request, cleaning
<1>3. /\ torrents \in [Families -> [InfoHashes -> TorrentData \cup {NoTorrent}]]
      /\ peer_gauge \in [Families -> Int] /\ peer_valid_until \in 0 .. max_peer_age
      /\ access_list \subseteq InfoHashes /\ total_num_peers \in [Families -> Nat]
  BY DEF SwarmInv, TypeOK
<1>4. ValidIn(f, t)
  BY <1>1, EntryValid DEF SwarmInv
<1>5. /\ Valid(u)
      /\ Present(u) = IF event = "stopped" THEN Present(t) \ {k} ELSE Present(t) \cup {k}
  <2>1. Valid(t) /\ peer_valid_until \in 0 .. max_peer_age
    BY <1>3, <1>4 DEF ValidIn
  <2> HIDE DEF t
  <2> QED BY <2>1, UpsertValid
<1>6. ValidIn(f, u) /\ u \in TorrentData
  BY <1>4, <1>5 DEF ValidIn, Valid
<1>7. gauge_change(t, k, event) \in Int
  BY DEF gauge_change
<1> HIDE DEF u, f, t
<1>8. TypeOK'
  BY <1>1, <1>2, <1>3, <1>6, <1>7 DEF TypeOK
<1>9. \A g \in Families, i \in InfoHashes :
         torrents'[g][i] = IF g = f /\ i = h THEN u ELSE torrents[g][i]
  BY <1>1, <1>2, <1>3
<1>10. TorrentsValid'
  BY <1>6, <1>9 DEF SwarmInv, TorrentsValid
<1>11. \A g \in Families : g # f => Stored(g, torrents') = Stored(g, torrents)
  BY <1>9 DEF Stored
<1>12. u # NoTorrent
  BY <1>6, HttpSwarmAssumption
<1>13. \A x \in Keys : x \in Present(t) <=> <<h, x>> \in Stored(f, torrents)
  <2>1. CASE torrents[f][h] = NoTorrent
    BY <2>1, DefaultValid DEF t, entry, Stored
  <2>2. CASE torrents[f][h] # NoTorrent
    BY <2>2 DEF t, entry, Stored
  <2> QED BY <2>1, <2>2
<1>14. Stored(f, torrents') = IF event = "stopped" THEN Stored(f, torrents) \ {<<h, k>>}
                              ELSE Stored(f, torrents) \cup {<<h, k>>}
  <2> DEFINE S == Stored(f, torrents)
             T == IF event = "stopped" THEN S \ {<<h, k>>} ELSE S \cup {<<h, k>>}
  <2>1. ASSUME NEW i \in InfoHashes, NEW x \in Keys
        PROVE  <<i, x>> \in Stored(f, torrents') <=> <<i, x>> \in T
    <3>1. CASE i = h
      <4>1. <<i, x>> \in Stored(f, torrents') <=> x \in Present(u)
        BY <1>1, <1>9, <1>12, <3>1 DEF Stored
      <4>2. x \in Present(t) <=> <<i, x>> \in S
        BY <1>13, <3>1
      <4>3. <<i, x>> = <<h, k>> <=> x = k
        BY <3>1
      <4> QED BY <1>5, <4>1, <4>2, <4>3
    <3>2. CASE i # h
      <4>1. <<i, x>> \in Stored(f, torrents') <=> <<i, x>> \in S
        BY <1>1, <1>9, <3>2 DEF Stored
      <4> QED BY <3>2, <4>1
    <3> QED BY <3>1, <3>2
  <2>2. Stored(f, torrents') \subseteq InfoHashes \X Keys /\ T \subseteq InfoHashes \X Keys
    BY DEF Stored
  <2> HIDE DEF T
  <2>3. Stored(f, torrents') = T
    BY <2>1, <2>2
  <2> QED BY <2>3 DEF T
<1>15. Cardinality(Stored(f, torrents')) =
          Cardinality(Stored(f, torrents)) + gauge_change(t, k, event)
  <2> DEFINE S == Stored(f, torrents)
             e == <<h, k>>
  <2>1. IsFiniteSet(S) /\ Cardinality(S) \in Nat /\ (k \in Present(t) <=> e \in S)
    BY <1>13, StoredFinite
  <2> HIDE DEF S, e
  <2>2. Cardinality(S \ {e}) = IF e \in S THEN Cardinality(S) - 1 ELSE Cardinality(S)
    BY <2>1, FS_RemoveElement
  <2>3. Cardinality(S \cup {e}) = IF e \in S THEN Cardinality(S) ELSE Cardinality(S) + 1
    BY <2>1, FS_AddElement
  <2>4. Stored(f, torrents') = IF event = "stopped" THEN S \ {e} ELSE S \cup {e}
    BY <1>14 DEF S, e
  <2>5. Cardinality(Stored(f, torrents')) = Cardinality(S) + gauge_change(t, k, event)
    <3>1. CASE event = "stopped"
      BY <2>1, <2>2, <2>4, <3>1 DEF gauge_change
    <3>2. CASE event # "stopped"
      BY <2>1, <2>3, <2>4, <3>2 DEF gauge_change
    <3> QED BY <3>1, <3>2
  <2> QED BY <2>5 DEF S
<1>16. PeerGaugeExact'
  <2> SUFFICES ASSUME NEW g \in Families
               PROVE  peer_gauge'[g] = Cardinality(Stored(g, torrents'))
    BY DEF PeerGaugeExact
  <2>1. peer_gauge[g] = Cardinality(Stored(g, torrents))
    BY <1>2 DEF SwarmInv, PeerGaugeExact
  <2>2. peer_gauge'[g] = IF g = f THEN peer_gauge[g] + gauge_change(t, k, event)
                         ELSE peer_gauge[g]
    BY <1>1, <1>2, <1>3
  <2> QED BY <1>11, <1>15, <2>1, <2>2
<1>17. UnvisitedStored' /\ TotalExact'
  BY <1>2 DEF UnvisitedStored, TotalExact
<1> QED BY <1>8, <1>10, <1>16, <1>17 DEF SwarmInv

\* A cleaning begins.
LEMMA CleanStep ==
    ASSUME SwarmInv, clean
    PROVE  SwarmInv'
<1>1. /\ torrents' = torrents /\ peer_valid_until' = peer_valid_until
      /\ access_list' = access_list /\ total_num_peers' = [f \in Families |-> 0]
      /\ unvisited' = {e \in Families \X InfoHashes : torrents[e[1]][e[2]] # NoTorrent}
      /\ peer_gauge' = [f \in Families |->
            IF \A h \in InfoHashes : torrents[f][h] = NoTorrent THEN 0 ELSE peer_gauge[f]]
  BY DEF clean
<1>2. \A f \in Families, h \in InfoHashes : <<f, h>> \in unvisited' <=> torrents[f][h] # NoTorrent
  BY <1>1
<1>3. TypeOK'
  BY <1>1 DEF SwarmInv, TypeOK
<1>4. TorrentsValid'
  BY <1>1 DEF SwarmInv, TorrentsValid
<1>5. UnvisitedStored'
  BY <1>1, <1>2 DEF UnvisitedStored
<1>6. PeerGaugeExact'
  <2> SUFFICES ASSUME NEW f \in Families, \A h \in InfoHashes : <<f, h>> \notin unvisited'
               PROVE  peer_gauge'[f] = Cardinality(Stored(f, torrents'))
    BY DEF PeerGaugeExact
  <2>1. \A h \in InfoHashes : torrents[f][h] = NoTorrent
    BY <1>2
  <2>2. Stored(f, torrents') = {}
    BY <1>1, <2>1 DEF Stored
  <2>3. peer_gauge'[f] = 0
    BY <1>1, <2>1
  <2> QED BY <2>2, <2>3, FS_EmptySet
<1>7. TotalExact'
  <2> SUFFICES ASSUME NEW f \in Families
               PROVE  total_num_peers'[f] = Cardinality(Counted(f)')
    BY DEF TotalExact
  <2>1. Counted(f)' = {}
    BY <1>1, <1>2 DEF Counted, Stored
  <2> QED BY <1>1, <2>1, FS_EmptySet
<1> QED BY <1>3, <1>4, <1>5, <1>6, <1>7 DEF SwarmInv

\* A torrent of a cleaning is kept with its remaining peers, or dropped when
\* it has none.
LEMMA RetainTorrent ==
    ASSUME SwarmInv, NEW f \in Families, NEW h \in InfoHashes, retain(f, h)
    PROVE  /\ ValidIn(f, torrents[f][h])
           /\ \A g \in Families, i \in InfoHashes :
                 ~(g = f /\ i = h) => torrents'[g][i] = torrents[g][i]
           /\ torrents'[f][h] # NoTorrent => /\ ValidIn(f, torrents'[f][h])
                                             /\ Present(torrents'[f][h]) = remaining(f, h)
                                             /\ Seeders(torrents'[f][h]) =
                                                   Seeders(torrents[f][h]) \ Expired(torrents[f][h])
                                             /\ torrents'[f][h].completed_count =
                                                   torrents[f][h].completed_count
           /\ torrents'[f][h] = NoTorrent => remaining(f, h) = {}
           /\ torrents' \in [Families -> [InfoHashes -> TorrentData \cup {NoTorrent}]]
<1> DEFINE t == torrents[f][h]
           u == clean_and_get_num_peers(t)
           new == IF Dropped(f, h) THEN NoTorrent ELSE u
<1>1. /\ torrents \in [Families -> [InfoHashes -> TorrentData \cup {NoTorrent}]]
      /\ torrents' = [torrents EXCEPT ![f][h] = new]
  BY DEF SwarmInv, TypeOK, retain
<1>2. ValidIn(f, t)
  BY DEF retain, SwarmInv, UnvisitedStored, TorrentsValid
<1>3. /\ Valid(u) /\ Present(u) = Present(t) \ Expired(t)
      /\ Seeders(u) = Seeders(t) \ Expired(t) /\ u.completed_count = t.completed_count
  BY <1>2, CleanValid DEF ValidIn
<1>4. u \in TorrentData /\ u # NoTorrent
  BY <1>3, HttpSwarmAssumption DEF Valid
<1>5. ValidIn(f, u)
  BY <1>2, <1>3 DEF ValidIn
<1>6. ~Dropped(f, h) => remaining(f, h) = Present(t) \ Expired(t)
  BY DEF Dropped, remaining
<1>7. Dropped(f, h) => remaining(f, h) = {}
  BY DEF Dropped
<1> HIDE DEF u, t
<1>8. new \in TorrentData \cup {NoTorrent}
  BY <1>4
<1>9. new # NoTorrent => new = u /\ remaining(f, h) = Present(u)
  BY <1>3, <1>6
<1>10. new = NoTorrent => remaining(f, h) = {}
  BY <1>4, <1>7
<1> HIDE DEF new
<1>11. /\ torrents'[f][h] = new
       /\ \A g \in Families, i \in InfoHashes :
             ~(g = f /\ i = h) => torrents'[g][i] = torrents[g][i]
       /\ torrents' \in [Families -> [InfoHashes -> TorrentData \cup {NoTorrent}]]
  BY <1>1, <1>8
<1> QED BY <1>2, <1>3, <1>5, <1>9, <1>10, <1>11 DEF t

\* Pairs with the same first component are as many as the second ones.
LEMMA PairsCard ==
    ASSUME NEW h, NEW R, IsFiniteSet(R)
    PROVE  IsFiniteSet({h} \X R) /\ Cardinality({h} \X R) = Cardinality(R)
<1>1. IsFiniteSet({h}) /\ Cardinality({h}) = 1
  BY FS_Singleton
<1>2. IsFiniteSet({h} \X R) /\ Cardinality({h} \X R) = Cardinality({h}) * Cardinality(R)
  BY <1>1, FS_Product
<1> QED BY <1>1, <1>2, FS_CardinalityType

\* One torrent of a cleaning.
LEMMA RetainStep ==
    ASSUME SwarmInv, NEW f \in Families, NEW h \in InfoHashes, retain(f, h)
    PROVE  SwarmInv'
<1> DEFINE R == remaining(f, h)
           C == Counted(f)
           total == total_num_peers[f] + Cardinality(R)
           last == \A i \in InfoHashes : <<f, i>> \in unvisited => i = h
<1>1. /\ <<f, h>> \in unvisited /\ unvisited' = unvisited \ {<<f, h>>}
      /\ total_num_peers' = [total_num_peers EXCEPT ![f] = IF last THEN 0 ELSE total]
      /\ peer_gauge' = IF last THEN [peer_gauge EXCEPT ![f] = total] ELSE peer_gauge
      /\ peer_valid_until' = peer_valid_until /\ access_list' = access_list
  BY DEF retain
<1>2. /\ peer_gauge \in [Families -> Int] /\ total_num_peers \in [Families -> Nat]
      /\ unvisited \subseteq Families \X InfoHashes
      /\ peer_valid_until \in 0 .. max_peer_age /\ access_list \subseteq InfoHashes
  BY DEF SwarmInv, TypeOK
<1>3. /\ \A g \in Families, i \in InfoHashes :
            ~(g = f /\ i = h) => torrents'[g][i] = torrents[g][i]
      /\ torrents'[f][h] # NoTorrent => /\ ValidIn(f, torrents'[f][h])
                                        /\ Present(torrents'[f][h]) = R
      /\ torrents'[f][h] = NoTorrent => R = {}
      /\ torrents' \in [Families -> [InfoHashes -> TorrentData \cup {NoTorrent}]]
  BY RetainTorrent
<1>4. R \subseteq Keys /\ IsFiniteSet(R) /\ Cardinality(R) \in Nat
  <2>1. R \subseteq Keys
    BY DEF remaining, Present
  <2> QED BY <2>1, HttpSwarmAssumption, FS_Subset, FS_CardinalityType
<1>5. total_num_peers[f] = Cardinality(C) /\ IsFiniteSet(C)
  <2>1. total_num_peers[f] = Cardinality(C)
    BY <1>1 DEF SwarmInv, TotalExact
  <2>2. C \subseteq Stored(f, torrents)
    BY DEF Counted
  <2> QED BY <2>1, <2>2, StoredFinite, FS_Subset
<1>6. \A i \in InfoHashes, x \in Keys :
         <<i, x>> \in Stored(f, torrents') <=>
            IF i = h THEN x \in R ELSE <<i, x>> \in Stored(f, torrents)
  <2> SUFFICES ASSUME NEW i \in InfoHashes, NEW x \in Keys
               PROVE  <<i, x>> \in Stored(f, torrents') <=>
                         IF i = h THEN x \in R ELSE <<i, x>> \in Stored(f, torrents)
    OBVIOUS
  <2> HIDE DEF R
  <2>1. CASE i = h
    BY <1>3, <2>1 DEF Stored
  <2>2. CASE i # h
    BY <1>3, <2>2 DEF Stored
  <2> QED BY <2>1, <2>2
<1> DEFINE N == C \cup ({h} \X R)
<1>7. IsFiniteSet(N) /\ Cardinality(N) = total
  <2> HIDE DEF R
  <2>1. C \cap ({h} \X R) = {}
    BY <1>1 DEF Counted
  <2>2. IsFiniteSet({h} \X R) /\ Cardinality({h} \X R) = Cardinality(R)
    BY <1>4, PairsCard
  <2>3. IsFiniteSet(N) /\ Cardinality(N) = Cardinality(C) + Cardinality({h} \X R)
    <3> DEFINE P == {h} \X R
    <3>1. N = C \cup P /\ C \cap P = {} /\ IsFiniteSet(C) /\ IsFiniteSet(P)
      BY <1>5, <2>1, <2>2
    <3> HIDE DEF C, P, N
    <3>2. /\ IsFiniteSet(C \cup P)
          /\ Cardinality(C \cup P) = Cardinality(C) + Cardinality(P) - Cardinality(C \cap P)
      BY <3>1, FS_Union
    <3>3. /\ Cardinality(C) \in Nat /\ Cardinality(P) \in Nat
          /\ Cardinality(C \cap P) = 0
      BY <3>1, FS_CardinalityType, FS_EmptySet
    <3>4. IsFiniteSet(N) /\ Cardinality(N) = Cardinality(C) + Cardinality(P)
      BY <3>1, <3>2, <3>3
    <3> QED BY <3>4 DEF P
  <2> QED BY <1>5, <2>2, <2>3
<1>8. \A i \in InfoHashes, x \in Keys :
         <<i, x>> \in Counted(f)' <=> <<i, x>> \in N
  <2> SUFFICES ASSUME NEW i \in InfoHashes, NEW x \in Keys
               PROVE  <<i, x>> \in Counted(f)' <=> <<i, x>> \in N
    OBVIOUS
  <2>1. <<i, x>> \in Counted(f)' <=> <<i, x>> \in Stored(f, torrents') /\ <<f, i>> \notin unvisited'
    BY DEF Counted
  <2>2. <<i, x>> \in C <=> <<i, x>> \in Stored(f, torrents) /\ <<f, i>> \notin unvisited
    BY DEF Counted
  <2> HIDE DEF R, C
  <2>3. CASE i = h
    <3>1. <<f, i>> \notin unvisited' /\ <<f, i>> \in unvisited
      BY <1>1, <2>3
    <3>2. <<i, x>> \in {h} \X R <=> x \in R
      BY <2>3
    <3> QED BY <1>6, <2>1, <2>2, <2>3, <3>1, <3>2
  <2>4. CASE i # h
    <3>1. <<f, i>> \in unvisited' <=> <<f, i>> \in unvisited
      BY <1>1, <2>4
    <3>2. <<i, x>> \notin {h} \X R
      BY <2>4
    <3> QED BY <1>6, <2>1, <2>2, <2>4, <3>1, <3>2
  <2> QED BY <2>3, <2>4
<1>9. Counted(f)' = N
  <2>1. Counted(f)' \subseteq InfoHashes \X Keys
    BY DEF Counted, Stored
  <2>2. N \subseteq InfoHashes \X Keys
    BY <1>4 DEF Counted, Stored
  <2> HIDE DEF N
  <2> QED BY <1>8, <2>1, <2>2
<1>10. \A g \in Families : g # f =>
          /\ Stored(g, torrents') = Stored(g, torrents) /\ Counted(g)' = Counted(g)
          /\ \A i \in InfoHashes : <<g, i>> \in unvisited' <=> <<g, i>> \in unvisited
  <2> SUFFICES ASSUME NEW g \in Families, g # f
               PROVE  /\ Stored(g, torrents') = Stored(g, torrents) /\ Counted(g)' = Counted(g)
                      /\ \A i \in InfoHashes : <<g, i>> \in unvisited' <=> <<g, i>> \in unvisited
    OBVIOUS
  <2>1. Stored(g, torrents') = Stored(g, torrents)
    BY <1>3 DEF Stored
  <2>2. \A i : <<g, i>> \in unvisited' <=> <<g, i>> \in unvisited
    BY <1>1
  <2> QED BY <2>1, <2>2 DEF Counted
<1>11. total \in Nat
  BY <1>2, <1>4
<1> HIDE DEF R, C, N, total
<1>12. TypeOK'
  BY <1>1, <1>2, <1>3, <1>11 DEF TypeOK
<1>13. TorrentsValid' /\ UnvisitedStored'
  BY <1>1, <1>2, <1>3 DEF SwarmInv, TorrentsValid, UnvisitedStored
<1>14. TotalExact'
  <2> SUFFICES ASSUME NEW g \in Families, NEW i \in InfoHashes, <<g, i>> \in unvisited'
               PROVE  total_num_peers'[g] = Cardinality(Counted(g)')
    BY DEF TotalExact
  <2>1. CASE g = f
    <3>1. ~last
      BY <1>1, <2>1
    <3>2. total_num_peers'[f] = total
      BY <1>1, <1>2, <3>1
    <3> QED BY <1>7, <1>9, <2>1, <3>2
  <2>2. CASE g # f
    <3>1. <<g, i>> \in unvisited /\ total_num_peers'[g] = total_num_peers[g]
      BY <1>1, <1>2, <2>2
    <3>2. total_num_peers[g] = Cardinality(Counted(g))
      BY <3>1 DEF SwarmInv, TotalExact
    <3> QED BY <1>10, <2>2, <3>1, <3>2
  <2> QED BY <2>1, <2>2
<1>15. PeerGaugeExact'
  <2> SUFFICES ASSUME NEW g \in Families, \A i \in InfoHashes : <<g, i>> \notin unvisited'
               PROVE  peer_gauge'[g] = Cardinality(Stored(g, torrents'))
    BY DEF PeerGaugeExact
  <2>1. CASE g = f
    <3>1. last
      BY <1>1, <2>1
    <3>2. peer_gauge'[f] = total
      BY <1>1, <1>2, <3>1
    <3>3. Counted(f)' = Stored(f, torrents')
      BY <2>1 DEF Counted, Stored
    <3> QED BY <1>7, <1>9, <2>1, <3>2, <3>3
  <2>2. CASE g # f
    <3>1. peer_gauge'[g] = peer_gauge[g]
      BY <1>1, <1>2, <2>2
    <3>2. peer_gauge[g] = Cardinality(Stored(g, torrents))
      BY <1>10, <2>2 DEF SwarmInv, PeerGaugeExact
    <3> QED BY <1>10, <2>2, <3>1, <3>2
  <2> QED BY <2>1, <2>2
<1> QED BY <1>12, <1>13, <1>14, <1>15 DEF SwarmInv

LEMMA TickStep ==
    ASSUME SwarmInv, Tick
    PROVE  SwarmInv'
<1>1. \A f \in Families, h \in InfoHashes :
         torrents'[f][h] = IF torrents[f][h] = NoTorrent THEN NoTorrent ELSE Aged(torrents[f][h])
  BY DEF Tick, Aged
<1>2. \A f \in Families, h \in InfoHashes :
         /\ torrents'[f][h] = NoTorrent <=> torrents[f][h] = NoTorrent
         /\ torrents[f][h] # NoTorrent =>
               /\ ValidIn(f, torrents'[f][h])
               /\ Present(torrents'[f][h]) = Present(torrents[f][h])
  <2> TAKE f \in Families, h \in InfoHashes
  <2>1. CASE torrents[f][h] = NoTorrent
    BY <1>1, <2>1
  <2>2. CASE torrents[f][h] # NoTorrent
    <3>1. ValidIn(f, torrents[f][h]) /\ torrents'[f][h] = Aged(torrents[f][h])
      BY <1>1, <2>2 DEF SwarmInv, TorrentsValid
    <3>2. ValidIn(f, torrents'[f][h]) /\ Present(torrents'[f][h]) = Present(torrents[f][h])
      BY <3>1, AgedValid DEF ValidIn
    <3>3. torrents'[f][h] # NoTorrent
      BY <3>2, HttpSwarmAssumption DEF ValidIn, Valid
    <3> QED BY <2>2, <3>2, <3>3
  <2> QED BY <2>1, <2>2
<1>3. torrents' \in [Families -> [InfoHashes -> TorrentData \cup {NoTorrent}]]
  <2>1. torrents' = [f \in Families |-> [h \in InfoHashes |-> torrents'[f][h]]]
    BY DEF Tick
  <2>2. \A f \in Families, h \in InfoHashes : torrents'[f][h] \in TorrentData \cup {NoTorrent}
    BY <1>2 DEF ValidIn, Valid
  <2> QED BY <2>1, <2>2
<1>4. \A f \in Families : Stored(f, torrents') = Stored(f, torrents)
  BY <1>2 DEF Stored
<1>5. PeerGaugeExact'
  BY <1>4 DEF Tick, cleaning, SwarmInv, PeerGaugeExact
<1>6. /\ peer_valid_until' \in 0 .. max_peer_age /\ peer_gauge' = peer_gauge
      /\ access_list' = access_list /\ total_num_peers' = total_num_peers
      /\ unvisited = {} /\ unvisited' = {}
  BY HttpSwarmAssumption DEF Tick, cleaning, SwarmInv, TypeOK, Left
<1>7. UnvisitedStored' /\ TotalExact'
  BY <1>6 DEF UnvisitedStored, TotalExact
<1> QED BY <1>2, <1>3, <1>5, <1>6, <1>7 DEF SwarmInv, TypeOK, TorrentsValid

LEMMA SwarmStep == ASSUME SwarmInv, [Next]_vars PROVE SwarmInv'
<1>1. ASSUME UNCHANGED <<torrents, peer_gauge, cleaning>>,
             peer_valid_until' \in 0 .. max_peer_age, access_list' \subseteq InfoHashes
      PROVE  SwarmInv'
  <2>1. TypeOK'
    BY <1>1 DEF SwarmInv, TypeOK, cleaning
  <2>2. TorrentsValid' /\ PeerGaugeExact'
    BY <1>1 DEF SwarmInv, TorrentsValid, PeerGaugeExact, cleaning
  <2>3. UnvisitedStored' /\ TotalExact'
    BY <1>1 DEF SwarmInv, UnvisitedStored, TotalExact, Counted, cleaning
  <2> QED BY <2>1, <2>2, <2>3 DEF SwarmInv
<1>2. ASSUME NEW h \in InfoHashes, NEW k \in Keys, NEW want \in Wants, NEW event, NEW bytes_left,
             handle_announce_request(h, k, event, bytes_left, want)
      PROVE  SwarmInv'
  BY <1>2, AnnounceStep
<1>3. ASSUME NEW f \in Families, NEW request \in ScrapeRequests, handle_scrape_request(f, request)
      PROVE  SwarmInv'
  BY <1>1, <1>3 DEF handle_scrape_request, SwarmInv, TypeOK
<1>4. CASE clean
  BY <1>4, CleanStep
<1>a. ASSUME NEW f \in Families, NEW h \in InfoHashes, retain(f, h) PROVE SwarmInv'
  BY <1>a, RetainStep
<1>b. ASSUME NEW list \in SUBSET InfoHashes, update_access_list(list) PROVE SwarmInv'
  BY <1>1, <1>b DEF update_access_list, SwarmInv, TypeOK
<1>5. CASE update_peer_valid_until
  BY <1>1, <1>5, HttpSwarmAssumption DEF update_peer_valid_until, SwarmInv, TypeOK
<1>6. CASE Tick
  BY <1>6, TickStep
<1>7. CASE UNCHANGED vars
  BY <1>1, <1>7 DEF vars, SwarmInv, TypeOK
<1> QED BY <1>2, <1>3, <1>4, <1>a, <1>b, <1>5, <1>6, <1>7 DEF Next

LEMMA SwarmInvariant == Spec => []SwarmInv
<1>1. Init => SwarmInv
  BY InitInv
<1>2. SwarmInv /\ [Next]_vars => SwarmInv'
  BY SwarmStep
<1> QED BY <1>1, <1>2, PTL DEF Spec

----------------------------------------------------------------------------
(***************************************************************************)
(* The theorems                                                            *)
(***************************************************************************)
THEOREM HttpSwarmTypeCorrect == Spec => []TypeOK
<1>1. SwarmInv => TypeOK
  BY DEF SwarmInv
<1> QED BY <1>1, SwarmInvariant, PTL

\* upsert_peer: no announce pushes a peer into a small map that is full.
THEOREM HttpSwarmSmallMapFits == Spec => []SmallMapFits
<1>1. SwarmInv => SmallMapFits
  BY DEF SwarmInv, TorrentsValid, ValidIn, SmallMapFits, Valid
<1> QED BY <1>1, SwarmInvariant, PTL

\* The peer gauge of each family is exact whenever its map is not being
\* cleaned, however many torrents the total is added up from.
THEOREM HttpSwarmPeerGaugeExact == Spec => []PeerGaugeExact
<1>1. SwarmInv => PeerGaugeExact
  BY DEF SwarmInv
<1> QED BY <1>1, SwarmInvariant, PTL

\* extract_response_peers: for every announce there is an answer, whatever
\* the size of the map and the limits.
THEOREM HttpSwarmEveryAnnounceAnswered == Spec => []EveryAnnounceAnswered
<1>1. SwarmInv => EveryAnnounceAnswered
  <2> SUFFICES ASSUME SwarmInv, NEW h \in InfoHashes, NEW k \in Keys, NEW want \in Wants
               PROVE  response_peers(remove_peer(entry(family_of[k], h), k),
                                     num_to_take(want)) # {}
    BY DEF EveryAnnounceAnswered
  <2> DEFINE t == remove_peer(entry(family_of[k], h), k)
             S == Present(t)
             max == num_to_take(want)
  <2>1. max \in Nat
    BY HttpSwarmAssumption DEF num_to_take
  <2>2. Valid(t)
    BY HttpSwarmAssumption, EntryValid, RemoveValid DEF SwarmInv, ValidIn
  <2>3. t.large \in BOOLEAN
    BY <2>2 DEF Valid, TorrentData
  <2> HIDE DEF t, max
  <2>4. IsFiniteSet(S) /\ Cardinality(S) \in Nat
    BY FiniteTorrent
  <2> HIDE DEF S
  <2>5. PICK order : order \in Orders(S)
    <3>1. ExistsBijection(1 .. Cardinality(S), S)
      BY <2>4, FS_CardinalityType
    <3>2. PICK order : order \in Bijection(1 .. Cardinality(S), S)
      BY <3>1 DEF ExistsBijection
    <3> QED BY <3>2 DEF Bijection, Injection, IsInjective, Orders
  <2>6. Len(order) \in Nat
    BY <2>4, <2>5, OrderProperties
  <2>7. extract_response_peers(t.large, order, max) # {}
    BY <2>1, <2>3, <2>6, ExtractNonEmpty
  <2>8. response_peers(t, max) # {}
    BY <2>5, <2>7 DEF response_peers, S
  <2> QED BY <2>8 DEF t, max
<1> QED BY <1>1, SwarmInvariant, PTL

\* clean: a peer whose time is not over leaves only by its own announce, or
\* with a torrent that the list in force at that step forbids, whatever lists
\* are stored while the maps are cleaned.
THEOREM HttpSwarmLivePeerKept == Spec => LivePeerKept
<1> DEFINE Kept(f, h, k) ==
        torrents[f][h] # NoTorrent =>
             \/ torrents[f][h].peers[k] = NoPeer
             \/ torrents[f][h].peers[k].valid_until = 0
             \/ torrents'[f][h] # NoTorrent /\ k \in Present(torrents'[f][h])
             \/ \E want \in Wants : handle_announce_request(h, k, "stopped", 0, want)
             \/ h \notin access_list
<1>1. ASSUME SwarmInv, SwarmInv', [Next]_vars
      PROVE  \A f \in Families, h \in InfoHashes, k \in Keys : Kept(f, h, k)
  <2> SUFFICES ASSUME NEW f \in Families, NEW h \in InfoHashes, NEW k \in Keys,
                      torrents[f][h] # NoTorrent, k \in Present(torrents[f][h]),
                      torrents[f][h].peers[k].valid_until # 0
               PROVE  Kept(f, h, k)
    BY DEF Present
  <2>1. Valid(torrents[f][h])
    BY <1>1 DEF SwarmInv, TorrentsValid, ValidIn
  <2>2. torrents \in [Families -> [InfoHashes -> TorrentData \cup {NoTorrent}]]
    BY <1>1 DEF SwarmInv, TypeOK
  <2>3. ASSUME torrents'[f][h] = torrents[f][h] PROVE Kept(f, h, k)
    BY <2>3
  <2>4. ASSUME NEW i \in InfoHashes, NEW x \in Keys, NEW want \in Wants, NEW event, NEW bytes_left,
               handle_announce_request(i, x, event, bytes_left, want),
               event = "stopped" => bytes_left = 0
        PROVE  Kept(f, h, k)
    <3> DEFINE t == torrents[f][h]
               u == upsert_peer(t, x, event, bytes_left)
    <3>1. torrents' = [torrents EXCEPT ![family_of[x]][i] =
                         upsert_peer(entry(family_of[x], i), x, event, bytes_left)]
      BY <2>4 DEF handle_announce_request
    <3>2. CASE family_of[x] = f /\ i = h
      <4>1. torrents'[f][h] = u
        BY <2>2, <3>1, <3>2 DEF entry
      <4>2. peer_valid_until \in 0 .. max_peer_age
        BY <1>1 DEF SwarmInv, TypeOK
      <4> HIDE DEF t
      <4>3. Valid(t) /\ k \in Present(t)
        BY <2>1 DEF t
      <4>4. /\ Valid(u)
            /\ Present(u) = IF event = "stopped" THEN Present(t) \ {x} ELSE Present(t) \cup {x}
        BY <4>2, <4>3, UpsertValid
      <4>5. u # NoTorrent
        BY <4>4, HttpSwarmAssumption DEF Valid
      <4> HIDE DEF u
      <4>6. CASE event = "stopped" /\ x = k
        BY <2>4, <3>2, <4>6
      <4>7. CASE ~(event = "stopped" /\ x = k)
        BY <4>1, <4>3, <4>4, <4>5, <4>7
      <4> QED BY <4>6, <4>7
    <3>3. CASE ~(family_of[x] = f /\ i = h)
      BY <2>2, <2>3, <3>1, <3>3
    <3> QED BY <3>2, <3>3
  <2>5. ASSUME NEW g \in Families, NEW i \in InfoHashes, retain(g, i) PROVE Kept(f, h, k)
    <3> DEFINE t == torrents[f][h]
               u == clean_and_get_num_peers(t)
    <3>1. torrents' = [torrents EXCEPT ![g][i] =
             IF Dropped(g, i) THEN NoTorrent ELSE clean_and_get_num_peers(torrents[g][i])]
      BY <2>5 DEF retain
    <3>2. CASE ~(g = f /\ i = h)
      BY <2>2, <2>3, <3>1, <3>2
    <3>3. CASE h \notin access_list
      BY <3>3
    <3>4. CASE g = f /\ i = h /\ h \in access_list
      <4>1. k \in Present(t) \ Expired(t)
        BY DEF Expired
      <4>2. ~Dropped(f, h)
        BY <3>4, <4>1 DEF Dropped, remaining
      <4>3. torrents'[f][h] = u
        BY <2>2, <3>1, <3>4, <4>2
      <4>4. Valid(u) /\ Present(u) = Present(t) \ Expired(t)
        BY <2>1, CleanValid
      <4>5. u # NoTorrent
        BY <4>4, HttpSwarmAssumption DEF Valid
      <4> HIDE DEF t, u
      <4> QED BY <4>1, <4>3, <4>4, <4>5
    <3> QED BY <3>2, <3>3, <3>4
  <2>6. CASE Tick
    <3> DEFINE t == torrents[f][h]
    <3>1. torrents'[f][h] = Aged(t)
      BY <2>6 DEF Tick, Aged
    <3>2. Valid(Aged(t)) /\ Present(Aged(t)) = Present(t)
      BY <2>1, AgedValid
    <3>3. Aged(t) # NoTorrent
      BY <3>2, HttpSwarmAssumption DEF Valid
    <3> QED BY <3>1, <3>2, <3>3
  <2>7. CASE update_peer_valid_until \/ clean \/ UNCHANGED vars
    BY <2>3, <2>7 DEF update_peer_valid_until, clean, vars
  <2>9. ASSUME NEW list \in SUBSET InfoHashes, update_access_list(list) PROVE Kept(f, h, k)
    BY <2>3, <2>9 DEF update_access_list
  <2>8. ASSUME NEW g \in Families, NEW request \in ScrapeRequests, handle_scrape_request(g, request)
        PROVE  Kept(f, h, k)
    BY <2>3, <2>8 DEF handle_scrape_request
  <2> HIDE DEF Kept
  <2> QED BY <1>1, <2>4, <2>5, <2>6, <2>7, <2>8, <2>9 DEF Next
<1> QED BY <1>1, SwarmInvariant, PTL DEF Spec, LivePeerKept

----------------------------------------------------------------------------
(***************************************************************************)
(* Refinement of Swarm                                                     *)
(***************************************************************************)
\* Cardinality is the same in both modules.
LEMMA SameCardinality ==
    ASSUME NEW S
    PROVE  Abstract!Cardinality(S) = Cardinality(S)
BY DEF Cardinality, Abstract!Cardinality

\* The role a torrent gives a peer.
LEMMA RoleOfEntry ==
    ASSUME NEW h, NEW k \in Keys
    PROVE  RoleOf(h, k) = IF k \in Seeders(entry(family_of[k], h)) THEN "Seeding"
                          ELSE IF k \in Present(entry(family_of[k], h)) THEN "Leeching"
                          ELSE "Absent"
BY DEF RoleOf, Seeders, Present

\* The swarm of a torrent is what the torrent stores.
LEMMA AbstractMembers ==
    ASSUME SwarmInv, NEW f \in Families, NEW h \in InfoHashes
    PROVE  /\ Abstract!Members(f, h) = Present(entry(f, h))
           /\ Abstract!Seeding(f, h) = Seeders(entry(f, h))
<1>1. ValidIn(f, entry(f, h))
  BY EntryValid DEF SwarmInv
<1>2. Seeders(entry(f, h)) \subseteq Present(entry(f, h)) /\ Present(entry(f, h)) \subseteq Keys
  BY DEF Seeders, Present
<1>3. \A k \in Keys : family_of[k] = f =>
         /\ RoleOf(h, k) \in {"Seeding", "Leeching"} <=> k \in Present(entry(f, h))
         /\ RoleOf(h, k) \in {"Seeding"} <=> k \in Seeders(entry(f, h))
  BY <1>2, RoleOfEntry
<1>4. \A k \in Present(entry(f, h)) : family_of[k] = f
  BY <1>1 DEF ValidIn
<1>5. /\ Abstract!Members(f, h) =
            {k \in Keys : family_of[k] = f /\ RoleOf(h, k) \in {"Seeding", "Leeching"}}
      /\ Abstract!Seeding(f, h) =
            {k \in Keys : family_of[k] = f /\ RoleOf(h, k) \in {"Seeding"}}
  BY DEF Abstract!Members, Abstract!Seeding, Abstract!In
<1> QED BY <1>2, <1>3, <1>4, <1>5

LEMMA InitRefines == ASSUME Init PROVE Abstract!Init
<1>1. \A f \in Families, h \in InfoHashes : entry(f, h) = Default
  BY DEF Init, entry
<1>2. \A h \in InfoHashes, k \in Keys : RoleOf(h, k) = "Absent"
  BY <1>1, DefaultValid, RoleOfEntry, HttpSwarmAssumption
<1>3. \A f \in Families, h \in InfoHashes : entry(f, h).completed_count = 0
  BY <1>1 DEF Default
<1> QED BY <1>2, <1>3 DEF Abstract!Init, Init, NoAnswer, Abstract!NoAnswer

LEMMA ScrapeRefines ==
    ASSUME SwarmInv, NEW f \in Families, NEW request \in ScrapeRequests,
           handle_scrape_request(f, request)
    PROVE  \E hashes \in SUBSET InfoHashes : Abstract!Scrape(f, hashes)
<1> DEFINE hashes == {request[i] : i \in {j \in DOMAIN request : j <= max_scrape_torrents}}
<1>1. hashes \in SUBSET InfoHashes
  <2>1. request \in Seq(InfoHashes)
    BY HttpSwarmAssumption
  <2> QED BY <2>1
<1>2. /\ answer' = [NoAnswer EXCEPT !.files = [h \in hashes |-> scrape_statistics(entry(f, h))]]
      /\ torrents' = torrents
  BY DEF handle_scrape_request
<1>3. \A h \in hashes : scrape_statistics(entry(f, h)) =
         [complete |-> Cardinality(Abstract!Seeding(f, h)),
          incomplete |-> Cardinality(Abstract!Members(f, h) \ Abstract!Seeding(f, h)),
          downloaded |-> entry(f, h).completed_count]
  <2> TAKE h \in hashes
  <2>1. h \in InfoHashes
    BY <1>1
  <2>2. Valid(entry(f, h))
    BY <2>1, EntryValid DEF SwarmInv, ValidIn
  <2>3. /\ num_seeders(entry(f, h)) = Cardinality(Seeders(entry(f, h)))
        /\ num_leechers(entry(f, h)) = Cardinality(Present(entry(f, h)) \ Seeders(entry(f, h)))
    BY <2>2, ValidCounts
  <2>4. /\ Abstract!Members(f, h) = Present(entry(f, h))
        /\ Abstract!Seeding(f, h) = Seeders(entry(f, h))
    BY <2>1, AbstractMembers
  <2> QED BY <2>3, <2>4 DEF scrape_statistics
<1> HIDE DEF hashes
<1>4. answer' = [NoAnswer EXCEPT !.files = [h \in hashes |->
                    [complete |-> Cardinality(Abstract!Seeding(f, h)),
                     incomplete |-> Cardinality(Abstract!Members(f, h) \ Abstract!Seeding(f, h)),
                     downloaded |-> entry(f, h).completed_count]]]
  BY <1>2, <1>3
<1>5. \A h \in hashes : [g \in Families |-> [i \in InfoHashes |-> entry(g, i).completed_count]][f][h]
                            = entry(f, h).completed_count
  BY <1>1
<1>6. Abstract!Scrape(f, hashes)
  <2> DEFINE down == [g \in Families |-> [i \in InfoHashes |-> entry(g, i).completed_count]]
  <2>1. [h \in InfoHashes |-> [k \in Keys |-> RoleOf(h, k)]]' =
           [h \in InfoHashes |-> [k \in Keys |-> RoleOf(h, k)]]
    BY <1>2 DEF RoleOf, entry
  <2>2. down' = down
    BY <1>2 DEF entry
  <2>3. NoAnswer = Abstract!NoAnswer
    BY DEF NoAnswer, Abstract!NoAnswer
  <2>4. [h \in hashes |-> [complete |-> Cardinality(Abstract!Seeding(f, h)),
                           incomplete |-> Cardinality(Abstract!Members(f, h) \ Abstract!Seeding(f, h)),
                           downloaded |-> entry(f, h).completed_count]] =
        [h \in hashes |-> [complete |-> Abstract!Cardinality(Abstract!Seeding(f, h)),
                           incomplete |-> Abstract!Cardinality(Abstract!Members(f, h) \ Abstract!Seeding(f, h)),
                           downloaded |-> down[f][h]]]
    BY <1>5, SameCardinality
  <2> QED BY <1>4, <2>1, <2>2, <2>3, <2>4 DEF Abstract!Scrape
<1> QED BY <1>1, <1>6

LEMMA AnnounceRefines ==
    ASSUME SwarmInv, NEW h \in InfoHashes, NEW k \in Keys, NEW event, NEW bytes_left,
           NEW want \in Wants, handle_announce_request(h, k, event, bytes_left, want)
    PROVE  Abstract!Announce(h, k)
<1> DEFINE f == family_of[k]
           t == entry(f, h)
           before == before_insert(t, k, event)
           u == upsert_peer(t, k, event, bytes_left)
           max == num_to_take(want)
           role == [i \in InfoHashes |-> [x \in Keys |-> RoleOf(i, x)]]
           down == [g \in Families |-> [i \in InfoHashes |-> entry(g, i).completed_count]]
<1>1. f \in Families /\ max \in 0 .. max_peers
  BY HttpSwarmAssumption DEF num_to_take
<1>2. /\ torrents' = [torrents EXCEPT ![f][h] = u]
      /\ torrents \in [Families -> [InfoHashes -> TorrentData \cup {NoTorrent}]]
      /\ peer_valid_until \in 0 .. max_peer_age
  BY DEF handle_announce_request, SwarmInv, TypeOK
<1>3. PICK peers \in response_peers(before, max) :
         answer' = [wanted |-> max, complete |-> num_seeders(before),
                    incomplete |-> num_leechers(before), peers |-> peers, files |-> <<>>]
  BY DEF handle_announce_request
<1>4. Valid(t) /\ t.completed_count \in Nat
  BY <1>1, EntryValid DEF SwarmInv, ValidIn, Valid, TorrentData
<1>5. Abstract!Members(f, h) = Present(t) /\ Abstract!Seeding(f, h) = Seeders(t)
  BY <1>1, AbstractMembers
<1> HIDE DEF t
<1>6. /\ Valid(before)
      /\ Present(before) = Present(t) \ {k} /\ Seeders(before) = Seeders(t) \ {k}
  BY <1>4, BeforeInsertValid
<1>7. /\ Valid(u)
      /\ Present(u) = IF event = "stopped" THEN Present(t) \ {k} ELSE Present(t) \cup {k}
      /\ Seeders(u) = IF event # "stopped" /\ bytes_left = 0 THEN Seeders(t) \cup {k}
                      ELSE Seeders(t) \ {k}
      /\ u.completed_count =
            IF event = "completed" THEN t.completed_count + 1 ELSE t.completed_count
  BY <1>2, <1>4, UpsertValid
<1> HIDE DEF before, u, max
<1>8. \A g \in Families, i \in InfoHashes :
         entry(g, i)' = IF g = f /\ i = h THEN u ELSE entry(g, i)
  <2>1. u # NoTorrent
    BY <1>7, HttpSwarmAssumption DEF Valid
  <2> QED BY <1>1, <1>2, <2>1 DEF entry
<1>9. \A i \in InfoHashes, x \in Keys : ~(i = h /\ x = k) => RoleOf(i, x)' = RoleOf(i, x)
  <2> SUFFICES ASSUME NEW i \in InfoHashes, NEW x \in Keys, ~(i = h /\ x = k)
               PROVE  RoleOf(i, x)' = RoleOf(i, x)
    OBVIOUS
  <2>1. family_of[x] \in Families
    BY HttpSwarmAssumption
  <2>2. RoleOf(i, x)' = IF x \in Seeders(entry(family_of[x], i)') THEN "Seeding"
                        ELSE IF x \in Present(entry(family_of[x], i)') THEN "Leeching"
                        ELSE "Absent"
    BY DEF RoleOf, Seeders, Present
  <2>3. RoleOf(i, x) = IF x \in Seeders(entry(family_of[x], i)) THEN "Seeding"
                       ELSE IF x \in Present(entry(family_of[x], i)) THEN "Leeching"
                       ELSE "Absent"
    BY RoleOfEntry
  <2>4. CASE family_of[x] = f /\ i = h
    <3>1. entry(family_of[x], i)' = u /\ entry(family_of[x], i) = t
      BY <1>8, <2>1, <2>4 DEF t
    <3>2. x # k
      BY <2>4
    <3> QED BY <1>7, <2>2, <2>3, <3>1, <3>2
  <2>5. CASE ~(family_of[x] = f /\ i = h)
    BY <1>8, <2>1, <2>2, <2>3, <2>5
  <2> QED BY <2>4, <2>5
<1>10. RoleOf(h, k)' \in {"Absent", "Seeding", "Leeching"}
  BY DEF RoleOf
<1>11. role' = [role EXCEPT ![h][k] = RoleOf(h, k)']
  <2>1. role' = [i \in InfoHashes |-> [x \in Keys |-> RoleOf(i, x)']]
    OBVIOUS
  <2> QED BY <1>9, <2>1
<1>12. role'[h][k] = RoleOf(h, k)'
  OBVIOUS
<1>13. down' = down \/ down' = [down EXCEPT ![f][h] = @ + 1]
  <2>1. down' = [g \in Families |-> [i \in InfoHashes |-> entry(g, i)'.completed_count]]
    OBVIOUS
  <2>2. entry(f, h) = t
    BY DEF t
  <2>3. CASE event = "completed"
    <3>1. u.completed_count = entry(f, h).completed_count + 1
      BY <1>7, <2>2, <2>3
    <3> QED BY <1>1, <1>8, <2>1, <3>1
  <2>4. CASE event # "completed"
    <3>1. u.completed_count = entry(f, h).completed_count
      BY <1>7, <2>2, <2>4
    <3> QED BY <1>1, <1>8, <2>1, <3>1
  <2> QED BY <2>3, <2>4
<1>14. /\ answer'.files = <<>> /\ answer'.peers = peers /\ answer'.wanted = max
       /\ answer'.complete = Cardinality(Seeders(t) \ {k})
       /\ answer'.incomplete = Cardinality((Present(t) \ {k}) \ Seeders(t))
  <2>1. (Present(t) \ {k}) \ (Seeders(t) \ {k}) = (Present(t) \ {k}) \ Seeders(t)
    OBVIOUS
  <2>2. /\ num_seeders(before) = Cardinality(Seeders(before))
        /\ num_leechers(before) = Cardinality(Present(before) \ Seeders(before))
    BY <1>6, ValidCounts
  <2> QED BY <1>3, <1>6, <2>1, <2>2
<1>15. /\ peers \in Seq(Present(t) \ {k})
       /\ \A i, j \in DOMAIN peers : peers[i] = peers[j] => i = j
       /\ Len(peers) = IF Cardinality(Present(t) \ {k}) < max
                       THEN Cardinality(Present(t) \ {k}) ELSE max
  <2> DEFINE S == Present(t) \ {k}
  <2>1. S = Present(before) /\ Cardinality(S) \in Nat
    BY <1>6, FiniteTorrent
  <2>2. PICK order \in Orders(S) : peers \in extract_response_peers(before.large, order, max)
    BY <1>3, <2>1 DEF response_peers
  <2>3. before.large \in BOOLEAN /\ max \in Nat
    BY <1>1, <1>6, HttpSwarmAssumption DEF Valid, TorrentData
  <2> HIDE DEF S
  <2>4. /\ peers \in Seq(S) /\ Injective(peers)
        /\ Len(peers) = IF Cardinality(S) < max THEN Cardinality(S) ELSE max
    BY <2>1, <2>2, <2>3, ExtractProperties
  <2>5. DOMAIN peers = 1 .. Len(peers)
    BY <2>4, LenProperties
  <2> QED BY <2>4, <2>5 DEF S, Injective
<1>16. /\ answer'.complete = Abstract!Cardinality(Abstract!Seeding(f, h) \ {k})
       /\ answer'.incomplete =
             Abstract!Cardinality((Abstract!Members(f, h) \ {k}) \ Abstract!Seeding(f, h))
       /\ Len(answer'.peers) =
             IF Abstract!Cardinality(Abstract!Members(f, h) \ {k}) < answer'.wanted
             THEN Abstract!Cardinality(Abstract!Members(f, h) \ {k}) ELSE answer'.wanted
  BY <1>5, <1>14, <1>15, SameCardinality
<1>17. /\ answer'.files = <<>> /\ answer'.peers \in Seq(Abstract!Members(f, h) \ {k})
       /\ \A i, j \in DOMAIN answer'.peers : answer'.peers[i] = answer'.peers[j] => i = j
       /\ answer'.wanted \in 0 .. max_peers
  BY <1>1, <1>5, <1>14, <1>15
<1>18. role'[h][k] \in Abstract!Roles /\ role' = [role EXCEPT ![h][k] = role'[h][k]]
  BY <1>10, <1>11, <1>12 DEF Abstract!Roles
<1> QED BY <1>13, <1>16, <1>17, <1>18, Zenon DEF Abstract!Announce

\* A step in which peers only leave, and torrents are forgotten only empty.
LEMMA DepartRefines ==
    ASSUME SwarmInv, SwarmInv', answer' = NoAnswer,
           \A f \in Families, h \in InfoHashes :
              /\ Present(entry(f, h)') \subseteq Present(entry(f, h))
              /\ Seeders(entry(f, h)') = Seeders(entry(f, h)) \cap Present(entry(f, h)')
              /\ \/ entry(f, h)'.completed_count = entry(f, h).completed_count
                 \/ entry(f, h)'.completed_count = 0 /\ Present(entry(f, h)') = {}
    PROVE  Abstract!Depart
<1> DEFINE role == [i \in InfoHashes |-> [x \in Keys |-> RoleOf(i, x)]]
           down == [g \in Families |-> [i \in InfoHashes |-> entry(g, i).completed_count]]
<1>1. answer' = Abstract!NoAnswer
  BY DEF NoAnswer, Abstract!NoAnswer
<1>2. \A h \in InfoHashes, k \in Keys :
         RoleOf(h, k)' \in {RoleOf(h, k), "Absent"} /\ RoleOf(h, k)' \in Abstract!Roles
  <2> SUFFICES ASSUME NEW h \in InfoHashes, NEW k \in Keys
               PROVE  RoleOf(h, k)' \in {RoleOf(h, k), "Absent"} /\ RoleOf(h, k)' \in Abstract!Roles
    OBVIOUS
  <2>1. family_of[k] \in Families
    BY HttpSwarmAssumption
  <2>2. RoleOf(h, k)' = IF k \in Seeders(entry(family_of[k], h)') THEN "Seeding"
                        ELSE IF k \in Present(entry(family_of[k], h)') THEN "Leeching"
                        ELSE "Absent"
    BY DEF RoleOf, Seeders, Present
  <2>3. RoleOf(h, k) = IF k \in Seeders(entry(family_of[k], h)) THEN "Seeding"
                       ELSE IF k \in Present(entry(family_of[k], h)) THEN "Leeching"
                       ELSE "Absent"
    BY RoleOfEntry
  <2>4. /\ Present(entry(family_of[k], h)') \subseteq Present(entry(family_of[k], h))
        /\ Seeders(entry(family_of[k], h)') =
              Seeders(entry(family_of[k], h)) \cap Present(entry(family_of[k], h)')
    BY <2>1
  <2> QED BY <2>2, <2>3, <2>4 DEF Abstract!Roles
<1>3. \A h \in InfoHashes, k \in Keys : role'[h][k] = RoleOf(h, k)' /\ role[h][k] = RoleOf(h, k)
  OBVIOUS
<1>4. /\ role' \in [InfoHashes -> [Keys -> Abstract!Roles]]
      /\ \A h \in InfoHashes, k \in Keys : role'[h][k] \in {role[h][k], "Absent"}
  <2>1. role' = [h \in InfoHashes |-> [k \in Keys |-> RoleOf(h, k)']]
    OBVIOUS
  <2> HIDE DEF role
  <2>2. role' \in [InfoHashes -> [Keys -> Abstract!Roles]]
    BY <1>2, <2>1
  <2> QED BY <1>2, <1>3, <2>2
<1>5. \A f \in Families, h \in InfoHashes :
         /\ down'[f][h] = entry(f, h)'.completed_count
         /\ down[f][h] = entry(f, h).completed_count
  OBVIOUS
<1>6. TorrentsValid'
  BY DEF SwarmInv
<1>7. \A f \in Families, h \in InfoHashes : entry(f, h)'.completed_count \in Nat
  <2> SUFFICES ASSUME NEW f \in Families, NEW h \in InfoHashes
               PROVE  entry(f, h)'.completed_count \in Nat
    OBVIOUS
  <2>1. CASE torrents'[f][h] = NoTorrent
    BY <2>1 DEF entry, Default
  <2>2. CASE torrents'[f][h] # NoTorrent
    <3>1. Valid(torrents'[f][h]) /\ entry(f, h)' = torrents'[f][h]
      BY <1>6, <2>2 DEF TorrentsValid, ValidIn, entry, Valid
    <3> QED BY <3>1 DEF Valid, TorrentData
  <2> QED BY <2>1, <2>2
<1>8. down' \in [Families -> [InfoHashes -> Nat]]
  <2>1. down' = [g \in Families |-> [i \in InfoHashes |-> entry(g, i)'.completed_count]]
    OBVIOUS
  <2> HIDE DEF down
  <2> QED BY <1>7, <2>1
<1>9. \A f \in Families, h \in InfoHashes : Present(entry(f, h)') = {} => Abstract!Members(f, h)' = {}
  <2> SUFFICES ASSUME NEW f \in Families, NEW h \in InfoHashes, Present(entry(f, h)') = {}
               PROVE  Abstract!Members(f, h)' = {}
    OBVIOUS
  <2>1. Abstract!Members(f, h)' =
           {k \in Keys : family_of[k] = f /\ RoleOf(h, k)' \in {"Seeding", "Leeching"}}
    BY DEF Abstract!Members, Abstract!In
  <2>2. \A k \in Keys : family_of[k] = f => RoleOf(h, k)' = "Absent"
    BY DEF RoleOf, Present
  <2> QED BY <2>1, <2>2
<1>10. \A f \in Families, h \in InfoHashes :
          \/ down'[f][h] = down[f][h]
          \/ down'[f][h] = 0 /\ Abstract!Members(f, h)' = {}
  <2> HIDE DEF down
  <2> QED BY <1>5, <1>9
<1> QED BY <1>1, <1>4, <1>8, <1>10, Zenon DEF Abstract!Depart

LEMMA RetainRefines ==
    ASSUME SwarmInv, SwarmInv', NEW g \in Families, NEW i \in InfoHashes, retain(g, i)
    PROVE  Abstract!Depart
<1>1. answer' = NoAnswer
  BY DEF retain
<1>2. ASSUME NEW f \in Families, NEW h \in InfoHashes
      PROVE  /\ Present(entry(f, h)') \subseteq Present(entry(f, h))
             /\ Seeders(entry(f, h)') = Seeders(entry(f, h)) \cap Present(entry(f, h)')
             /\ \/ entry(f, h)'.completed_count = entry(f, h).completed_count
                \/ entry(f, h)'.completed_count = 0 /\ Present(entry(f, h)') = {}
  <2>1. CASE torrents'[f][h] = torrents[f][h]
    <3>1. entry(f, h)' = entry(f, h)
      BY <2>1 DEF entry
    <3>2. Seeders(entry(f, h)) \subseteq Present(entry(f, h))
      BY FiniteTorrent
    <3> QED BY <3>1, <3>2
  <2>2. CASE torrents'[f][h] = NoTorrent
    <3>1. entry(f, h)' = Default
      BY <2>2 DEF entry
    <3>2. Present(Default) = {} /\ Seeders(Default) = {} /\ Default.completed_count = 0
      BY DefaultValid DEF Default
    <3> QED BY <3>1, <3>2
  <2>3. CASE torrents'[f][h] # torrents[f][h] /\ torrents'[f][h] # NoTorrent
    <3> DEFINE t == torrents[f][h]
               u == torrents'[f][h]
    <3>1. f = g /\ h = i
      BY <2>3, RetainTorrent
    <3>2. /\ ValidIn(f, t) /\ Present(u) = remaining(f, h)
          /\ Seeders(u) = Seeders(t) \ Expired(t) /\ u.completed_count = t.completed_count
      BY <2>3, <3>1, RetainTorrent
    <3>3. Seeders(u) \subseteq Present(u) /\ Seeders(t) \subseteq Present(t)
      BY FiniteTorrent
    <3>4. Present(u) \subseteq Present(t) \ Expired(t)
      BY <3>2 DEF remaining
    <3>5. t # NoTorrent
      BY <3>2, HttpSwarmAssumption DEF ValidIn, Valid
    <3>6. entry(f, h)' = u /\ entry(f, h) = t
      BY <2>3, <3>5 DEF entry
    <3> HIDE DEF u, t
    <3> QED BY <3>2, <3>3, <3>4, <3>6
  <2> QED BY <2>1, <2>2, <2>3
<1> QED BY <1>1, <1>2, DepartRefines

LEMMA TickRefines ==
    ASSUME SwarmInv, SwarmInv', Tick
    PROVE  Abstract!Depart
<1>1. answer' = NoAnswer
  BY DEF Tick
<1>2. ASSUME NEW f \in Families, NEW h \in InfoHashes
      PROVE  /\ Present(entry(f, h)') \subseteq Present(entry(f, h))
             /\ Seeders(entry(f, h)') = Seeders(entry(f, h)) \cap Present(entry(f, h)')
             /\ \/ entry(f, h)'.completed_count = entry(f, h).completed_count
                \/ entry(f, h)'.completed_count = 0 /\ Present(entry(f, h)') = {}
  <2>0. torrents'[f][h] = IF torrents[f][h] = NoTorrent THEN NoTorrent ELSE Aged(torrents[f][h])
    BY DEF Tick, Aged
  <2>1. CASE torrents[f][h] = NoTorrent
    <3>1. entry(f, h)' = Default /\ entry(f, h) = Default
      BY <2>0, <2>1 DEF entry
    <3> QED BY <3>1, DefaultValid
  <2>2. CASE torrents[f][h] # NoTorrent
    <3> DEFINE t == torrents[f][h]
    <3>1. Valid(t) /\ entry(f, h) = t /\ torrents'[f][h] = Aged(t)
      BY <2>0, <2>2 DEF SwarmInv, TorrentsValid, ValidIn, entry
    <3> HIDE DEF t
    <3>2. /\ Valid(Aged(t)) /\ Present(Aged(t)) = Present(t)
          /\ Seeders(Aged(t)) = Seeders(t) /\ Aged(t).completed_count = t.completed_count
      BY <3>1, AgedValid
    <3>3. Seeders(t) \subseteq Present(t)
      BY FiniteTorrent
    <3>4. entry(f, h)' = Aged(t)
      BY <3>1, <3>2, HttpSwarmAssumption DEF entry, Valid
    <3> QED BY <3>1, <3>2, <3>3, <3>4
  <2> QED BY <2>1, <2>2
<1> QED BY <1>1, <1>2, DepartRefines

\* The HTTP swarm worker implements Swarm: whatever the capacity of small
\* maps, the limits and the order of peers in a map, an announce is told the
\* exact numbers, and as many distinct other peers of its family as it may
\* get; scrapes are exact; peers leave and downloads are forgotten only as
\* Swarm allows.
THEOREM HttpSwarmImplementsSwarm == Spec => ImplementsSwarm
<1>1. Init => Abstract!Init
  BY InitRefines
<1>2. ASSUME SwarmInv, SwarmInv', [Next]_vars
      PROVE  [Abstract!Next]_<<[h \in InfoHashes |-> [k \in Keys |-> RoleOf(h, k)]],
                 [f \in Families |-> [h \in InfoHashes |-> entry(f, h).completed_count]], answer>>
  <2>1. ASSUME NEW h \in InfoHashes, NEW k \in Keys, NEW want \in Wants, NEW event, NEW bytes_left,
               handle_announce_request(h, k, event, bytes_left, want)
        PROVE  Abstract!Next
    <3>1. Abstract!Announce(h, k)
      BY <1>2, <2>1, AnnounceRefines
    <3> QED BY <3>1 DEF Abstract!Next
  <2>2. ASSUME NEW f \in Families, NEW request \in ScrapeRequests,
               handle_scrape_request(f, request)
        PROVE  Abstract!Next
    <3>1. \E hashes \in SUBSET InfoHashes : Abstract!Scrape(f, hashes)
      BY <1>2, <2>2, ScrapeRefines
    <3> QED BY <3>1 DEF Abstract!Next
  <2>3. ASSUME NEW f \in Families, NEW h \in InfoHashes, retain(f, h) PROVE Abstract!Next
    <3>1. Abstract!Depart
      BY <1>2, <2>3, RetainRefines
    <3> QED BY <3>1 DEF Abstract!Next
  <2>4. ASSUME torrents' = torrents, answer' = NoAnswer PROVE Abstract!Next
    <3>1. \A f \in Families, h \in InfoHashes : entry(f, h)' = entry(f, h)
      BY <2>4 DEF entry
    <3>2. \A f \in Families, h \in InfoHashes :
             Seeders(entry(f, h)) \subseteq Present(entry(f, h))
      BY FiniteTorrent
    <3>3. Abstract!Depart
      BY <1>2, <2>4, <3>1, <3>2, DepartRefines
    <3> QED BY <3>3 DEF Abstract!Next
  <2>7. CASE clean \/ update_peer_valid_until
    BY <2>4, <2>7 DEF clean, update_peer_valid_until
  <2>8. ASSUME NEW list \in SUBSET InfoHashes, update_access_list(list) PROVE Abstract!Next
    BY <2>4, <2>8 DEF update_access_list
  <2>5. CASE Tick
    <3>1. Abstract!Depart
      BY <1>2, <2>5, TickRefines
    <3> QED BY <3>1 DEF Abstract!Next
  <2>6. CASE UNCHANGED vars
    BY <2>6 DEF vars, RoleOf, entry
  <2> QED BY <1>2, <2>1, <2>2, <2>3, <2>5, <2>6, <2>7, <2>8 DEF Next
<1> QED BY <1>1, <1>2, SwarmInvariant, PTL DEF Spec, ImplementsSwarm, Abstract!Spec
============================================================================
