-------------------------- MODULE UdpSwarmProofs ---------------------------
(***************************************************************************)
(* Proofs about UdpSwarm: every operation on a peer map keeps the cached   *)
(* seeder count exact and a small map within its capacity, and therefore   *)
(* so does every interleaving of announces with the cleaning thread.  The  *)
(* last part is about the numbers that the statistics worker keeps.        *)
(***************************************************************************)
EXTENDS UdpSwarm, TLAPS, FiniteSetTheorems

----------------------------------------------------------------------------
(***************************************************************************)
(* One peer map                                                            *)
(***************************************************************************)
\* What every map satisfies between operations.
Valid(map) ==
    /\ map \in Map
    /\ map.large => map.num_seeders = Cardinality(Seeders(map))
    /\ ~map.large => /\ map.num_seeders = 0
                     /\ Cardinality(Present(map)) <= SMALL_PEER_MAP_CAPACITY

\* Sets of keys are finite.
LEMMA FiniteKeys ==
    ASSUME NEW S \in SUBSET Keys
    PROVE  IsFiniteSet(S) /\ Cardinality(S) \in Nat
BY PeerMapAssumption, FS_Subset, FS_CardinalityType

\* The peers and the seeders of a map are finite sets.
LEMMA FiniteMap ==
    ASSUME NEW map
    PROVE  /\ IsFiniteSet(Present(map)) /\ Cardinality(Present(map)) \in Nat
           /\ IsFiniteSet(Seeders(map)) /\ Cardinality(Seeders(map)) \in Nat
           /\ Seeders(map) \subseteq Present(map)
<1>1. Present(map) \subseteq Keys /\ Seeders(map) \subseteq Present(map)
  BY DEF Present, Seeders
<1> QED BY <1>1, FiniteKeys

\* A fresh TorrentData holds a valid, empty map.
LEMMA DefaultValid == Valid(Default) /\ is_empty(Default)
<1>1. Default \in Map
  BY DEF Default, Map
<1>2. Present(Default) = {}
  BY DEF Default, Present
<1>3. ~Default.large /\ Default.num_seeders = 0
  BY DEF Default
<1> QED BY <1>1, <1>2, <1>3, FS_EmptySet, PeerMapAssumption DEF Valid, is_empty

\* The reported numbers follow from validity.
LEMMA ValidCounts ==
    ASSUME NEW map, Valid(map)
    PROVE  /\ num_seeders(map) = Cardinality(Seeders(map))
           /\ num_leechers(map) = Cardinality(Present(map) \ Seeders(map))
<1>1. num_seeders(map) = Cardinality(Seeders(map))
  BY DEF num_seeders, Valid
<1>2. Present(map) \cap Seeders(map) = Seeders(map)
  BY FiniteMap
<1>3. Cardinality(Present(map) \ Seeders(map)) =
         Cardinality(Present(map)) - Cardinality(Seeders(map))
  BY <1>2, FiniteMap, FS_Difference
<1> QED BY <1>1, <1>3 DEF num_leechers

\* Removing a peer keeps the map valid.
LEMMA RemoveValid ==
    ASSUME NEW map, Valid(map), NEW key \in Keys
    PROVE  /\ Valid(remove_peer(map, key))
           /\ key \notin Present(remove_peer(map, key))
           /\ remove_peer(map, key).large = map.large
           /\ remove_peer(map, key).completed_count = map.completed_count
<1> DEFINE n == IF map.large /\ key \in Seeders(map)
                THEN map.num_seeders - 1 ELSE map.num_seeders
           removed == [map EXCEPT !.peers[key] = NoPeer, !.num_seeders = n]
<1>0. removed = remove_peer(map, key)
  BY DEF remove_peer
<1>1. map \in Map
  BY DEF Valid
<1>2. n \in Nat
  <2>1. CASE map.large /\ key \in Seeders(map)
    <3>1. Cardinality(Seeders(map)) # 0
      BY <2>1, FiniteMap, FS_EmptySet
    <3> QED BY <2>1, <3>1, FiniteMap DEF Valid
  <2>2. CASE ~(map.large /\ key \in Seeders(map))
    BY <1>1, <2>2 DEF Map
  <2> QED BY <2>1, <2>2
<1> HIDE DEF n
<1>3. /\ removed \in Map
      /\ removed.large = map.large
      /\ removed.completed_count = map.completed_count
      /\ removed.num_seeders = n
  BY <1>1, <1>2 DEF Map
<1>4. /\ Present(removed) = Present(map) \ {key}
      /\ Seeders(removed) = Seeders(map) \ {key}
  BY <1>1 DEF Map, Present, Seeders
<1>5. Cardinality(Present(removed)) <= Cardinality(Present(map))
  BY <1>4, FiniteMap, FS_Subset
<1>6. Cardinality(Seeders(removed)) =
         IF key \in Seeders(map) THEN Cardinality(Seeders(map)) - 1
         ELSE Cardinality(Seeders(map))
  BY <1>4, FiniteMap, FS_RemoveElement
<1> HIDE DEF removed
<1>7. map.large => Valid(removed)
  BY <1>3, <1>6 DEF Valid, n
<1>8. ~map.large => Valid(removed)
  BY <1>3, <1>5, FiniteMap, PeerMapAssumption DEF Valid, n
<1>9. Valid(removed)
  BY <1>7, <1>8
<1> QED BY <1>0, <1>3, <1>4, <1>9

\* Inserting an absent peer keeps the map valid if there is room.
LEMMA InsertValid ==
    ASSUME NEW map, Valid(map), NEW key \in Keys, key \notin Present(map),
           NEW peer \in Peer,
           ~map.large => Cardinality(Present(map)) < SMALL_PEER_MAP_CAPACITY
    PROVE  /\ Valid(insert(map, key, peer))
           /\ Present(insert(map, key, peer)) = Present(map) \cup {key}
           /\ insert(map, key, peer).completed_count = map.completed_count
<1> DEFINE n == IF map.large /\ peer.is_seeder
                THEN map.num_seeders + 1 ELSE map.num_seeders
           inserted == [map EXCEPT !.peers[key] = peer, !.num_seeders = n]
<1>0. inserted = insert(map, key, peer)
  BY DEF insert
<1>1. map \in Map
  BY DEF Valid
<1>2. n \in Nat
  BY <1>1 DEF Map
<1> HIDE DEF n
<1>3. /\ inserted \in Map
      /\ inserted.large = map.large
      /\ inserted.completed_count = map.completed_count
      /\ inserted.num_seeders = n
  BY <1>1, <1>2 DEF Map
<1>4. /\ Present(inserted) = Present(map) \cup {key}
      /\ Seeders(inserted) = IF peer.is_seeder THEN Seeders(map) \cup {key}
                             ELSE Seeders(map)
  BY <1>1, PeerMapAssumption DEF Map, Present, Seeders
<1>5. Cardinality(Present(inserted)) = Cardinality(Present(map)) + 1
  BY <1>4, FiniteMap, FS_AddElement
<1>6. Cardinality(Seeders(map) \cup {key}) = Cardinality(Seeders(map)) + 1
  BY FiniteMap, FS_AddElement
<1> HIDE DEF inserted
<1>7. map.large => Valid(inserted)
  BY <1>3, <1>4, <1>6 DEF Valid, n
<1>8. ~map.large => Valid(inserted)
  BY <1>3, <1>5, FiniteMap, PeerMapAssumption DEF Valid, n
<1> QED BY <1>0, <1>3, <1>4, <1>7, <1>8

\* try_shrink keeps the map valid and its peers.
LEMMA ShrinkValid ==
    ASSUME NEW map \in Map, map.large, map.num_seeders = Cardinality(Seeders(map))
    PROVE  /\ Valid(try_shrink(map))
           /\ Present(try_shrink(map)) = Present(map)
           /\ try_shrink(map).completed_count = map.completed_count
<1> DEFINE small == [map EXCEPT !.large = FALSE, !.num_seeders = 0]
<1>1. /\ small \in Map /\ ~small.large /\ small.num_seeders = 0
      /\ small.completed_count = map.completed_count
      /\ Present(small) = Present(map)
  BY DEF Map, Present
<1> HIDE DEF small
<1>2. CASE Cardinality(Present(map)) <= SMALL_PEER_MAP_CAPACITY
  BY <1>1, <1>2 DEF try_shrink, Valid, small
<1>3. CASE ~(Cardinality(Present(map)) <= SMALL_PEER_MAP_CAPACITY)
  BY <1>3 DEF try_shrink, Valid
<1> QED BY <1>2, <1>3

\* After the change of variant there is room for a peer that will be inserted.
LEMMA ResizeValid ==
    ASSUME NEW map, Valid(map), NEW status
    PROVE  LET resized == resize(map, status) IN
           /\ Valid(resized)
           /\ Present(resized) = Present(map)
           /\ resized.completed_count = map.completed_count
           /\ status # "Stopped" /\ ~resized.large =>
                 Cardinality(Present(resized)) < SMALL_PEER_MAP_CAPACITY
<1> DEFINE resized == resize(map, status)
<1>1. map \in Map
  BY DEF Valid
<1>2. CASE status = "Stopped"
  BY <1>1, <1>2, ShrinkValid DEF resize, Valid
<1>3. CASE status # "Stopped" /\ ~map.large /\ is_full(map)
  <2> DEFINE big == [map EXCEPT !.large = TRUE,
                                !.num_seeders = Cardinality(Seeders(map))]
  <2>1. resized = big
    BY <1>3 DEF resize, to_large
  <2>2. Cardinality(Seeders(map)) \in Nat
    BY FiniteMap
  <2>3. /\ big \in Map /\ big.large
        /\ big.num_seeders = Cardinality(Seeders(map))
        /\ big.completed_count = map.completed_count
        /\ Present(big) = Present(map) /\ Seeders(big) = Seeders(map)
    BY <1>1, <2>2 DEF Map, Present, Seeders
  <2> HIDE DEF big
  <2> QED BY <2>1, <2>3 DEF Valid
<1>4. CASE status # "Stopped" /\ (map.large \/ ~is_full(map))
  <2>1. resized = map
    BY <1>4 DEF resize
  <2> QED BY <1>4, <2>1, FiniteMap, PeerMapAssumption DEF Valid, is_full
<1> QED BY <1>2, <1>3, <1>4

\* An announce keeps the map valid and never lowers the download count.
LEMMA AnnounceValid ==
    ASSUME NEW map, Valid(map), NEW key \in Keys, NEW event \in Event,
           NEW bytes_left \in {0, 1}, NEW peer_id \in PeerIds,
           NEW valid_until \in Nat
    PROVE  LET announced == announce(map, key, event, bytes_left, peer_id,
                                     valid_until) IN
           /\ Valid(announced)
           /\ announced.completed_count >= map.completed_count
<1> DEFINE c == IF event = "completed" THEN map.completed_count + 1
                ELSE map.completed_count
           counted == [map EXCEPT !.completed_count = c]
           removed == remove_peer(counted, key)
           status == from_event_and_bytes_left(event, bytes_left)
           resized == resize(removed, status)
           peer == [peer_id |-> peer_id, is_seeder |-> (status = "Seeding"),
                    valid_until |-> valid_until]
<1>1. c \in Nat /\ map.completed_count \in Nat /\ c >= map.completed_count
  BY DEF Valid, Map
<1> HIDE DEF c
<1>2. Valid(counted) /\ counted.completed_count = c
  <2>1. /\ counted \in Map /\ counted.completed_count = c
        /\ counted.large = map.large /\ counted.num_seeders = map.num_seeders
        /\ Present(counted) = Present(map) /\ Seeders(counted) = Seeders(map)
    BY <1>1 DEF Valid, Map, Present, Seeders
  <2> HIDE DEF counted
  <2> QED BY <2>1 DEF Valid
<1> HIDE DEF counted
<1>3. /\ Valid(removed) /\ key \notin Present(removed)
      /\ removed.completed_count = c
  BY <1>2, RemoveValid
<1> HIDE DEF removed, status
<1>4. /\ Valid(resized) /\ key \notin Present(resized)
      /\ resized.completed_count = c
      /\ status # "Stopped" /\ ~resized.large =>
            Cardinality(Present(resized)) < SMALL_PEER_MAP_CAPACITY
  BY <1>3, ResizeValid
<1>5. peer \in Peer
  BY DEF Peer
<1> HIDE DEF resized, peer
<1>6. announce(map, key, event, bytes_left, peer_id, valid_until) =
         IF status = "Stopped" THEN resized ELSE insert(resized, key, peer)
  BY DEF announce, before_insert, status, resized, removed, counted, c, peer
<1>7. CASE status = "Stopped"
  BY <1>1, <1>4, <1>6, <1>7
<1>8. CASE status # "Stopped"
  BY <1>1, <1>4, <1>5, <1>6, <1>8, InsertValid
<1> QED BY <1>7, <1>8

\* Cleaning keeps the map valid, and the download count as it is.
LEMMA CleanValid ==
    ASSUME NEW map, Valid(map), NEW time \in Nat
    PROVE  /\ Valid(clean(map, time))
           /\ clean(map, time).completed_count = map.completed_count
<1> DEFINE expired == Invalid(map, time)
           gone == expired \cap Seeders(map)
           n == IF map.large THEN map.num_seeders - Cardinality(gone)
                ELSE map.num_seeders
           peers == [k \in Keys |-> IF k \in expired THEN NoPeer ELSE map.peers[k]]
           cleaned == [map EXCEPT !.peers = peers, !.num_seeders = n]
<1>1. map \in Map
  BY DEF Valid
<1>2. /\ Seeders(map) \cap gone = gone
      /\ Cardinality(Seeders(map) \ gone) = Cardinality(Seeders(map)) - Cardinality(gone)
      /\ Cardinality(Seeders(map) \ gone) \in Nat
  <2>1. Seeders(map) \cap gone = gone
    OBVIOUS
  <2>2. Cardinality(Seeders(map) \ gone) =
           Cardinality(Seeders(map)) - Cardinality(gone)
    BY <2>1, FiniteMap, FS_Difference
  <2>3. IsFiniteSet(Seeders(map) \ gone)
    BY FiniteMap, FS_Difference
  <2> QED BY <2>1, <2>2, <2>3, FS_CardinalityType
<1>3. n \in Nat /\ (map.large => n = Cardinality(Seeders(map) \ gone))
  BY <1>1, <1>2 DEF Valid, Map
<1>4. peers \in [Keys -> Peer \cup {NoPeer}]
  BY <1>1 DEF Map
<1>5. /\ {k \in Keys : peers[k] # NoPeer} = Present(map) \ expired
      /\ {k \in Present(map) \ expired : peers[k].is_seeder} = Seeders(map) \ gone
  BY DEF Present, Seeders, Invalid
<1>6. clean(map, time) = IF map.large THEN try_shrink(cleaned) ELSE cleaned
  BY DEF clean
<1> HIDE DEF n, peers
<1>7. /\ cleaned \in Map /\ cleaned.large = map.large
      /\ cleaned.num_seeders = n /\ cleaned.peers = peers
      /\ cleaned.completed_count = map.completed_count
  BY <1>1, <1>3, <1>4 DEF Map
<1>8. /\ Present(cleaned) = Present(map) \ expired
      /\ Seeders(cleaned) = Seeders(map) \ gone
  BY <1>5, <1>7 DEF Present, Seeders
<1> HIDE DEF cleaned
<1>9. CASE map.large
  BY <1>3, <1>6, <1>7, <1>8, <1>9, ShrinkValid
<1>10. CASE ~map.large
  <2>1. Cardinality(Present(cleaned)) <= Cardinality(Present(map))
    BY <1>8, FiniteMap, FS_Subset
  <2> QED BY <1>6, <1>7, <1>10, <2>1, FiniteMap, PeerMapAssumption DEF Valid, n
<1> QED BY <1>9, <1>10

----------------------------------------------------------------------------
(***************************************************************************)
(* The swarm                                                               *)
(***************************************************************************)
SwarmInv == /\ TypeOK
            /\ FlowInv
            /\ \A o \in Objects : Valid(data[o])

\* One step of a socket worker or of the cleaning thread.
LEMMA SwarmStep ==
    ASSUME SwarmInv, [Next]_vars
    PROVE  /\ SwarmInv'
           /\ \A o \in Objects : data'[o].completed_count >= data[o].completed_count
<1> DEFINE Done == /\ SwarmInv'
                   /\ \A o \in Objects :
                         data'[o].completed_count >= data[o].completed_count
<1>0. /\ data \in [Objects -> Map] /\ \A o \in Objects : Valid(data[o])
      /\ \A o \in Objects : data[o].completed_count \in Nat
  BY DEF SwarmInv, TypeOK, Map
<1> USE DEF SwarmInv
<1>1. ASSUME TypeOK', FlowInv', UNCHANGED data PROVE Done
  BY <1>0, <1>1
<1>2. ASSUME NEW w \in Workers, NEW req \in Request, Receive(w, req) PROVE Done
  <2>1. TypeOK' /\ FlowInv'
    BY <1>2, SwarmAssumption, RequestAssumption DEF Receive, TypeOK, FlowInv
  <2> QED BY <1>1, <1>2, <2>1 DEF Receive
<1>3. ASSUME NEW w \in Workers, FindTorrent(w) PROVE Done
  <2>1. request[w].info_hash \in InfoHashes
    BY <1>3 DEF FindTorrent, TypeOK, Request
  <2>2. TypeOK' /\ FlowInv'
    BY <1>3, <2>1 DEF FindTorrent, TypeOK, FlowInv
  <2> QED BY <1>1, <1>3, <2>2 DEF FindTorrent
<1>4. ASSUME NEW w \in Workers, CreateTorrent(w) PROVE Done
  <2>1. TypeOK' /\ FlowInv'
    BY <1>4 DEF CreateTorrent, TypeOK, FlowInv
  <2> QED BY <1>1, <1>4, <2>1 DEF CreateTorrent
<1>5. ASSUME NEW w \in Workers, Announce(w) PROVE Done
  <2> DEFINE req == request[w]
             o == held[w]
             new == announce(data[o], req.key, req.event, req.bytes_left,
                             req.peer_id, req.valid_until)
  <2>1. o \in Objects /\ req \in Request
    BY <1>5 DEF Announce, TypeOK, FlowInv
  <2>2. Valid(new) /\ new.completed_count >= data[o].completed_count
    BY <1>0, <2>1, AnnounceValid DEF Request
  <2>3. data' = [data EXCEPT ![o] = new]
    BY <1>5 DEF Announce
  <2> HIDE DEF new
  <2>4. clients' \in [PeerIds -> Nat]
    BY <1>5, <2>1 DEF Announce, ReportAnnounce, Uncounted, TypeOK, Request
  <2>5. TypeOK'
    BY <1>5, <2>1, <2>2, <2>3, <2>4 DEF Announce, TypeOK, Valid
  <2>6. FlowInv'
    BY <1>5 DEF Announce, FlowInv, TypeOK
  <2> QED BY <1>0, <2>1, <2>2, <2>3, <2>5, <2>6
<1>6. ASSUME NEW ih \in InfoHashes, CleanTorrent(ih) PROVE Done
  <2> DEFINE o == shard[ih]
             new == clean(data[o], clean_now)
             removed(k) == [info_hash |-> ih, key |-> k,
                            peer_id |-> data[o].peers[k].peer_id]
  <2>1. o \in Objects /\ clean_now \in Nat
    BY <1>6 DEF CleanTorrent, TypeOK, FlowInv
  <2>2. Valid(new) /\ new.completed_count = data[o].completed_count
    BY <1>0, <2>1, CleanValid
  <2>3. data' = [data EXCEPT ![o] = new]
    BY <1>6 DEF CleanTorrent
  <2> HIDE DEF new
  <2>4. removals' \subseteq PeerRemoved
    <3>1. ASSUME NEW k \in Invalid(data[o], clean_now) PROVE removed(k) \in PeerRemoved
      <4>1. k \in Keys /\ data[o].peers[k] # NoPeer
        BY <3>1 DEF Invalid, Present
      <4>2. data[o].peers[k].peer_id \in PeerIds
        BY <1>0, <2>1, <4>1 DEF Map, Peer
      <4> QED BY <4>1, <4>2 DEF PeerRemoved
    <3>2. removals' = removals \cup {removed(k) : k \in Invalid(data[o], clean_now)}
      BY <1>6 DEF CleanTorrent
    <3> HIDE DEF removed
    <3> QED BY <3>1, <3>2 DEF TypeOK
  <2>5. pending_removal' \in [Objects -> BOOLEAN]
    BY <1>6 DEF CleanTorrent, TypeOK, is_empty
  <2>6. TypeOK'
    BY <1>6, <2>2, <2>3, <2>4, <2>5 DEF CleanTorrent, TypeOK, Valid
  <2>7. FlowInv'
    BY <1>6 DEF CleanTorrent, FlowInv, TypeOK
  <2> QED BY <1>0, <2>1, <2>2, <2>3, <2>6, <2>7
<1>7. CASE CleanStart \/ ScanDone
  <2>1. TypeOK' /\ FlowInv'
    BY <1>7 DEF CleanStart, ScanDone, TypeOK, FlowInv
  <2> QED BY <1>1, <1>7, <2>1 DEF CleanStart, ScanDone
<1>8. CASE Retain
  <2>1. TypeOK' /\ FlowInv'
    BY <1>8 DEF Retain, TypeOK, FlowInv
  <2> QED BY <1>1, <1>8, <2>1 DEF Retain
<1>9. CASE CleanDone \/ \E m \in removals : SendRemoval(m)
  <2>1. CASE CleanDone
    BY <1>1, <2>1 DEF CleanDone, TypeOK, FlowInv
  <2>2. ASSUME NEW m \in removals, SendRemoval(m) PROVE Done
    <3>1. m.peer_id \in PeerIds
      BY <2>2 DEF TypeOK, PeerRemoved
    <3>2. clients' \in [PeerIds -> Nat]
      BY <2>2, <3>1 DEF SendRemoval, TypeOK, Uncounted
    <3>3. TypeOK' /\ FlowInv'
      BY <2>2, <3>2 DEF SendRemoval, TypeOK, FlowInv
    <3> QED BY <1>1, <2>2, <3>3 DEF SendRemoval
  <2> QED BY <1>9, <2>1, <2>2
<1>10. ASSUME NEW list \in SUBSET InfoHashes, UpdateAccessList(list) PROVE Done
  <2>1. TypeOK' /\ FlowInv'
    BY <1>10 DEF UpdateAccessList, TypeOK, FlowInv
  <2> QED BY <1>1, <1>10, <2>1 DEF UpdateAccessList
<1>11. CASE Tick \/ UNCHANGED vars
  <2>1. TypeOK' /\ FlowInv'
    BY <1>11 DEF Tick, vars, TypeOK, FlowInv
  <2> QED BY <1>1, <1>11, <2>1 DEF Tick, vars
<1>12. ASSUME NEW w \in Workers,
              NEW req \in [info_hash: InfoHashes, key: Keys, peer_id: PeerIds,
                           event: Events, bytes_left: {0, 1},
                           valid_until: {now + max_peer_age}]
       PROVE  req \in Request
  BY SwarmAssumption DEF Request, TypeOK
<1> QED BY <1>2, <1>3, <1>4, <1>5, <1>6, <1>7, <1>8, <1>9, <1>10, <1>11, <1>12
        DEF Next, Cleaning

\* SwarmInv holds in every reachable state.
LEMMA SwarmInvariant == Spec => []SwarmInv
<1>1. Init => SwarmInv
  <2> SUFFICES ASSUME Init PROVE SwarmInv
    OBVIOUS
  <2>1. \A o \in Objects : Valid(data[o])
    BY DefaultValid DEF Init
  <2>2. Default \in Map
    BY DefaultValid DEF Valid
  <2> QED BY <2>1, <2>2 DEF Init, SwarmInv, TypeOK, FlowInv
<1>2. SwarmInv /\ [Next]_vars => SwarmInv'
  BY SwarmStep
<1> QED BY <1>1, <1>2, PTL DEF Spec

\* Type correctness; in particular no unsigned count is ever driven below 0.
THEOREM SwarmTypeCorrect == Spec => []TypeOK
<1>1. SwarmInv => TypeOK
  BY DEF SwarmInv
<1> QED BY <1>1, SwarmInvariant, PTL

\* The numbers of seeders and leechers that announces and scrapes report are
\* exact for every number of workers, torrents and peers and every capacity.
THEOREM SwarmCountsExact == Spec => []CountsExact
<1>1. SwarmInv => CountsExact
  BY ValidCounts DEF SwarmInv, CountsExact
<1> QED BY <1>1, SwarmInvariant, PTL

\* No announce pushes a peer into a small map that is full.
THEOREM SwarmSmallMapFits == Spec => []SmallMapFits
<1>1. SwarmInv => SmallMapFits
  BY DEF SwarmInv, SmallMapFits, Valid
<1> QED BY <1>1, SwarmInvariant, PTL

\* The download count of a torrent never drops, through any conversion.
THEOREM SwarmCompletedKept == Spec => CompletedNeverForgotten
<1>1. SwarmInv /\ [Next]_vars =>
         \A o \in Objects : data'[o].completed_count >= data[o].completed_count
  BY SwarmStep
<1> QED BY <1>1, SwarmInvariant, PTL DEF Spec, CompletedNeverForgotten

\* The cleaning thread unlinks only torrents that are empty or forbidden.
THEOREM SwarmNonEmptyKept == Spec => NonEmptyTorrentKept
<1> DEFINE Kept == \A ih \in InfoHashes :
                      /\ shard[ih] # NoObject
                      /\ shard'[ih] # shard[ih]
                      => ih \notin allowed \/ is_empty(data[shard[ih]])
<1>1. SwarmInv /\ [Next]_vars => Kept
  <2> SUFFICES ASSUME SwarmInv, [Next]_vars, NEW ih \in InfoHashes,
                      shard[ih] # NoObject, shard'[ih] # shard[ih]
               PROVE  ih \notin allowed \/ is_empty(data[shard[ih]])
    OBVIOUS
  <2>1. ASSUME NEW w \in Workers, CreateTorrent(w) PROVE FALSE
    BY <2>1 DEF CreateTorrent, SwarmInv, TypeOK
  <2>2. CASE Retain
    BY <2>2 DEF Retain, retained
  <2> QED BY <2>1, <2>2
          DEF Next, Cleaning, Receive, FindTorrent, Announce, CleanStart,
              CleanTorrent, ScanDone, SendRemoval, CleanDone, UpdateAccessList,
              Tick, vars
<1> QED BY <1>1, SwarmInvariant, PTL DEF Spec, NonEmptyTorrentKept

----------------------------------------------------------------------------
(***************************************************************************)
(* Client statistics                                                       *)
(***************************************************************************)
\* Peers of unlinked torrents are counted too: they are never reported as
\* removed, so the statistics keep them.
ClientInv ==
    /\ IsFiniteSet(Counted(clients))
    /\ IsFiniteSet(removals)
    /\ IsFiniteSet(StoredPeers(Objects))
    /\ Cardinality(Counted(clients))
          >= Cardinality(removals) + Cardinality(StoredPeers(Objects))

\* One more client of an id.
LEMMA CountMore ==
  ASSUME NEW c \in [PeerIds -> Nat], NEW id \in PeerIds, IsFiniteSet(Counted(c))
  PROVE  LET d == [c EXCEPT ![id] = @ + 1] IN
         IsFiniteSet(Counted(d)) /\ Cardinality(Counted(d)) = Cardinality(Counted(c)) + 1
<1> DEFINE d == [c EXCEPT ![id] = @ + 1]
           x == <<id, c[id] + 1>>
<1>1. ASSUME NEW i \in PeerIds, NEW n
      PROVE  n \in 1 .. d[i] <=> n \in 1 .. c[i] \/ <<i, n>> = x
  <2>1. d[i] = IF i = id THEN c[i] + 1 ELSE c[i]
    OBVIOUS
  <2>2. c[i] \in Nat
    OBVIOUS
  <2> HIDE DEF d
  <2> QED BY <2>1, <2>2
<1> HIDE DEF d
<1>2. Counted(d) = Counted(c) \cup {x}
  BY <1>1 DEF Counted
<1>3. x \notin Counted(c)
  <2>1. c[id] \in Nat
    OBVIOUS
  <2> QED BY <2>1 DEF Counted
<1> HIDE DEF x
<1>4. IsFiniteSet(Counted(d)) /\ Cardinality(Counted(d)) = Cardinality(Counted(c)) + 1
  BY <1>2, <1>3, FS_AddElement
<1> QED BY <1>4 DEF d

\* A removal lowers the total by at most one; by none if its id has no client.
LEMMA CountLess ==
  ASSUME NEW c \in [PeerIds -> Nat], NEW id \in PeerIds, IsFiniteSet(Counted(c))
  PROVE  LET d == [c EXCEPT ![id] = Uncounted(@)] IN
         IsFiniteSet(Counted(d)) /\ Cardinality(Counted(d)) >= Cardinality(Counted(c)) - 1
<1> DEFINE d == [c EXCEPT ![id] = Uncounted(@)]
           x == <<id, c[id]>>
<1>1. ASSUME NEW i \in PeerIds, NEW n
      PROVE  n \in 1 .. d[i] <=> n \in 1 .. c[i] /\ <<i, n>> # x
  <2>1. d[i] = IF i = id THEN Uncounted(c[i]) ELSE c[i]
    OBVIOUS
  <2>2. c[i] \in Nat
    OBVIOUS
  <2> HIDE DEF d
  <2> QED BY <2>1, <2>2 DEF Uncounted
<1> HIDE DEF d
<1>2. Counted(d) = Counted(c) \ {x}
  BY <1>1 DEF Counted
<1> HIDE DEF x
<1>3. Cardinality(Counted(c)) \in Nat
  BY FS_CardinalityType
<1>4. IsFiniteSet(Counted(d)) /\ Cardinality(Counted(d)) >= Cardinality(Counted(c)) - 1
  <2> DEFINE S == Counted(c)
  <2>1. IsFiniteSet(S \ {x})
        /\ Cardinality(S \ {x}) = IF x \in S THEN Cardinality(S) - 1 ELSE Cardinality(S)
    BY FS_RemoveElement
  <2> QED BY <1>2, <1>3, <2>1
<1> QED BY <1>4 DEF d

\* An announce changes the entry of its key only.
LEMMA AnnouncePeers ==
  ASSUME NEW map \in Map, NEW key \in Keys, NEW event, NEW bytes_left, NEW peer_id, NEW valid_until
  PROVE  LET new == announce(map, key, event, bytes_left, peer_id, valid_until) IN
         /\ \A k \in Keys : k # key => new.peers[k] = map.peers[k]
         /\ event = "stopped" => new.peers[key] = NoPeer
         /\ event # "stopped" =>
               /\ new.peers[key].peer_id = peer_id
               /\ peer_id \in PeerIds /\ valid_until \in Nat => new.peers[key] \in Peer
<1> DEFINE c == IF event = "completed" THEN map.completed_count + 1 ELSE map.completed_count
           counted == [map EXCEPT !.completed_count = c]
           removed == remove_peer(counted, key)
           status == from_event_and_bytes_left(event, bytes_left)
           resized == resize(removed, status)
           peer == [peer_id |-> peer_id, is_seeder |-> (status = "Seeding"),
                    valid_until |-> valid_until]
<1>1. counted.peers = map.peers /\ DOMAIN map.peers = Keys
      /\ DOMAIN counted = {"large", "peers", "num_seeders", "completed_count"}
  BY DEF Map
<1> HIDE DEF counted
<1>2. /\ removed.peers = [map.peers EXCEPT ![key] = NoPeer]
      /\ DOMAIN removed = {"large", "peers", "num_seeders", "completed_count"}
  BY <1>1 DEF remove_peer
<1> HIDE DEF removed
<1>3. /\ resized.peers = removed.peers
      /\ DOMAIN resized = {"large", "peers", "num_seeders", "completed_count"}
  BY <1>2 DEF resize, try_shrink, to_large
<1> HIDE DEF resized
<1>4. announce(map, key, event, bytes_left, peer_id, valid_until) =
         IF status = "Stopped" THEN resized ELSE insert(resized, key, peer)
  BY DEF announce, before_insert, status, resized, removed, counted, c, peer
<1>5. insert(resized, key, peer).peers = [resized.peers EXCEPT ![key] = peer]
  BY <1>3 DEF insert
<1>6. event = "stopped" <=> status = "Stopped"
  BY DEF from_event_and_bytes_left
<1>7. (status = "Seeding") \in BOOLEAN
  OBVIOUS
<1> HIDE DEF status
<1>8. CASE event = "stopped"
  BY <1>1, <1>2, <1>3, <1>4, <1>6, <1>8
<1>9. CASE event # "stopped"
  <2>1. announce(map, key, event, bytes_left, peer_id, valid_until).peers
           = [resized.peers EXCEPT ![key] = peer]
    BY <1>4, <1>5, <1>6, <1>9
  <2>2. resized.peers = [map.peers EXCEPT ![key] = NoPeer]
    BY <1>2, <1>3
  <2>3. peer.peer_id = peer_id /\ (peer_id \in PeerIds /\ valid_until \in Nat => peer \in Peer)
    BY <1>7 DEF Peer
  <2> HIDE DEF peer
  <2> QED
    BY <1>1, <1>9, <2>1, <2>2, <2>3
<1> QED
  BY <1>8, <1>9

\* Cleaning removes the expired entries only.
LEMMA CleanPeers ==
  ASSUME NEW map \in Map, NEW time
  PROVE  clean(map, time).peers =
            [k \in Keys |-> IF k \in Invalid(map, time) THEN NoPeer ELSE map.peers[k]]
<1> DEFINE peers == [k \in Keys |-> IF k \in Invalid(map, time) THEN NoPeer ELSE map.peers[k]]
           n == IF map.large
                THEN map.num_seeders - Cardinality(Invalid(map, time) \cap Seeders(map))
                ELSE map.num_seeders
           cleaned == [map EXCEPT !.peers = peers, !.num_seeders = n]
<1>1. clean(map, time) = IF map.large THEN try_shrink(cleaned) ELSE cleaned
  BY DEF clean
<1> HIDE DEF peers, n
<1>2. cleaned.peers = peers /\ DOMAIN cleaned = {"large", "peers", "num_seeders", "completed_count"}
  BY DEF Map
<1> HIDE DEF cleaned
<1>3. try_shrink(cleaned).peers = peers
  BY <1>2 DEF try_shrink
<1> QED
  BY <1>1, <1>2, <1>3 DEF peers

LEMMA ClientInit == Init => ClientInv
<1> SUFFICES ASSUME Init PROVE ClientInv
  OBVIOUS
<1>1. StoredPeers(Objects) = {}
  BY DEF Init, Default, StoredPeers
<1>2. Counted(clients) = {}
  BY DEF Init, Counted
<1> QED
  BY <1>1, <1>2, FS_EmptySet DEF Init, ClientInv

LEMMA AnnounceClients ==
  ASSUME SwarmInv, ClientInv, NEW w \in Workers, Announce(w)
  PROVE  ClientInv'
<1>1. PICK o \in Objects : o = held[w]
  BY DEF Announce, SwarmInv, TypeOK
<1>2. PICK r \in Request : r = request[w]
  BY <1>1, SwarmAssumption DEF Announce, SwarmInv, TypeOK, FlowInv
<1>3. r.key \in Keys /\ r.peer_id \in PeerIds /\ r.event \in Event
  BY DEF Request
<1>4. /\ data \in [Objects -> Map] /\ clients \in [PeerIds -> Nat]
      /\ data' = [data EXCEPT ![o] = announce(@, r.key, r.event, r.bytes_left, r.peer_id, r.valid_until)]
      /\ ReportAnnounce(r, data[o])
      /\ removals' = removals
  BY <1>1, <1>2 DEF Announce, SwarmInv, TypeOK
<1> DEFINE at == <<o, r.key>>
           S == StoredPeers(Objects)
           old == data[o].peers[r.key]
           new == data'[o].peers[r.key]
<1>5. /\ \A p \in Objects, k \in Keys : <<p, k>> # at => data'[p].peers[k] = data[p].peers[k]
      /\ r.event = "stopped" <=> new = NoPeer
  <2>1. data[o] \in Map
    BY <1>4
  <2>2. data'[o] = announce(data[o], r.key, r.event, r.bytes_left, r.peer_id, r.valid_until)
        /\ \A p \in Objects : p # o => data'[p] = data[p]
    BY <1>4
  <2>3. \A k \in Keys : k # r.key => data'[o].peers[k] = data[o].peers[k]
    BY <1>3, <2>1, <2>2, AnnouncePeers
  <2>4. r.event = "stopped" => new = NoPeer
    BY <1>3, <2>1, <2>2, AnnouncePeers
  <2>5. ASSUME r.event # "stopped" PROVE new # NoPeer
    <3>1. r.valid_until \in Nat
      BY DEF Request
    <3>2. new \in Peer
      BY <1>3, <2>1, <2>2, <2>5, <3>1, AnnouncePeers
    <3> QED
      BY <3>2, PeerMapAssumption
  <2> QED
    BY <2>2, <2>3, <2>4, <2>5
<1>6. r.key \in Present(data[o]) <=> old # NoPeer
  BY <1>3 DEF Present
<1>7. /\ (at \in S <=> old # NoPeer) /\ (at \in S' <=> new # NoPeer)
      /\ S' \ {at} = S \ {at}
  <2>1. at \in Objects \X Keys
    BY <1>3
  <2>2. (at \in S <=> old # NoPeer) /\ (at \in S' <=> new # NoPeer)
    BY <2>1 DEF StoredPeers
  <2>3. \A x \in Objects \X Keys : x # at => (x \in S' <=> x \in S)
    BY <1>5 DEF StoredPeers
  <2>4. S \subseteq Objects \X Keys /\ S' \subseteq Objects \X Keys
    BY DEF StoredPeers
  <2> HIDE DEF at, S, old, new
  <2> QED
    BY <2>2, <2>3, <2>4
<1>8. /\ IsFiniteSet(S) /\ IsFiniteSet(removals) /\ IsFiniteSet(Counted(clients))
      /\ Cardinality(S) \in Nat /\ Cardinality(removals) \in Nat
      /\ Cardinality(Counted(clients)) \in Nat
      /\ Cardinality(Counted(clients)) >= Cardinality(removals) + Cardinality(S)
  BY FS_CardinalityType DEF ClientInv
<1> DEFINE Goal == /\ IsFiniteSet(S') /\ IsFiniteSet(Counted(clients'))
                   /\ Cardinality(Counted(clients')) >= Cardinality(removals) + Cardinality(S')
<1> HIDE DEF at, S, old, new
<1>9. ASSUME new = NoPeer <=> old = NoPeer PROVE Goal
  <2>1. S' = S
    BY <1>7, <1>9
  <2>2. clients' = clients
    BY <1>3, <1>4, <1>5, <1>6, <1>9 DEF ReportAnnounce
  <2> QED
    BY <1>8, <2>1, <2>2
<1>10. ASSUME new # NoPeer, old = NoPeer PROVE Goal
  <2>1. S' = S \cup {at} /\ at \notin S
    BY <1>7, <1>10
  <2>2. clients' = [clients EXCEPT ![r.peer_id] = @ + 1]
    BY <1>3, <1>4, <1>5, <1>6, <1>10 DEF ReportAnnounce
  <2>3. IsFiniteSet(S') /\ Cardinality(S') = Cardinality(S) + 1
    BY <1>8, <2>1, FS_AddElement
  <2>4. IsFiniteSet(Counted(clients')) /\ Cardinality(Counted(clients')) = Cardinality(Counted(clients)) + 1
    BY <1>3, <1>4, <1>8, <2>2, CountMore
  <2> QED
    BY <1>8, <2>3, <2>4
<1>11. ASSUME new = NoPeer, old # NoPeer PROVE Goal
  <2>1. S' = S \ {at} /\ at \in S
    BY <1>7, <1>11
  <2>2. clients' = [clients EXCEPT ![r.peer_id] = Uncounted(@)]
    BY <1>3, <1>4, <1>5, <1>6, <1>11 DEF ReportAnnounce
  <2>3. IsFiniteSet(S') /\ Cardinality(S') = Cardinality(S) - 1
    BY <1>8, <2>1, FS_RemoveElement
  <2>4. IsFiniteSet(Counted(clients')) /\ Cardinality(Counted(clients')) >= Cardinality(Counted(clients)) - 1
    BY <1>3, <1>4, <1>8, <2>2, CountLess
  <2>5. Cardinality(Counted(clients')) \in Nat
    BY <2>4, FS_CardinalityType
  <2> QED
    BY <1>8, <2>3, <2>4, <2>5
<1>12. Goal
  BY <1>9, <1>10, <1>11
<1> QED
  BY <1>4, <1>8, <1>12 DEF ClientInv, S

LEMMA CleanClients ==
  ASSUME SwarmInv, ClientInv, NEW ih \in InfoHashes, CleanTorrent(ih)
  PROVE  ClientInv'
<1>1. PICK o \in Objects : o = shard[ih]
  BY DEF CleanTorrent, SwarmInv, TypeOK, FlowInv
<1> DEFINE gone == Invalid(data[o], clean_now)
           removed(k) == [info_hash |-> ih, key |-> k, peer_id |-> data[o].peers[k].peer_id]
           M == {removed(k) : k \in gone}
           S == StoredPeers(Objects)
           E == {o} \X gone
<1>2. /\ data \in [Objects -> Map]
      /\ data' = [data EXCEPT ![o] = clean(@, clean_now)]
      /\ removals' = removals \cup M
      /\ clients' = clients
  BY <1>1 DEF CleanTorrent, SwarmInv, TypeOK
<1>3. gone \subseteq Keys /\ \A k \in gone : data[o].peers[k] # NoPeer
  BY DEF Invalid, Present
<1>4. \A p \in Objects, k \in Keys :
         data'[p].peers[k] = IF p = o /\ k \in gone THEN NoPeer ELSE data[p].peers[k]
  <2>1. data'[o].peers = [k \in Keys |-> IF k \in gone THEN NoPeer ELSE data[o].peers[k]]
    BY <1>2, CleanPeers
  <2>2. \A p \in Objects : p # o => data'[p] = data[p]
    BY <1>2
  <2> HIDE DEF gone
  <2> QED
    BY <2>1, <2>2
<1> HIDE DEF gone
<1>5. IsFiniteSet(gone) /\ Cardinality(gone) \in Nat
  BY <1>3, FiniteKeys
<1>6. IsFiniteSet(M) /\ Cardinality(M) <= Cardinality(gone) /\ Cardinality(M) \in Nat
  <2> DEFINE f == [k \in gone |-> removed(k)]
  <2>1. f \in Surjection(gone, M)
    BY DEF Surjection
  <2> HIDE DEF f, M
  <2> QED
    BY <1>5, <2>1, FS_Surjection, FS_CardinalityType
<1>7. S' = S \ E /\ S \cap E = E
  BY <1>3, <1>4 DEF StoredPeers
<1>8. Cardinality(E) = Cardinality(gone)
  <2>1. IsFiniteSet({o}) /\ Cardinality({o}) = 1
    BY FS_Singleton
  <2>2. Cardinality({o} \X gone) = Cardinality({o}) * Cardinality(gone)
    BY <1>5, <2>1, FS_Product
  <2> QED
    BY <1>5, <2>1, <2>2
<1>9. /\ IsFiniteSet(S) /\ IsFiniteSet(removals) /\ IsFiniteSet(Counted(clients))
      /\ Cardinality(S) \in Nat /\ Cardinality(removals) \in Nat
      /\ Cardinality(Counted(clients)) \in Nat
      /\ Cardinality(Counted(clients)) >= Cardinality(removals) + Cardinality(S)
  BY FS_CardinalityType DEF ClientInv
<1> HIDE DEF M, S, E
<1>10. IsFiniteSet(S') /\ Cardinality(S') = Cardinality(S) - Cardinality(E)
  <2>1. /\ IsFiniteSet(S \ E)
        /\ Cardinality(S \ E) = Cardinality(S) - Cardinality(S \cap E)
    BY <1>9, FS_Difference
  <2> QED
    BY <1>7, <2>1, Zenon
<1>11. IsFiniteSet(removals') /\ Cardinality(removals') <= Cardinality(removals) + Cardinality(M)
  <2>1. /\ IsFiniteSet(removals \cup M)
        /\ Cardinality(removals \cup M) =
              Cardinality(removals) + Cardinality(M) - Cardinality(removals \cap M)
    BY <1>6, <1>9, FS_Union
  <2>2. Cardinality(removals \cap M) \in Nat
    BY <1>6, FS_Intersection, FS_CardinalityType
  <2> QED
    BY <1>2, <1>6, <1>9, <2>1, <2>2
<1>12. Cardinality(removals') \in Nat
  BY <1>11, FS_CardinalityType
<1>13. Cardinality(Counted(clients')) >= Cardinality(removals') + Cardinality(S')
  BY <1>2, <1>5, <1>6, <1>8, <1>9, <1>10, <1>11, <1>12
<1> QED
  BY <1>2, <1>9, <1>10, <1>11, <1>13 DEF ClientInv, S

LEMMA SendClients ==
  ASSUME SwarmInv, ClientInv, NEW m \in removals, SendRemoval(m)
  PROVE  ClientInv'
<1>1. /\ m.peer_id \in PeerIds /\ clients \in [PeerIds -> Nat]
      /\ clients' = [clients EXCEPT ![m.peer_id] = Uncounted(@)]
      /\ removals' = removals \ {m}
      /\ data' = data
  BY DEF SendRemoval, SwarmInv, TypeOK, PeerRemoved
<1>2. StoredPeers(Objects)' = StoredPeers(Objects)
  BY <1>1 DEF StoredPeers
<1>3. /\ IsFiniteSet(Counted(clients'))
      /\ Cardinality(Counted(clients')) >= Cardinality(Counted(clients)) - 1
  BY <1>1, CountLess DEF ClientInv
<1>4. IsFiniteSet(removals') /\ Cardinality(removals') = Cardinality(removals) - 1
  BY <1>1, FS_RemoveElement DEF ClientInv
<1>5. /\ Cardinality(Counted(clients)) \in Nat /\ Cardinality(Counted(clients')) \in Nat
      /\ Cardinality(removals) \in Nat /\ Cardinality(StoredPeers(Objects)) \in Nat
  BY <1>3, FS_CardinalityType DEF ClientInv
<1> QED
  BY <1>2, <1>3, <1>4, <1>5 DEF ClientInv

LEMMA ClientStep ==
  ASSUME SwarmInv, ClientInv, [Next]_vars
  PROVE  ClientInv'
<1>1. ASSUME UNCHANGED <<data, clients, removals>> PROVE ClientInv'
  <2>1. StoredPeers(Objects)' = StoredPeers(Objects)
    BY <1>1 DEF StoredPeers
  <2> QED
    BY <1>1, <2>1 DEF ClientInv
<1>2. ASSUME NEW w \in Workers, Announce(w) PROVE ClientInv'
  BY <1>2, AnnounceClients
<1>3. ASSUME NEW ih \in InfoHashes, CleanTorrent(ih) PROVE ClientInv'
  BY <1>3, CleanClients
<1>4. ASSUME NEW m \in removals, SendRemoval(m) PROVE ClientInv'
  BY <1>4, SendClients
<1>5. ASSUME NEW w \in Workers, NEW req, Receive(w, req) PROVE ClientInv'
  BY <1>1, <1>5 DEF Receive
<1>6. ASSUME NEW w \in Workers, FindTorrent(w) \/ CreateTorrent(w) PROVE ClientInv'
  BY <1>1, <1>6 DEF FindTorrent, CreateTorrent
<1>7. CASE \/ CleanStart \/ ScanDone \/ Retain \/ CleanDone \/ Tick \/ UNCHANGED vars
           \/ \E list \in SUBSET InfoHashes : UpdateAccessList(list)
  BY <1>1, <1>7 DEF CleanStart, ScanDone, Retain, CleanDone, Tick, UpdateAccessList, vars
<1> QED
  BY <1>2, <1>3, <1>4, <1>5, <1>6, <1>7 DEF Next, Cleaning

\* ClientsNeverUndercounted for every number of workers, torrents, peers and
\* ids, with ids that change from one announce to the next.  Every stored peer
\* was counted once when its key appeared, under whatever id, and a removal
\* lowers the total by at most one for a peer that is gone; ignored removals,
\* and peers of unlinked torrents, only make the total too high.
THEOREM SwarmClientsCounted == Spec => []ClientsNeverUndercounted
<1>1. Init => ClientInv
  BY ClientInit
<1>2. SwarmInv /\ ClientInv /\ [Next]_vars => ClientInv'
  BY ClientStep
<1>3. SwarmInv /\ ClientInv => ClientsNeverUndercounted
  <2> SUFFICES ASSUME SwarmInv, ClientInv PROVE ClientsNeverUndercounted
    OBVIOUS
  <2>1. StoredPeers(Linked) \subseteq StoredPeers(Objects)
    BY DEF StoredPeers, Linked, SwarmInv, TypeOK
  <2>2. /\ IsFiniteSet(StoredPeers(Linked))
        /\ Cardinality(StoredPeers(Linked)) <= Cardinality(StoredPeers(Objects))
    BY <2>1, FS_Subset DEF ClientInv
  <2>3. /\ Cardinality(Counted(clients)) \in Nat /\ Cardinality(removals) \in Nat
        /\ Cardinality(StoredPeers(Linked)) \in Nat
        /\ Cardinality(StoredPeers(Objects)) \in Nat
    BY <2>2, FS_CardinalityType DEF ClientInv
  <2> QED
    BY <2>2, <2>3 DEF ClientInv, ClientsNeverUndercounted
<1> QED
  BY <1>1, <1>2, <1>3, SwarmInvariant, PTL DEF Spec
============================================================================
