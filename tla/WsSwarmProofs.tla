--------------------------- MODULE WsSwarmProofs ---------------------------
(***************************************************************************)
(* Proofs about WsSwarm, for any number of connections, socket workers,    *)
(* peers and offers: every step keeps the types and the cached number of   *)
(* seeders, a connection has one peer at most, and an answer reaches the   *)
(* connection that made the offer, once.                                   *)
(***************************************************************************)
EXTENDS WsSwarm, TLAPS, FiniteSetTheorems

PeerMaps == [PeerIds -> Peer \cup {NoPeer}]

\* Sets of stored peers and of seeders are finite.
LEMMA FiniteStored ==
    ASSUME NEW map
    PROVE  /\ IsFiniteSet(Stored(map)) /\ Cardinality(Stored(map)) \in Nat
           /\ IsFiniteSet(Seeders(map)) /\ Cardinality(Seeders(map)) \in Nat
<1>1. Stored(map) \subseteq PeerIds /\ Seeders(map) \subseteq PeerIds
  BY DEF Stored, Seeders
<1>2. IsFiniteSet(Stored(map)) /\ IsFiniteSet(Seeders(map))
  BY <1>1, WsAssumption, FS_Subset
<1> QED BY <1>2, FS_CardinalityType

\* Removing peers removes exactly their share of the seeders.
LEMMA SeedersRemoved ==
    ASSUME NEW map, NEW other, NEW ids, Seeders(other) = Seeders(map) \ ids
    PROVE  Cardinality(Seeders(other)) =
              Cardinality(Seeders(map)) - Cardinality(Seeders(map) \cap ids)
BY FiniteStored, FS_Difference

\* insert_or_update_peer yields a peer, or none for a stopped announce.
LEMMA UpdatedType ==
    ASSUME NEW peer \in Peer \cup {NoPeer}, NEW c \in Connections,
           NEW status \in {"Stopped", "Seeding", "Leeching"}
    PROVE  /\ Updated(peer, c, status) \in Peer \cup {NoPeer}
           /\ (status = "Stopped") <=> (Updated(peer, c, status) = NoPeer)
           /\ status # "Stopped" =>
                 (Updated(peer, c, status).seeder <=> status = "Seeding")
<1>1. max_peer_age \in 0 .. max_peer_age /\ None \in None .. max_offer_age
  BY WsAssumption DEF None
<1>2. CASE status = "Stopped"
  BY <1>2 DEF Updated
<1>3. CASE status # "Stopped" /\ peer = NoPeer
  <2>1. Updated(peer, c, status) =
          [conn |-> c, seeder |-> status = "Seeding", valid_until |-> max_peer_age,
           expecting_answers |-> [e \in Awaitable |-> None]]
    BY <1>3 DEF Updated
  <2>2. Updated(peer, c, status) \in Peer
    BY <1>1, <2>1 DEF Peer
  <2>3. Updated(peer, c, status).seeder = (status = "Seeding")
    BY <2>1
  <2>4. Updated(peer, c, status) # NoPeer
    BY <2>2, WsAssumption
  <2> QED BY <1>3, <2>2, <2>3, <2>4
<1>4. CASE status # "Stopped" /\ peer # NoPeer
  <2>1. peer \in Peer
    BY <1>4
  <2>2. Updated(peer, c, status) =
          [peer EXCEPT !.seeder = (status = "Seeding"), !.valid_until = max_peer_age]
    BY <1>4 DEF Updated
  <2>3. Updated(peer, c, status) \in Peer
    BY <1>1, <2>1, <2>2 DEF Peer
  <2> QED BY <1>4, <2>1, <2>2, <2>3, WsAssumption DEF Peer
<1> QED BY <1>2, <1>3, <1>4

\* The cached count follows one announce exactly.
LEMMA SeedersUpdated ==
    ASSUME NEW map \in PeerMaps, NEW id \in PeerIds, NEW c \in Connections,
           NEW status \in {"Stopped", "Seeding", "Leeching"}
    PROVE  Cardinality(Seeders([map EXCEPT ![id] = Updated(map[id], c, status)])) =
              seeders_after(Cardinality(Seeders(map)), map[id], status)
<1> DEFINE new == Updated(map[id], c, status)
           S == Seeders(map)
           T == Seeders([map EXCEPT ![id] = new])
           was == id \in S
<1>1. map[id] \in Peer \cup {NoPeer}
  BY DEF PeerMaps
<1>2. was <=> map[id] # NoPeer /\ map[id].seeder
  BY DEF Seeders, Stored
<1>3. T = IF status = "Seeding" THEN S \cup {id} ELSE S \ {id}
  <2>1. [map EXCEPT ![id] = new][id] = new
    BY DEF PeerMaps
  <2>2. \A p \in PeerIds \ {id} : [map EXCEPT ![id] = new][p] = map[p]
    BY DEF PeerMaps
  <2>3. (id \in T) <=> status = "Seeding"
    <3>1. /\ (status = "Stopped") <=> (new = NoPeer)
          /\ status # "Stopped" => (new.seeder <=> status = "Seeding")
      BY <1>1, UpdatedType
    <3>2. (id \in T) <=> new # NoPeer /\ new.seeder
      BY <2>1 DEF Seeders, Stored
    <3> HIDE DEF new, T
    <3> QED BY <3>1, <3>2
  <2>4. \A p \in PeerIds \ {id} : p \in T <=> p \in S
    BY <2>2 DEF Seeders, Stored
  <2>5. S \subseteq PeerIds /\ T \subseteq PeerIds
    BY DEF Seeders, Stored
  <2> QED BY <2>3, <2>4, <2>5
<1>4. /\ IsFiniteSet(S) /\ Cardinality(S) \in Nat
  BY FiniteStored
<1>5. CASE status = "Seeding"
  <2>1. Cardinality(T) = IF was THEN Cardinality(S) ELSE Cardinality(S) + 1
    BY <1>3, <1>4, <1>5, FS_AddElement
  <2>2. seeders_after(Cardinality(S), map[id], status) =
           IF was THEN Cardinality(S) ELSE Cardinality(S) + 1
    BY <1>1, <1>2, <1>5 DEF seeders_after, Peer
  <2> QED BY <2>1, <2>2
<1>6. CASE status # "Seeding"
  <2>1. Cardinality(T) = IF was THEN Cardinality(S) - 1 ELSE Cardinality(S)
    BY <1>3, <1>4, <1>6, FS_RemoveElement
  <2>2. seeders_after(Cardinality(S), map[id], status) =
           IF was THEN Cardinality(S) - 1 ELSE Cardinality(S)
    BY <1>1, <1>2, <1>6 DEF seeders_after, Peer
  <2> QED BY <2>1, <2>2
<1> QED BY <1>5, <1>6

\* Receivers are stored peers other than the sender, one per offer at most.
LEMMA ReceiversType ==
    ASSUME NEW map, NEW id, NEW offers \in Seq(OfferIds),
           NEW to \in Receivers(map, id, offers)
    PROVE  \A i \in DOMAIN to : /\ to[i] \in Stored(map) \ {id}
                                /\ i \in 1 .. Len(offers)
<1> DEFINE others == Stored(map) \ {id}
           sizes == {Len(offers), max_offers, Cardinality(others)}
<1>1. Cardinality(others) \in Nat
  BY FiniteStored, FS_Difference, FS_CardinalityType
<1>2. Len(offers) \in Nat /\ max_offers \in Nat
  BY WsAssumption
<1>3. \E x \in sizes : \A y \in sizes : x =< y
  BY <1>1, <1>2
<1>4. Min(sizes) \in sizes /\ \A y \in sizes : Min(sizes) =< y
  BY <1>3 DEF Min
<1>5. Min(sizes) \in Nat /\ Min(sizes) <= Len(offers)
  BY <1>1, <1>2, <1>4
<1>6. to \in [1 .. Min(sizes) -> others]
  BY DEF Receivers, Injection
<1>7. PICK n : n \in Nat /\ n <= Len(offers) /\ to \in [1 .. n -> others]
  BY <1>5, <1>6
<1>8. \A i \in 1 .. n : to[i] \in others /\ i \in 1 .. Len(offers)
  BY <1>2, <1>7
<1> QED BY <1>7, <1>8

\* The same peers are stored for the same connections.
SameOwners(map, other) ==
    /\ Stored(other) = Stored(map)
    /\ \A p \in Stored(map) : other[p].conn = map[p].conn

\* handle_offers and handle_answer change awaited offers only.
LEMMA ExpectingOnly ==
    ASSUME NEW map \in PeerMaps, NEW id \in PeerIds, map[id] # NoPeer,
           NEW f \in [Awaitable -> None .. max_offer_age]
    PROVE  LET other == [map EXCEPT ![id].expecting_answers = f]
           IN  /\ other \in PeerMaps
               /\ Stored(other) = Stored(map)
               /\ Seeders(other) = Seeders(map)
               /\ SameOwners(map, other)
<1> DEFINE other == [map EXCEPT ![id].expecting_answers = f]
<1>1. map[id] \in Peer
  BY DEF PeerMaps
<1>2. other[id] = [map[id] EXCEPT !.expecting_answers = f]
  BY DEF PeerMaps
<1>3. other[id] \in Peer /\ other[id].seeder = map[id].seeder /\ other[id].conn = map[id].conn
  BY <1>1, <1>2 DEF Peer
<1>4. \A p \in PeerIds \ {id} : other[p] = map[p]
  BY DEF PeerMaps
<1>5. other \in PeerMaps
  BY <1>3, <1>4 DEF PeerMaps
<1>6. Stored(other) = Stored(map)
  BY <1>3, <1>4, WsAssumption DEF Stored
<1>7. Seeders(other) = Seeders(map)
  BY <1>3, <1>4, <1>6 DEF Seeders, Stored
<1>8. \A p \in Stored(map) : other[p].conn = map[p].conn
  BY <1>3, <1>4 DEF Stored
<1> QED BY <1>5, <1>6, <1>7, <1>8 DEF SameOwners

\* One announce that is not ignored: types and seeders.
LEMMA PassOnType ==
    ASSUME TypeOK, NEW m \in InMessage, NEW map \in PeerMaps,
           map[m.peer_id] # NoPeer, PassOn(m, map)
    PROVE  /\ peers' \in PeerMaps
           /\ Seeders(peers') = Seeders(map)
           /\ SameOwners(map, peers')
           /\ awaited' \subseteq Offered
<1> DEFINE a == m.announce
           id == m.peer_id
<1>1. /\ a \in Announce /\ id \in PeerIds /\ m.conn \in Connections
      /\ a.offers \in Seq(OfferIds) /\ a.answers \subseteq PeerIds \X OfferIds
  BY WsAssumption DEF InMessage, Announce
<1>2. PICK to \in Receivers(map, id, a.offers) :
        LET expecting == Expect(map, id, a.offers, to)
            taken == {x \in a.answers : Awaits(expecting, x[1], <<id, x[2]>>)}
        IN
        /\ peers' = IF taken = {} THEN expecting
                    ELSE LET x == CHOOSE x \in taken : TRUE
                         IN  Taken(expecting, x[1], <<id, x[2]>>)
        /\ awaited' \subseteq
              awaited \cup {<<connection_id[m.conn], id, to[i], a.offers[i]>> : i \in DOMAIN to}
  BY DEF PassOn
<1> DEFINE expecting == Expect(map, id, a.offers, to)
           taken == {x \in a.answers : Awaits(expecting, x[1], <<id, x[2]>>)}
           f == [e \in Awaitable |->
                    IF \E i \in DOMAIN to : e = <<to[i], a.offers[i]>>
                    THEN max_offer_age ELSE map[id].expecting_answers[e]]
<1>3. expecting = [map EXCEPT ![id].expecting_answers = f]
  BY DEF Expect
<1>4. f \in [Awaitable -> None .. max_offer_age]
  <2>1. map[id].expecting_answers \in [Awaitable -> None .. max_offer_age]
    BY <1>1 DEF PeerMaps, Peer
  <2>2. max_offer_age \in None .. max_offer_age
    BY WsAssumption DEF None
  <2> QED BY <2>1, <2>2
<1>5. /\ expecting \in PeerMaps
      /\ Stored(expecting) = Stored(map)
      /\ Seeders(expecting) = Seeders(map)
      /\ SameOwners(map, expecting)
  <2> HIDE DEF f, expecting
  <2> QED BY <1>1, <1>3, <1>4, ExpectingOnly
<1>6. /\ peers' \in PeerMaps
      /\ Seeders(peers') = Seeders(map)
      /\ SameOwners(map, peers')
  <2>1. CASE taken = {}
    BY <1>2, <1>5, <2>1
  <2>2. CASE taken # {}
    <3>1. PICK x \in taken : peers' = Taken(expecting, x[1], <<id, x[2]>>)
      BY <1>2, <2>2
    <3>2. x[1] \in PeerIds /\ x[2] \in OfferIds /\ expecting[x[1]] # NoPeer
      BY <1>1, <3>1 DEF Awaits
    <3> DEFINE g == [expecting[x[1]].expecting_answers EXCEPT ![<<id, x[2]>>] = None]
    <3>3. peers' = [expecting EXCEPT ![x[1]].expecting_answers = g]
      BY <3>1 DEF Taken
    <3>4. expecting[x[1]].expecting_answers \in [Awaitable -> None .. max_offer_age]
      BY <1>5, <3>2 DEF PeerMaps, Peer
    <3>5. None \in None .. max_offer_age
      BY WsAssumption DEF None
    <3>6. g \in [Awaitable -> None .. max_offer_age]
      BY <3>4, <3>5
    <3> HIDE DEF expecting, g
    <3>7. /\ peers' \in PeerMaps /\ Seeders(peers') = Seeders(expecting)
          /\ SameOwners(expecting, peers')
      BY <1>5, <3>2, <3>3, <3>6, ExpectingOnly
    <3>8. SameOwners(map, peers')
      BY <1>5, <3>7 DEF SameOwners
    <3> QED BY <1>5, <3>7, <3>8
  <2> QED BY <2>1, <2>2
<1>7. awaited' \subseteq Offered
  <2>1. \A i \in DOMAIN to : to[i] \in PeerIds /\ a.offers[i] \in OfferIds
    <3>1. \A i \in DOMAIN to : to[i] \in Stored(map) /\ i \in 1 .. Len(a.offers)
      BY <1>1, ReceiversType
    <3> QED BY <1>1, <3>1 DEF Stored
  <2>2. awaited \subseteq Offered
    BY DEF TypeOK
  <2>3. \A i \in DOMAIN to : <<connection_id[m.conn], id, to[i], a.offers[i]>> \in Offered
    BY <1>1, <2>1 DEF Offered
  <2> QED BY <1>2, <2>2, <2>3
<1> QED BY <1>6, <1>7

----------------------------------------------------------------------------
Inv == TypeOK /\ SeedersExact

\* Every step preserves the types and the cached count.
LEMMA InvStep == Inv /\ [Next]_vars => Inv'
<1> SUFFICES ASSUME Inv, [Next]_vars PROVE Inv'
  OBVIOUS
<1> USE DEF Inv
<1>1. ASSUME NEW c \in Connections, Open(c) PROVE Inv'
  BY <1>1 DEF Open, TypeOK, SeedersExact, Seeders, Stored, torrent, access
<1>2. ASSUME NEW c \in Connections, NEW id \in PeerIdsOf[c], NEW a \in Announces,
             ReceiveAnnounce(c, id, a)
      PROVE  Inv'
  <2>1. id \in PeerIds
    BY WsAssumption
  <2>2. [conn |-> c, peer_id |-> id, announce |-> a] \in InMessage
    BY <2>1 DEF InMessage
  <2> QED BY <1>2, <2>1, <2>2
          DEF ReceiveAnnounce, TypeOK, SeedersExact, Seeders, Stored, torrent, access
<1>3. ASSUME NEW c \in Connections, SendAnnounce(c) PROVE Inv'
  <2>1. consumer_id[c] \in Consumers /\ sending[c] \in InMessage
    BY <1>3, WsAssumption DEF SendAnnounce, TypeOK
  <2> QED BY <1>3, <2>1
          DEF SendAnnounce, TypeOK, SeedersExact, Seeders, Stored, torrent, access
<1>4. ASSUME NEW c \in Connections, Close(c) PROVE Inv'
  <2>1. consumer_id[c] \in Consumers
    BY WsAssumption
  <2>2. announced[c] # NoPeer => announced[c] \in PeerIds
    BY DEF TypeOK
  <2>3. control_channel' \in [Consumers -> Seq(PeerIds)]
    BY <1>4, <2>1, <2>2 DEF Close, TypeOK
  <2> QED BY <1>4, <2>3
          DEF Close, TypeOK, SeedersExact, Seeders, Stored, torrent, access
<1>5. ASSUME NEW w \in Consumers, HandleAnnounce(w) PROVE Inv'
  <2> DEFINE m == Head(in_channel[w])
             status == PeerStatus(m.announce)
             stored == [peers EXCEPT ![m.peer_id] =
                           Updated(peers[m.peer_id], m.conn, status)]
  <2>1. /\ in_channel[w] \in Seq(InMessage) /\ in_channel[w] # <<>>
        /\ in_channel' = [in_channel EXCEPT ![w] = Tail(@)]
        /\ UNCHANGED <<connections, control_channel, access>>
    BY <1>5 DEF HandleAnnounce, TypeOK
  <2>2. m \in InMessage
    BY <2>1
  <2>3. /\ m.peer_id \in PeerIds /\ m.conn \in Connections
        /\ status \in {"Stopped", "Seeding", "Leeching"}
    BY <2>2 DEF InMessage, PeerStatus
  <2>4. in_channel' \in [Consumers -> Seq(InMessage)]
    BY <2>1 DEF TypeOK
  <2>5. peers \in PeerMaps /\ num_seeders = Cardinality(Seeders(peers))
    BY DEF TypeOK, SeedersExact, PeerMaps
  <2>6. stored \in PeerMaps
    <3>1. Updated(peers[m.peer_id], m.conn, status) \in Peer \cup {NoPeer}
      BY <2>3, <2>5, UpdatedType DEF PeerMaps
    <3> HIDE DEF m, status
    <3> QED BY <2>3, <2>5, <3>1 DEF PeerMaps
  <2>7. /\ peers' \in PeerMaps /\ SeedersExact'
        /\ awaited' \subseteq Offered
    <3>1. CASE Ignored(peers[m.peer_id], m.conn)
      BY <1>5, <2>5, <3>1
         DEF HandleAnnounce, torrent, TypeOK, SeedersExact, Seeders, Stored
    <3>2. CASE ~Ignored(peers[m.peer_id], m.conn)
      <4>1. num_seeders' = seeders_after(num_seeders, peers[m.peer_id], status)
        BY <1>5, <3>2 DEF HandleAnnounce
      <4>2. /\ peers' \in PeerMaps /\ Seeders(peers') = Seeders(stored)
            /\ awaited' \subseteq Offered
        <5>1. CASE status = "Stopped"
          BY <1>5, <2>6, <3>2, <5>1 DEF HandleAnnounce, TypeOK
        <5>2. CASE status # "Stopped"
          <6>1. PassOn(m, stored)
            BY <1>5, <3>2, <5>2 DEF HandleAnnounce
          <6>2. peers[m.peer_id] \in Peer \cup {NoPeer}
            BY <2>3, <2>5 DEF PeerMaps
          <6>3. stored[m.peer_id] = Updated(peers[m.peer_id], m.conn, status)
            BY <2>3, <2>5 DEF PeerMaps
          <6>4. stored[m.peer_id] # NoPeer
            BY <2>3, <5>2, <6>2, <6>3, UpdatedType
          <6> HIDE DEF m, stored, status
          <6> QED BY <2>2, <2>6, <6>1, <6>4, PassOnType
        <5> QED BY <5>1, <5>2
      <4>3. Cardinality(Seeders(peers')) =
               seeders_after(Cardinality(Seeders(peers)), peers[m.peer_id], status)
        <5>1. Cardinality(Seeders(stored)) =
               seeders_after(Cardinality(Seeders(peers)), peers[m.peer_id], status)
          <6> HIDE DEF m, status
          <6> QED BY <2>3, <2>5, SeedersUpdated
        <5> HIDE DEF m, status, stored
        <5> QED BY <4>2, <5>1
      <4> QED BY <2>5, <4>1, <4>2, <4>3 DEF SeedersExact
    <3> QED BY <3>1, <3>2
  <2>8. num_seeders' \in Nat
    BY <2>7, FiniteStored DEF SeedersExact
  <2> QED BY <2>1, <2>4, <2>7, <2>8 DEF TypeOK, PeerMaps, connections, access
<1>6. ASSUME NEW w \in Consumers, HandleConnectionClosed(w) PROVE Inv'
  <2> DEFINE ids == {Head(control_channel[w])}
  <2>1. control_channel' \in [Consumers -> Seq(PeerIds)]
    BY <1>6 DEF HandleConnectionClosed, TypeOK
  <2>2. /\ peers' = Removed(peers, ids)
        /\ num_seeders' = num_seeders - Cardinality(Seeders(peers) \cap ids)
    BY <1>6 DEF HandleConnectionClosed, RemovePeers
  <2>3. peers' \in PeerMaps /\ Seeders(peers') = Seeders(peers) \ ids
    BY <2>2 DEF Removed, TypeOK, PeerMaps, Seeders, Stored
  <2>4. SeedersExact'
    BY <2>2, <2>3, SeedersRemoved DEF SeedersExact
  <2>5. num_seeders' \in Nat
    BY <2>4, FiniteStored DEF SeedersExact
  <2> QED BY <1>6, <2>1, <2>3, <2>4, <2>5
          DEF HandleConnectionClosed, TypeOK, PeerMaps, connections, access
<1>7. ASSUME clean PROVE Inv'
  <2>1. CASE allowed
    <3>1. \A p \in PeerIds : peers'[p] =
             IF peers[p] = NoPeer \/ p \in Expired THEN NoPeer ELSE Pruned(peers[p])
      BY <1>7, <2>1 DEF clean
    <3>2. \A peer \in Peer : /\ Pruned(peer) \in Peer
                              /\ Pruned(peer).seeder = peer.seeder
      BY WsAssumption DEF Pruned, Peer, None
    <3>3. peers' \in PeerMaps
      <4>1. \A p \in PeerIds : peers'[p] \in Peer \cup {NoPeer}
        BY <3>1, <3>2 DEF TypeOK
      <4> QED BY <1>7, <4>1 DEF clean, PeerMaps
    <3>4. Seeders(peers') = Seeders(peers) \ Expired
      BY <3>1, <3>2, WsAssumption DEF TypeOK, Seeders, Stored
    <3>5. num_seeders' = num_seeders - Cardinality(Seeders(peers) \cap Expired)
      BY <1>7, <2>1 DEF clean
    <3>6. SeedersExact'
      BY <3>4, <3>5, SeedersRemoved DEF SeedersExact
    <3>7. num_seeders' \in Nat
      BY <3>6, FiniteStored DEF SeedersExact
    <3> QED BY <1>7, <3>3, <3>6, <3>7
            DEF clean, TypeOK, PeerMaps, connections, access
  <2>2. CASE ~allowed
    <3>1. peers' = [p \in PeerIds |-> NoPeer] /\ num_seeders' = 0
      BY <1>7, <2>2 DEF clean
    <3>2. Seeders(peers') = {}
      BY <3>1 DEF Seeders, Stored
    <3>3. SeedersExact'
      BY <3>1, <3>2, FS_EmptySet DEF SeedersExact
    <3> QED BY <1>7, <3>1, <3>3 DEF clean, TypeOK, connections, access
  <2> QED BY <2>1, <2>2
<1>8. ASSUME Tick PROVE Inv'
  <2>1. \A left \in None .. max_offer_age : Elapsed(left) \in None .. max_offer_age
    BY WsAssumption DEF Elapsed, None
  <2>2. \A left \in 0 .. max_peer_age : Elapsed(left) \in 0 .. max_peer_age
    BY WsAssumption DEF Elapsed
  <2> DEFINE Older(peer) ==
        [peer EXCEPT !.valid_until = Elapsed(@),
                     !.expecting_answers = [e \in Awaitable |-> Elapsed(@[e])]]
  <2>3. \A peer \in Peer : Older(peer) \in Peer /\ Older(peer).seeder = peer.seeder
    BY <2>1, <2>2 DEF Peer
  <2>4. peers' = [p \in PeerIds |-> IF peers[p] = NoPeer THEN NoPeer ELSE Older(peers[p])]
    BY <1>8 DEF Tick
  <2> HIDE DEF Older
  <2>5. peers' \in PeerMaps /\ Seeders(peers') = Seeders(peers)
    BY <2>3, <2>4, WsAssumption DEF TypeOK, PeerMaps, Seeders, Stored
  <2> QED BY <1>8, <2>5
          DEF Tick, TypeOK, SeedersExact, PeerMaps, connections, access
<1>9. ASSUME ReloadAccessList PROVE Inv'
  BY <1>9 DEF ReloadAccessList, TypeOK, SeedersExact, Seeders, Stored, connections, torrent
<1>10. ASSUME UNCHANGED vars PROVE Inv'
  BY <1>10 DEF vars, connections, torrent, access, TypeOK, SeedersExact, Seeders, Stored
<1> QED BY <1>1, <1>2, <1>3, <1>4, <1>5, <1>6, <1>7, <1>8, <1>9, <1>10
        DEF Next, ConnectionStep

\* A fresh torrent has no peers and no seeders.
LEMMA InvInit == Init => Inv
<1> SUFFICES ASSUME Init PROVE Inv
  OBVIOUS
<1>1. Seeders(peers) = {}
  BY DEF Init, Seeders, Stored
<1>2. SeedersExact
  BY <1>1, FS_EmptySet DEF Init, SeedersExact
<1>3. TypeOK
  BY DEF Init, TypeOK
<1> QED BY <1>2, <1>3 DEF Inv

\* Every variable keeps its type: awaited offers stay within their ages and
\* the cached number of seeders never becomes negative.
THEOREM WsTypeCorrect == Spec => []TypeOK
BY InvInit, InvStep, PTL DEF Spec, Inv

\* The number of seeders that responses report is exact, whatever announces,
\* closed connections and cleaning do.
THEOREM WsSeedersExact == Spec => []SeedersExact
BY InvInit, InvStep, PTL DEF Spec, Inv

----------------------------------------------------------------------------
(***************************************************************************)
(* One peer per connection                                                 *)
(***************************************************************************)
Stops(m, c, p) == m.conn = c /\ m.peer_id = p /\ m.announce.event = "stopped"
Updates(m, c, p) == m.conn = c /\ m.peer_id = p /\ m.announce.event # "stopped"

\* Peers stored for a connection.
Owned(map, c) == {p \in PeerIds : map[p] # NoPeer /\ map[p].conn = c}

\* Connection c has its peer p stored (position 0), or has a request at
\* position i of its queue that will store it.
Alive(c, p, q, own, i) ==
    \/ i = 0 /\ p \in own
    \/ i \in DOMAIN q /\ Updates(q[i], c, p)

\* Between positions i and j of the queue there is a request to remove p.
StoppedIn(c, p, q, i, j) == \E k \in DOMAIN q : i < k /\ k < j /\ Stops(q[k], c, p)

\* Connection c with its queue q, the request s that its reader holds, the id a
\* that its reader remembers and its stored peers own: what stores a peer is
\* followed by its removal before any request with another id, the one that
\* the reader holds included, and before the reader forgets the id.
LineOk(c, q, s, a, op, cl, own) ==
    /\ s # NoAnnounce =>
          /\ c \in op /\ s.conn = c
          /\ s.announce.event # "stopped" => a = s.peer_id
    /\ \A p \in PeerIds : \A i \in 0 .. Len(q) : Alive(c, p, q, own, i) =>
          /\ c \in op \cup cl
          /\ \A j \in DOMAIN q :
                j > i /\ q[j].conn = c /\ q[j].peer_id # p => StoppedIn(c, p, q, i, j)
          /\ s # NoAnnounce /\ s.peer_id # p => StoppedIn(c, p, q, i, Len(q) + 1)
          /\ c \in op /\ a # p =>
                \/ StoppedIn(c, p, q, i, Len(q) + 1)
                \/ s # NoAnnounce /\ Stops(s, c, p)

\* Nothing of the connection changes but that it may close or lose peers.
LEMMA LineKept ==
  ASSUME NEW c, NEW q, NEW s, NEW a, NEW op, NEW cl, NEW own,
         NEW s2, NEW a2, NEW op2, NEW cl2, NEW own2,
         LineOk(c, q, s, a, op, cl, own), own2 \subseteq own,
         c \in op2 => c \in op /\ a2 = a /\ s2 = s,
         s2 # NoAnnounce => c \in op2,
         c \in op \cup cl => c \in op2 \cup cl2
  PROVE  LineOk(c, q, s2, a2, op2, cl2, own2)
<1>1. \A p, i : Alive(c, p, q, own2, i) => Alive(c, p, q, own, i)
  BY DEF Alive
<1> QED
  BY <1>1 DEF LineOk

\* A connection that has not been open has nothing stored or queued.
LEMMA LineOpened ==
  ASSUME NEW c, NEW q, NEW s, NEW a, NEW op, NEW cl, NEW own, NEW op2,
         LineOk(c, q, s, a, op, cl, own), c \notin op \cup cl
  PROVE  LineOk(c, q, s, a, op2, cl, own)
BY DEF LineOk

\* The request that the reader holds goes into the queue.
LEMMA LineSent ==
  ASSUME NEW c, NEW q \in Seq(InMessage), NEW s \in InMessage, NEW a, NEW op, NEW cl, NEW own,
         s # NoAnnounce, LineOk(c, q, s, a, op, cl, own)
  PROVE  LineOk(c, Append(q, s), NoAnnounce, a, op, cl, own)
<1> DEFINE n == Len(q)
           t == Append(q, s)
<1>1. n \in Nat /\ DOMAIN q = 1 .. n
  OBVIOUS
<1>2. DOMAIN t = 1 .. n + 1 /\ Len(t) = n + 1 /\ t[n + 1] = s /\ \A i \in 1 .. n : t[i] = q[i]
  OBVIOUS
<1>3. s.conn = c /\ c \in op /\ (s.announce.event # "stopped" => a = s.peer_id)
  BY DEF LineOk
<1> HIDE DEF n, t
<1> SUFFICES ASSUME NEW p \in PeerIds, NEW i \in 0 .. n + 1, Alive(c, p, t, own, i)
             PROVE  /\ c \in op \cup cl
                    /\ \A j \in DOMAIN t :
                          j > i /\ t[j].conn = c /\ t[j].peer_id # p => StoppedIn(c, p, t, i, j)
                    /\ c \in op /\ a # p => StoppedIn(c, p, t, i, n + 1 + 1)
  BY <1>2 DEF LineOk, t
<1>4. CASE i = n + 1
  <2>1. Updates(s, c, p)
    BY <1>1, <1>2, <1>4 DEF Alive
  <2>2. a = p
    BY <1>3, <2>1 DEF Updates
  <2>3. \A j \in DOMAIN t : ~(j > i)
    BY <1>1, <1>2, <1>4
  <2> QED
    BY <1>3, <2>2, <2>3
<1>5. CASE i # n + 1
  <2>1. i \in 0 .. n
    BY <1>1, <1>5
  <2>2. Alive(c, p, q, own, i)
    BY <1>1, <1>2, <2>1 DEF Alive
  <2>3. /\ \A j \in DOMAIN q :
              j > i /\ q[j].conn = c /\ q[j].peer_id # p => StoppedIn(c, p, q, i, j)
        /\ s.peer_id # p => StoppedIn(c, p, q, i, n + 1)
        /\ a # p => StoppedIn(c, p, q, i, n + 1) \/ Stops(s, c, p)
    BY <1>3, <2>1, <2>2 DEF LineOk, n
  <2>4. \A j \in Nat : StoppedIn(c, p, q, i, j) => StoppedIn(c, p, t, i, j)
    BY <1>1, <1>2 DEF StoppedIn
  <2>5. StoppedIn(c, p, q, i, n + 1) => StoppedIn(c, p, t, i, n + 1 + 1)
    <3> SUFFICES ASSUME NEW k \in DOMAIN q, i < k, k < n + 1, Stops(q[k], c, p)
                 PROVE  StoppedIn(c, p, t, i, n + 1 + 1)
      BY DEF StoppedIn
    <3>1. k \in DOMAIN t /\ i < k /\ k < n + 1 + 1 /\ t[k] = q[k]
      BY <1>1, <1>2
    <3> QED
      BY <3>1 DEF StoppedIn
  <2>6. Stops(s, c, p) => StoppedIn(c, p, t, i, n + 1 + 1)
    <3>1. n + 1 \in DOMAIN t /\ i < n + 1 /\ n + 1 < n + 1 + 1 /\ t[n + 1] = s
      BY <1>1, <1>2, <2>1
    <3> QED
      BY <3>1 DEF StoppedIn
  <2>7. ASSUME NEW j \in DOMAIN t, j > i, t[j].conn = c, t[j].peer_id # p
        PROVE  StoppedIn(c, p, t, i, j)
    <3>1. CASE j = n + 1
      BY <1>1, <1>2, <2>3, <2>4, <2>7, <3>1
    <3>2. CASE j # n + 1
      <4>1. j \in DOMAIN q /\ j \in Nat /\ t[j] = q[j]
        BY <1>1, <1>2, <3>2
      <4> QED
        BY <2>3, <2>4, <2>7, <4>1
    <3> QED
      BY <3>1, <3>2
  <2> QED
    BY <1>3, <2>3, <2>5, <2>6, <2>7
<1> QED
  BY <1>4, <1>5

\* Another connection's request goes into the queue.
LEMMA LineOther ==
  ASSUME NEW c, NEW q \in Seq(InMessage), NEW m \in InMessage, m.conn # c,
         NEW s, NEW a, NEW op, NEW cl, NEW own, LineOk(c, q, s, a, op, cl, own)
  PROVE  LineOk(c, Append(q, m), s, a, op, cl, own)
<1> DEFINE n == Len(q)
           t == Append(q, m)
<1>1. n \in Nat /\ DOMAIN q = 1 .. n
  OBVIOUS
<1>2. DOMAIN t = 1 .. n + 1 /\ Len(t) = n + 1 /\ t[n + 1] = m /\ \A i \in 1 .. n : t[i] = q[i]
  OBVIOUS
<1> HIDE DEF n, t
<1>3. ASSUME NEW p \in PeerIds, NEW i \in 0 .. n + 1, Alive(c, p, t, own, i)
      PROVE  i \in 0 .. n /\ Alive(c, p, q, own, i)
  BY <1>1, <1>2, <1>3 DEF Alive, Updates
<1>4. ASSUME NEW p, NEW i \in 0 .. n, NEW j \in Nat, NEW l \in Nat, j <= l, StoppedIn(c, p, q, i, j)
      PROVE  StoppedIn(c, p, t, i, l)
  <2>1. PICK k \in DOMAIN q : i < k /\ k < j /\ Stops(q[k], c, p)
    BY <1>4 DEF StoppedIn
  <2>2. k \in DOMAIN t /\ i < k /\ k < l /\ t[k] = q[k]
    BY <1>1, <1>2, <1>4, <2>1
  <2> QED
    BY <2>1, <2>2 DEF StoppedIn
<1>5. ASSUME NEW p \in PeerIds, NEW i \in 0 .. n + 1, Alive(c, p, t, own, i)
      PROVE  /\ c \in op \cup cl
             /\ \A j \in DOMAIN t :
                   j > i /\ t[j].conn = c /\ t[j].peer_id # p => StoppedIn(c, p, t, i, j)
             /\ s # NoAnnounce /\ s.peer_id # p => StoppedIn(c, p, t, i, n + 1 + 1)
             /\ c \in op /\ a # p =>
                   \/ StoppedIn(c, p, t, i, n + 1 + 1)
                   \/ s # NoAnnounce /\ Stops(s, c, p)
  <2>1. i \in 0 .. n /\ Alive(c, p, q, own, i)
    BY <1>3, <1>5
  <2>2. /\ c \in op \cup cl
        /\ \A j \in DOMAIN q :
              j > i /\ q[j].conn = c /\ q[j].peer_id # p => StoppedIn(c, p, q, i, j)
        /\ s # NoAnnounce /\ s.peer_id # p => StoppedIn(c, p, q, i, n + 1)
        /\ c \in op /\ a # p =>
              \/ StoppedIn(c, p, q, i, n + 1)
              \/ s # NoAnnounce /\ Stops(s, c, p)
    BY <2>1 DEF LineOk, n
  <2>3. StoppedIn(c, p, q, i, n + 1) => StoppedIn(c, p, t, i, n + 1 + 1)
    BY <1>1, <1>4, <2>1
  <2>4. ASSUME NEW j \in DOMAIN t, j > i, t[j].conn = c, t[j].peer_id # p
        PROVE  StoppedIn(c, p, t, i, j)
    <3>1. j \in DOMAIN q /\ j \in Nat /\ j <= j /\ t[j] = q[j]
      BY <1>1, <1>2, <2>4
    <3> QED
      BY <1>4, <2>1, <2>2, <2>4, <3>1
  <2> QED
    BY <2>2, <2>3, <2>4
<1> QED
  BY <1>2, <1>5 DEF LineOk, t

\* The reader takes an announce from its client: it remembers no other id.
LEMMA LineReceived ==
  ASSUME NEW c, NEW q \in Seq(InMessage), NEW a, NEW op, NEW cl, NEW own,
         NEW m \in InMessage, m.conn = c, c \in op, a \in {NoPeer, m.peer_id},
         LineOk(c, q, NoAnnounce, a, op, cl, own)
  PROVE  LineOk(c, q, m, IF m.announce.event = "stopped" THEN NoPeer ELSE m.peer_id, op, cl, own)
<1> DEFINE b == IF m.announce.event = "stopped" THEN NoPeer ELSE m.peer_id
           n == Len(q)
<1>1. m # NoAnnounce /\ NoPeer \notin PeerIds /\ n \in Nat
  BY WsAssumption
<1>2. ASSUME NEW p \in PeerIds, NEW i \in 0 .. n, Alive(c, p, q, own, i)
      PROVE  /\ \A j \in DOMAIN q :
                   j > i /\ q[j].conn = c /\ q[j].peer_id # p => StoppedIn(c, p, q, i, j)
             /\ m.peer_id # p => StoppedIn(c, p, q, i, n + 1)
             /\ b # p => StoppedIn(c, p, q, i, n + 1) \/ Stops(m, c, p)
  <2>1. /\ \A j \in DOMAIN q :
              j > i /\ q[j].conn = c /\ q[j].peer_id # p => StoppedIn(c, p, q, i, j)
        /\ a # p => StoppedIn(c, p, q, i, n + 1)
    BY <1>2 DEF LineOk
  <2>2. m.peer_id # p => a # p
    BY <1>1
  <2>3. b # p /\ m.peer_id = p => Stops(m, c, p)
    BY DEF Stops
  <2> QED
    BY <2>1, <2>2, <2>3
<1>3. m.announce.event # "stopped" => b = m.peer_id
  OBVIOUS
<1> HIDE DEF b
<1>4. LineOk(c, q, m, b, op, cl, own)
  BY <1>1, <1>2, <1>3 DEF LineOk, n
<1> QED
  BY <1>4 DEF b

\* The swarm worker takes the first request of the queue: what it stores was
\* alive at position 1, and what it was told to remove is gone.
LEMMA LineHandled ==
  ASSUME NEW c, NEW q \in Seq(InMessage), q # <<>>, NEW s, NEW a, NEW op, NEW cl,
         NEW own \in SUBSET PeerIds, NEW own2,
         \A p \in own2 : \/ p \in own /\ ~Stops(q[1], c, p)
                         \/ Updates(q[1], c, p),
         LineOk(c, q, s, a, op, cl, own)
  PROVE  LineOk(c, Tail(q), s, a, op, cl, own2)
<1> DEFINE n == Len(q)
           t == Tail(q)
<1>1. n \in Nat /\ n >= 1 /\ DOMAIN q = 1 .. n
  OBVIOUS
<1>2. DOMAIN t = 1 .. n - 1 /\ Len(t) = n - 1 /\ \A i \in 1 .. n - 1 : t[i] = q[i + 1]
  OBVIOUS
<1> HIDE DEF n, t
\* Position i of the new queue was position f of the old one.
<1>3. ASSUME NEW p \in PeerIds, NEW i \in 0 .. n - 1, Alive(c, p, t, own2, i)
      PROVE  \E f \in 0 .. n : /\ Alive(c, p, q, own, f)
                               /\ f = i + 1 \/ (f = 0 /\ i = 0 /\ ~Stops(q[1], c, p))
  <2>1. CASE i \in DOMAIN t /\ Updates(t[i], c, p)
    <3>1. i + 1 \in 0 .. n /\ i + 1 \in DOMAIN q /\ t[i] = q[i + 1]
      BY <1>1, <1>2, <2>1
    <3> QED
      BY <2>1, <3>1 DEF Alive
  <2>2. CASE i = 0 /\ p \in own2
    <3>1. CASE p \in own /\ ~Stops(q[1], c, p)
      <4>1. 0 \in 0 .. n /\ Alive(c, p, q, own, 0)
        BY <1>1, <3>1 DEF Alive
      <4> QED
        BY <2>2, <3>1, <4>1
    <3>2. CASE Updates(q[1], c, p)
      <4>1. 1 \in 0 .. n /\ 1 \in DOMAIN q /\ 1 = i + 1
        BY <1>1, <2>2
      <4>2. Alive(c, p, q, own, 1)
        BY <3>2, <4>1 DEF Alive
      <4> QED
        BY <4>1, <4>2
    <3> QED
      BY <2>2, <3>1, <3>2
  <2> QED
    BY <1>3, <2>1, <2>2 DEF Alive
<1>4. ASSUME NEW p \in PeerIds, NEW i \in 0 .. n - 1, NEW f \in 0 .. n,
             f = i + 1 \/ (f = 0 /\ i = 0 /\ ~Stops(q[1], c, p)),
             NEW j \in 0 .. n, StoppedIn(c, p, q, f, j + 1)
      PROVE  StoppedIn(c, p, t, i, j)
  <2>1. PICK k \in DOMAIN q : f < k /\ k < j + 1 /\ Stops(q[k], c, p)
    BY <1>4 DEF StoppedIn
  <2>2. k # 1 /\ k \in 1 .. n
    BY <1>1, <1>4, <2>1
  <2>3. k - 1 \in 1 .. n - 1 /\ k - 1 + 1 = k /\ i < k - 1 /\ k - 1 < j
    BY <1>1, <1>4, <2>1, <2>2
  <2>4. k - 1 \in DOMAIN t /\ t[k - 1] = q[k]
    BY <1>2, <2>3
  <2> QED
    BY <2>1, <2>3, <2>4 DEF StoppedIn
<1>5. ASSUME NEW p \in PeerIds, NEW i \in 0 .. n - 1, Alive(c, p, t, own2, i)
      PROVE  /\ c \in op \cup cl
             /\ \A j \in DOMAIN t :
                   j > i /\ t[j].conn = c /\ t[j].peer_id # p => StoppedIn(c, p, t, i, j)
             /\ s # NoAnnounce /\ s.peer_id # p => StoppedIn(c, p, t, i, n)
             /\ c \in op /\ a # p =>
                   \/ StoppedIn(c, p, t, i, n)
                   \/ s # NoAnnounce /\ Stops(s, c, p)
  <2>1. PICK f \in 0 .. n : /\ Alive(c, p, q, own, f)
                            /\ f = i + 1 \/ (f = 0 /\ i = 0 /\ ~Stops(q[1], c, p))
    BY <1>3, <1>5
  <2>2. /\ c \in op \cup cl
        /\ \A j \in DOMAIN q :
              j > f /\ q[j].conn = c /\ q[j].peer_id # p => StoppedIn(c, p, q, f, j)
        /\ s # NoAnnounce /\ s.peer_id # p => StoppedIn(c, p, q, f, n + 1)
        /\ c \in op /\ a # p =>
              \/ StoppedIn(c, p, q, f, n + 1)
              \/ s # NoAnnounce /\ Stops(s, c, p)
    BY <2>1 DEF LineOk, n
  <2>3. StoppedIn(c, p, q, f, n + 1) => StoppedIn(c, p, t, i, n)
    BY <1>1, <1>4, <2>1
  <2>4. ASSUME NEW j \in DOMAIN t, j > i, t[j].conn = c, t[j].peer_id # p
        PROVE  StoppedIn(c, p, t, i, j)
    <3>1. j \in 0 .. n /\ j + 1 \in DOMAIN q /\ t[j] = q[j + 1] /\ j + 1 > f
      BY <1>1, <1>2, <2>1, <2>4
    <3>2. StoppedIn(c, p, q, f, j + 1)
      BY <2>2, <2>4, <3>1
    <3> QED
      BY <1>4, <2>1, <3>1, <3>2
  <2> QED
    BY <2>2, <2>3, <2>4
<1>6. n - 1 + 1 = n
  BY <1>1
<1> QED
  BY <1>2, <1>5, <1>6 DEF LineOk, t

Queue(c) == in_channel[consumer_id[c]]

OwnerInv ==
    /\ \A w \in Consumers : \A i \in DOMAIN in_channel[w] : consumer_id[in_channel[w][i].conn] = w
    /\ \A c \in Connections :
          LineOk(c, Queue(c), sending[c], announced[c], open, closed, Owned(peers, c))
    /\ OnePeerPerConnection

LEMMA UpdatedConn ==
  ASSUME NEW peer \in Peer \cup {NoPeer}, NEW c \in Connections,
         NEW status \in {"Seeding", "Leeching"}
  PROVE  /\ peer = NoPeer => Updated(peer, c, status).conn = c
         /\ peer # NoPeer => Updated(peer, c, status).conn = peer.conn
<1>1. CASE peer = NoPeer
  <2>1. Updated(peer, c, status) =
          [conn |-> c, seeder |-> status = "Seeding", valid_until |-> max_peer_age,
           expecting_answers |-> [e \in Awaitable |-> None]]
    BY <1>1 DEF Updated
  <2> QED BY <1>1, <2>1
<1>2. CASE peer # NoPeer
  <2>1. Updated(peer, c, status) =
          [peer EXCEPT !.seeder = (status = "Seeding"), !.valid_until = max_peer_age]
    BY <1>2 DEF Updated
  <2>2. peer \in Peer
    BY <1>2
  <2> QED BY <1>2, <2>1, <2>2 DEF Peer
<1> QED BY <1>1, <1>2

\* The request that HandleAnnounce takes, and the map it stores.
LEMMA HandleFacts ==
  ASSUME TypeOK, NEW w \in Consumers, HandleAnnounce(w)
  PROVE  \E m \in InMessage, stored \in PeerMaps :
           /\ in_channel[w] \in Seq(InMessage) /\ in_channel[w] # <<>> /\ m = in_channel[w][1]
           /\ in_channel' = [in_channel EXCEPT ![w] = Tail(@)]
           /\ m.conn \in Connections /\ m.peer_id \in PeerIds
           /\ \A p \in PeerIds : p # m.peer_id => stored[p] = peers[p]
           /\ stored[m.peer_id] = Updated(peers[m.peer_id], m.conn, PeerStatus(m.announce))
           /\ PeerStatus(m.announce) \in {"Stopped", "Seeding", "Leeching"}
           /\ PeerStatus(m.announce) = "Stopped" <=> m.announce.event = "stopped"
           /\ \/ /\ Ignored(peers[m.peer_id], m.conn)
                 /\ out_messages' = {} /\ UNCHANGED <<peers, awaited>>
              \/ /\ ~Ignored(peers[m.peer_id], m.conn) /\ PeerStatus(m.announce) = "Stopped"
                 /\ peers' = stored /\ stored[m.peer_id] = NoPeer
                 /\ out_messages' = {} /\ UNCHANGED awaited
              \/ /\ ~Ignored(peers[m.peer_id], m.conn) /\ PeerStatus(m.announce) # "Stopped"
                 /\ PassOn(m, stored) /\ stored[m.peer_id] # NoPeer
<1>1. /\ in_channel[w] \in Seq(InMessage) /\ in_channel[w] # <<>>
      /\ in_channel' = [in_channel EXCEPT ![w] = Tail(@)]
  BY DEF HandleAnnounce, TypeOK
<1>2. PICK m \in InMessage : m = Head(in_channel[w]) /\ m = in_channel[w][1]
  BY <1>1
<1>3. m.conn \in Connections /\ m.peer_id \in PeerIds
  BY DEF InMessage
<1> DEFINE status == PeerStatus(m.announce)
           new == Updated(peers[m.peer_id], m.conn, status)
<1>4. status \in {"Stopped", "Seeding", "Leeching"} /\ (status = "Stopped" <=> m.announce.event = "stopped")
  BY DEF PeerStatus
<1>5. peers \in PeerMaps /\ peers[m.peer_id] \in Peer \cup {NoPeer}
  BY <1>3 DEF TypeOK, PeerMaps
<1>6. PICK stored : stored = [peers EXCEPT ![m.peer_id] = new]
  OBVIOUS
<1>7. /\ \/ /\ Ignored(peers[m.peer_id], m.conn)
            /\ out_messages' = {} /\ UNCHANGED <<peers, awaited>>
         \/ /\ ~Ignored(peers[m.peer_id], m.conn)
            /\ IF status = "Stopped"
               THEN peers' = stored /\ out_messages' = {} /\ UNCHANGED awaited
               ELSE PassOn(m, stored)
  BY <1>2, <1>6 DEF HandleAnnounce, torrent
<1> HIDE DEF status
<1>8. new \in Peer \cup {NoPeer} /\ (status = "Stopped" <=> new = NoPeer)
  BY <1>3, <1>4, <1>5, UpdatedType
<1> HIDE DEF new
<1>9. /\ stored \in PeerMaps /\ stored[m.peer_id] = new
      /\ \A p \in PeerIds : p # m.peer_id => stored[p] = peers[p]
  BY <1>3, <1>5, <1>6, <1>8 DEF PeerMaps
<1>10. \/ /\ Ignored(peers[m.peer_id], m.conn)
          /\ out_messages' = {} /\ UNCHANGED <<peers, awaited>>
       \/ /\ ~Ignored(peers[m.peer_id], m.conn) /\ status = "Stopped"
          /\ peers' = stored /\ stored[m.peer_id] = NoPeer
          /\ out_messages' = {} /\ UNCHANGED awaited
       \/ /\ ~Ignored(peers[m.peer_id], m.conn) /\ status # "Stopped"
          /\ PassOn(m, stored) /\ stored[m.peer_id] # NoPeer
  BY <1>7, <1>8, <1>9
<1> QED BY <1>1, <1>2, <1>3, <1>4, <1>9, <1>10 DEF status, new

\* Who owns what after one request.
LEMMA HandleOwned ==
  ASSUME TypeOK, NEW w \in Consumers, HandleAnnounce(w)
  PROVE  /\ in_channel[w] \in Seq(InMessage) /\ in_channel[w] # <<>>
         /\ in_channel' = [in_channel EXCEPT ![w] = Tail(@)]
         /\ \A c \in Connections : \A p \in Owned(peers', c) :
              \/ p \in Owned(peers, c) /\ ~Stops(in_channel[w][1], c, p)
              \/ Updates(in_channel[w][1], c, p) /\ peers[p] = NoPeer
<1>1. PICK m \in InMessage, stored \in PeerMaps :
           /\ in_channel[w] \in Seq(InMessage) /\ in_channel[w] # <<>> /\ m = in_channel[w][1]
           /\ in_channel' = [in_channel EXCEPT ![w] = Tail(@)]
           /\ m.conn \in Connections /\ m.peer_id \in PeerIds
           /\ \A p \in PeerIds : p # m.peer_id => stored[p] = peers[p]
           /\ stored[m.peer_id] = Updated(peers[m.peer_id], m.conn, PeerStatus(m.announce))
           /\ PeerStatus(m.announce) \in {"Stopped", "Seeding", "Leeching"}
           /\ PeerStatus(m.announce) = "Stopped" <=> m.announce.event = "stopped"
           /\ \/ /\ Ignored(peers[m.peer_id], m.conn)
                 /\ out_messages' = {} /\ UNCHANGED <<peers, awaited>>
              \/ /\ ~Ignored(peers[m.peer_id], m.conn) /\ PeerStatus(m.announce) = "Stopped"
                 /\ peers' = stored /\ stored[m.peer_id] = NoPeer
                 /\ out_messages' = {} /\ UNCHANGED awaited
              \/ /\ ~Ignored(peers[m.peer_id], m.conn) /\ PeerStatus(m.announce) # "Stopped"
                 /\ PassOn(m, stored) /\ stored[m.peer_id] # NoPeer
  BY HandleFacts
<1> DEFINE status == PeerStatus(m.announce)
<1>2. ASSUME NEW c \in Connections, NEW p \in Owned(peers', c)
      PROVE  \/ p \in Owned(peers, c) /\ ~Stops(m, c, p)
             \/ Updates(m, c, p) /\ peers[p] = NoPeer
  <2>1. p \in PeerIds /\ peers'[p] # NoPeer /\ peers'[p].conn = c
    BY <1>2 DEF Owned
  <2>2. CASE Ignored(peers[m.peer_id], m.conn)
    <3>1. p \in Owned(peers, c)
      BY <1>1, <1>2, <2>2
    <3>2. ~Stops(m, c, p)
      BY <2>2, <3>1 DEF Stops, Ignored, SameConnection, Owned
    <3> QED BY <3>1, <3>2
  <2>3. CASE ~Ignored(peers[m.peer_id], m.conn)
    <3>1. SameOwners(stored, peers')
      <4>1. CASE status = "Stopped"
        BY <1>1, <2>3, <4>1 DEF SameOwners
      <4>2. CASE status # "Stopped"
        BY <1>1, <2>3, <4>2, PassOnType
      <4> QED BY <4>1, <4>2
    <3>2. stored[p] # NoPeer /\ stored[p].conn = c
      BY <2>1, <3>1 DEF SameOwners, Stored
    <3>3. CASE p # m.peer_id
      BY <1>1, <2>1, <3>2, <3>3 DEF Owned, Stops
    <3>4. CASE p = m.peer_id
      <4>1. status # "Stopped"
        BY <1>1, <2>3, <3>2, <3>4
      <4>2. status \in {"Seeding", "Leeching"} /\ m.announce.event # "stopped"
        BY <1>1, <4>1
      <4>3. peers[p] \in Peer \cup {NoPeer} /\ stored[p] = Updated(peers[p], m.conn, status)
        BY <1>1, <2>1, <3>4 DEF TypeOK
      <4> HIDE DEF status
      <4>4. CASE peers[p] = NoPeer
        <5>1. m.conn \in Connections
          BY <1>1
        <5>2. m.conn = c
          BY <3>2, <4>2, <4>3, <4>4, <5>1, UpdatedConn
        <5> QED BY <3>4, <4>2, <4>4, <5>2 DEF Updates
      <4>5. CASE peers[p] # NoPeer
        <5>1. peers[p].conn = c
          BY <1>1, <3>2, <4>2, <4>3, <4>5, UpdatedConn
        <5> QED BY <2>1, <4>2, <4>5, <5>1 DEF Owned, Stops
      <4> QED BY <4>4, <4>5
    <3> QED BY <3>3, <3>4
  <2> QED BY <2>2, <2>3
<1> QED BY <1>1, <1>2

\* Peers that stay keep their owners: what a connection owns only shrinks.
LEMMA OwnerKept ==
  ASSUME TypeOK', OwnerInv, UNCHANGED <<open, closed, announced, sending, in_channel>>,
         \A c \in Connections : Owned(peers', c) \subseteq Owned(peers, c)
  PROVE  OwnerInv'
<1>1. ASSUME NEW c \in Connections
      PROVE  LineOk(c, Queue(c), sending[c], announced[c], open, closed, Owned(peers', c))
  <2>1. LineOk(c, Queue(c), sending[c], announced[c], open, closed, Owned(peers, c))
    BY DEF OwnerInv
  <2>2. sending[c] # NoAnnounce => c \in open
    BY <2>1 DEF LineOk
  <2> QED BY <2>1, <2>2, LineKept
<1>2. OnePeerPerConnection'
  <2> SUFFICES ASSUME NEW p \in PeerIds, NEW q \in PeerIds, peers'[p] # NoPeer, peers'[q] # NoPeer,
                      peers'[p].conn = peers'[q].conn
               PROVE  p = q
    BY DEF OnePeerPerConnection, Stored
  <2>1. peers'[p] \in Peer
    BY DEF TypeOK
  <2>2. PICK c \in Connections : c = peers'[p].conn
    BY <2>1 DEF Peer
  <2>3. p \in Owned(peers', c) /\ q \in Owned(peers', c)
    BY <2>2 DEF Owned
  <2> QED BY <2>2, <2>3 DEF OwnerInv, OnePeerPerConnection, Owned, Stored
<1> QED BY <1>1, <1>2 DEF OwnerInv, Queue

LEMMA OwnerInit == Init => OwnerInv
<1> SUFFICES ASSUME Init PROVE OwnerInv
  OBVIOUS
<1>1. \A c : Owned(peers, c) = {} /\ OnePeerPerConnection
  BY DEF Init, Owned, OnePeerPerConnection, Stored
<1>2. \A w \in Consumers : in_channel[w] = <<>> /\ DOMAIN in_channel[w] = {}
  BY DEF Init
<1>3. ASSUME NEW c \in Connections
      PROVE  LineOk(c, Queue(c), sending[c], announced[c], open, closed, Owned(peers, c))
  <2>1. Queue(c) = <<>> /\ sending[c] = NoAnnounce
    BY WsAssumption DEF Init, Queue
  <2> QED BY <1>1, <2>1 DEF LineOk, Alive
<1> QED BY <1>1, <1>2, <1>3 DEF OwnerInv

\* A request is handled: a peer that it stores anew has no older peer of the
\* same connection beside it.
LEMMA OwnerHandled ==
  ASSUME TypeOK, OwnerInv, TypeOK', NEW w \in Consumers, HandleAnnounce(w)
  PROVE  OwnerInv'
<1> DEFINE m == in_channel[w][1]
<1>1. /\ in_channel[w] \in Seq(InMessage) /\ in_channel[w] # <<>>
      /\ in_channel' = [in_channel EXCEPT ![w] = Tail(@)]
      /\ UNCHANGED <<open, closed, announced, sending>>
      /\ \A c \in Connections : \A p \in Owned(peers', c) :
            \/ p \in Owned(peers, c) /\ ~Stops(m, c, p)
            \/ Updates(m, c, p) /\ peers[p] = NoPeer
  BY HandleOwned DEF HandleAnnounce, connections
<1>2. /\ 1 \in DOMAIN in_channel[w] /\ consumer_id[m.conn] = w
      /\ in_channel[w][1] \in InMessage
  BY <1>1 DEF OwnerInv
<1> HIDE DEF m
<1>3. ASSUME NEW v \in Consumers, NEW i \in DOMAIN in_channel'[v]
      PROVE  consumer_id[in_channel'[v][i].conn] = v
  <2>1. CASE v # w
    BY <1>1, <1>3, <2>1 DEF OwnerInv, TypeOK
  <2>2. CASE v = w
    <3>1. in_channel'[w] = Tail(in_channel[w])
      BY <1>1 DEF TypeOK
    <3>2. PICK q \in Seq(InMessage) : q = in_channel[w] /\ q # <<>>
      BY <1>1
    <3>3. i \in DOMAIN Tail(q)
      BY <1>3, <2>2, <3>1, <3>2
    <3>4. i + 1 \in DOMAIN q /\ Tail(q)[i] = q[i + 1]
      BY <3>2, <3>3
    <3> QED BY <2>2, <3>1, <3>2, <3>4 DEF OwnerInv
  <2> QED BY <2>1, <2>2
<1>4. ASSUME NEW c \in Connections
      PROVE  LineOk(c, Queue(c)', sending[c], announced[c], open, closed, Owned(peers', c))
  <2>1. LineOk(c, Queue(c), sending[c], announced[c], open, closed, Owned(peers, c))
    BY DEF OwnerInv
  <2>2. CASE consumer_id[c] = w
    <3>1. Queue(c) = in_channel[w] /\ Queue(c)' = Tail(in_channel[w])
      BY <1>1, <2>2 DEF Queue, TypeOK
    <3>2. Owned(peers, c) \in SUBSET PeerIds
      BY DEF Owned
    <3>3. \A p \in Owned(peers', c) : \/ p \in Owned(peers, c) /\ ~Stops(in_channel[w][1], c, p)
                                      \/ Updates(in_channel[w][1], c, p)
      BY <1>1 DEF m
    <3>4. LineOk(c, in_channel[w], sending[c], announced[c], open, closed, Owned(peers, c))
      BY <2>1, <3>1
    <3>5. LineOk(c, Tail(in_channel[w]), sending[c], announced[c], open, closed, Owned(peers', c))
      BY <1>1, <3>2, <3>3, <3>4, LineHandled
    <3> QED BY <3>1, <3>5
  <2>3. CASE consumer_id[c] # w
    <3>1. Queue(c)' = Queue(c)
      BY <1>1, <2>3, WsAssumption DEF Queue, TypeOK
    <3>2. Owned(peers', c) \subseteq Owned(peers, c)
      BY <1>1, <1>2, <2>3 DEF Updates
    <3>3. sending[c] # NoAnnounce => c \in open
      BY <2>1 DEF LineOk
    <3> QED BY <2>1, <3>1, <3>2, <3>3, LineKept
  <2> QED BY <2>2, <2>3
\* The first request of c has no other id while c has a peer stored.
<1>5. ASSUME NEW c \in Connections, NEW p \in Owned(peers, c), m.conn = c
      PROVE  m.peer_id = p
  <2>1. LineOk(c, Queue(c), sending[c], announced[c], open, closed, Owned(peers, c))
    BY DEF OwnerInv
  <2>2. Queue(c) = in_channel[w] /\ p \in PeerIds /\ 0 \in 0 .. Len(in_channel[w])
    BY <1>1, <1>2, <1>5 DEF Queue, Owned
  <2>3. Alive(c, p, in_channel[w], Owned(peers, c), 0)
    BY DEF Alive
  <2>4. m.peer_id # p => StoppedIn(c, p, in_channel[w], 0, 1)
    BY <1>2, <1>5, <2>1, <2>2, <2>3 DEF LineOk, m
  <2>5. ~StoppedIn(c, p, in_channel[w], 0, 1)
    BY <1>1 DEF StoppedIn
  <2> QED BY <2>4, <2>5
<1>6. OnePeerPerConnection'
  <2> SUFFICES ASSUME NEW p \in PeerIds, NEW q \in PeerIds, peers'[p] # NoPeer, peers'[q] # NoPeer,
                      peers'[p].conn = peers'[q].conn
               PROVE  p = q
    BY DEF OnePeerPerConnection, Stored
  <2>1. peers'[p] \in Peer
    BY DEF TypeOK
  <2>2. PICK c \in Connections : c = peers'[p].conn
    BY <2>1 DEF Peer
  <2>3. p \in Owned(peers', c) /\ q \in Owned(peers', c)
    BY <2>2 DEF Owned
  <2>4. /\ p \in Owned(peers, c) \/ (m.conn = c /\ m.peer_id = p)
        /\ q \in Owned(peers, c) \/ (m.conn = c /\ m.peer_id = q)
    BY <1>1, <2>3 DEF Updates
  <2>5. CASE p \in Owned(peers, c) /\ q \in Owned(peers, c)
    BY <2>5 DEF OwnerInv, OnePeerPerConnection, Owned, Stored
  <2>6. CASE ~(p \in Owned(peers, c) /\ q \in Owned(peers, c))
    BY <1>5, <2>4, <2>6
  <2> QED BY <2>5, <2>6
<1>7. \A c \in Connections : LineOk(c, Queue(c)', sending[c], announced[c], open, closed, Owned(peers, c)')
  BY <1>4 DEF Owned
<1> QED BY <1>1, <1>3, <1>6, <1>7 DEF OwnerInv

LEMMA OwnerStep == TypeOK /\ TypeOK' /\ OwnerInv /\ [Next]_vars => OwnerInv'
<1> SUFFICES ASSUME TypeOK, TypeOK', OwnerInv, [Next]_vars PROVE OwnerInv'
  OBVIOUS
<1>1. ASSUME NEW d \in Connections
      PROVE  LineOk(d, Queue(d), sending[d], announced[d], open, closed, Owned(peers, d))
  BY DEF OwnerInv
<1>2. ASSUME NEW d \in Connections
      PROVE  (sending[d] # NoAnnounce => d \in open) /\ Queue(d) \in Seq(InMessage)
  BY <1>1, WsAssumption DEF LineOk, Queue, TypeOK
<1>3. ASSUME NEW c \in Connections, Open(c) PROVE OwnerInv'
  <2>1. /\ open' = open \cup {c} /\ c \notin open \cup closed
        /\ UNCHANGED <<closed, announced, sending, in_channel, peers>>
    BY <1>3 DEF Open, torrent
  <2>2. ASSUME NEW d \in Connections
        PROVE  LineOk(d, Queue(d), sending[d], announced[d], open', closed, Owned(peers, d))
    <3>1. CASE d = c
      BY <1>1, <2>1, <3>1, LineOpened
    <3>2. CASE d # c
      BY <1>1, <1>2, <2>1, <3>2, LineKept
    <3> QED BY <3>1, <3>2
  <2> QED BY <2>1, <2>2 DEF OwnerInv, Queue, Owned, OnePeerPerConnection, Stored
<1>4. ASSUME NEW c \in Connections, NEW id \in PeerIdsOf[c], NEW an \in Announces,
             ReceiveAnnounce(c, id, an)
      PROVE  OwnerInv'
  <2>1. PICK m : m = [conn |-> c, peer_id |-> id, announce |-> an]
    OBVIOUS
  <2>2. id \in PeerIds /\ m \in InMessage /\ m.conn = c /\ m.peer_id = id /\ m.announce = an
    BY <2>1, WsAssumption DEF InMessage
  <2>3. /\ c \in open /\ sending[c] = NoAnnounce /\ announced[c] \in {NoPeer, id}
        /\ announced' = [announced EXCEPT ![c] = IF an.event = "stopped" THEN NoPeer ELSE id]
        /\ sending' = [sending EXCEPT ![c] = m]
        /\ UNCHANGED <<open, closed, in_channel, peers>>
    BY <1>4, <2>1 DEF ReceiveAnnounce, KeepsPeerId, torrent
  <2>4. ASSUME NEW d \in Connections
        PROVE  LineOk(d, Queue(d), sending'[d], announced'[d], open, closed, Owned(peers, d))
    <3>1. CASE d = c
      <4>1. /\ sending'[c] = m
            /\ announced'[c] = IF m.announce.event = "stopped" THEN NoPeer ELSE m.peer_id
        BY <2>2, <2>3 DEF TypeOK
      <4>2. LineOk(c, Queue(c), NoAnnounce, announced[c], open, closed, Owned(peers, c))
        BY <1>1, <2>3
      <4>3. Queue(c) \in Seq(InMessage) /\ announced[c] \in {NoPeer, m.peer_id} /\ c \in open
        BY <1>2, <2>2, <2>3
      <4>4. LineOk(c, Queue(c), m, IF m.announce.event = "stopped" THEN NoPeer ELSE m.peer_id,
                   open, closed, Owned(peers, c))
        BY <2>2, <4>2, <4>3, LineReceived
      <4> QED BY <3>1, <4>1, <4>4
    <3>2. CASE d # c
      <4>1. sending'[d] = sending[d] /\ announced'[d] = announced[d]
        BY <2>3, <3>2 DEF TypeOK
      <4> QED BY <1>1, <4>1
    <3> QED BY <3>1, <3>2
  <2> QED BY <2>3, <2>4 DEF OwnerInv, Queue, Owned, OnePeerPerConnection, Stored
<1>5. ASSUME NEW c \in Connections, SendAnnounce(c) PROVE OwnerInv'
  <2>1. PICK w \in Consumers : w = consumer_id[c]
    BY WsAssumption
  <2>2. PICK m \in InMessage : m = sending[c]
    BY <1>5 DEF SendAnnounce, TypeOK
  <2>3. /\ in_channel' = [in_channel EXCEPT ![w] = Append(@, m)]
        /\ sending' = [sending EXCEPT ![c] = NoAnnounce]
        /\ UNCHANGED <<open, closed, announced, peers>>
    BY <1>5, <2>1, <2>2 DEF SendAnnounce, torrent
  <2>4. m # NoAnnounce /\ m.conn = c
    <3>1. m # NoAnnounce
      BY <1>5, <2>2 DEF SendAnnounce
    <3> QED BY <1>1, <2>2, <3>1 DEF LineOk
  <2>5. in_channel[w] \in Seq(InMessage) /\ in_channel'[w] = Append(in_channel[w], m)
    BY <2>3 DEF TypeOK
  <2>6. ASSUME NEW d \in Connections
        PROVE  LineOk(d, Queue(d)', sending'[d], announced[d], open, closed, Owned(peers, d))
    <3>1. CASE d = c
      <4>1. Queue(c) = in_channel[w] /\ Queue(c)' = Append(in_channel[w], m) /\ sending'[c] = NoAnnounce
        BY <2>1, <2>3, <2>5 DEF Queue, TypeOK
      <4>2. LineOk(c, in_channel[w], m, announced[c], open, closed, Owned(peers, c))
        BY <1>1, <2>2, <4>1
      <4>3. LineOk(c, Append(in_channel[w], m), NoAnnounce, announced[c], open, closed, Owned(peers, c))
        BY <2>4, <2>5, <4>2, LineSent
      <4> QED BY <3>1, <4>1, <4>3
    <3>2. CASE d # c /\ consumer_id[d] = w
      <4>1. Queue(d) = in_channel[w] /\ Queue(d)' = Append(in_channel[w], m) /\ sending'[d] = sending[d]
        BY <2>3, <2>5, <3>2 DEF Queue, TypeOK
      <4>2. LineOk(d, in_channel[w], sending[d], announced[d], open, closed, Owned(peers, d))
        BY <1>1, <4>1
      <4>3. LineOk(d, Append(in_channel[w], m), sending[d], announced[d], open, closed, Owned(peers, d))
        BY <2>4, <2>5, <3>2, <4>2, LineOther
      <4> QED BY <4>1, <4>3
    <3>3. CASE d # c /\ consumer_id[d] # w
      <4>1. Queue(d)' = Queue(d) /\ sending'[d] = sending[d]
        BY <2>3, <3>3, WsAssumption DEF Queue, TypeOK
      <4> QED BY <1>1, <4>1
    <3> QED BY <3>1, <3>2, <3>3
  <2>7. ASSUME NEW v \in Consumers, NEW i \in DOMAIN in_channel'[v]
        PROVE  consumer_id[in_channel'[v][i].conn] = v
    <3>1. CASE v # w
      BY <2>3, <2>7, <3>1 DEF OwnerInv, TypeOK
    <3>2. CASE v = w
      <4>1. PICK q \in Seq(InMessage) : q = in_channel[w] /\ in_channel'[w] = Append(q, m)
        BY <2>5
      <4>2. i \in DOMAIN Append(q, m)
        BY <2>7, <3>2, <4>1
      <4>3. (i \in DOMAIN q /\ Append(q, m)[i] = q[i]) \/ Append(q, m)[i] = m
        BY <4>2
      <4> QED BY <2>1, <2>4, <3>2, <4>1, <4>3 DEF OwnerInv
    <3> QED BY <3>1, <3>2
  <2> QED BY <2>3, <2>6, <2>7 DEF OwnerInv, Owned, OnePeerPerConnection, Stored
<1>6. ASSUME NEW c \in Connections, Close(c) PROVE OwnerInv'
  <2>1. /\ open' = open \ {c} /\ closed' = closed \cup {c}
        /\ announced' = [announced EXCEPT ![c] = NoPeer]
        /\ sending' = [sending EXCEPT ![c] = NoAnnounce]
        /\ UNCHANGED <<in_channel, peers>>
    BY <1>6 DEF Close, torrent
  <2>2. ASSUME NEW d \in Connections
        PROVE  LineOk(d, Queue(d), sending'[d], announced'[d], open', closed', Owned(peers, d))
    <3>1. /\ d \in open' => d \in open /\ announced'[d] = announced[d] /\ sending'[d] = sending[d]
          /\ sending'[d] # NoAnnounce => d \in open'
          /\ d \in open \cup closed => d \in open' \cup closed'
      BY <1>2, <2>1 DEF TypeOK
    <3> QED BY <1>1, <3>1, LineKept
  <2> QED BY <2>1, <2>2 DEF OwnerInv, Queue, Owned, OnePeerPerConnection, Stored
<1>7. ASSUME NEW w \in Consumers, HandleAnnounce(w) PROVE OwnerInv'
  BY <1>7, OwnerHandled
<1>8. ASSUME NEW w \in Consumers, HandleConnectionClosed(w) PROVE OwnerInv'
  <2>1. \A c \in Connections : Owned(peers', c) \subseteq Owned(peers, c)
    BY <1>8 DEF HandleConnectionClosed, RemovePeers, Removed, Owned
  <2>2. UNCHANGED <<open, closed, announced, sending, in_channel>>
    BY <1>8 DEF HandleConnectionClosed, connections
  <2> QED BY <2>1, <2>2, OwnerKept
<1>9. ASSUME clean PROVE OwnerInv'
  <2>1. \A peer \in Peer : Pruned(peer).conn = peer.conn
    BY DEF Pruned, Peer
  <2>2. \A c \in Connections : Owned(peers', c) \subseteq Owned(peers, c)
    BY <1>9, <2>1 DEF clean, Owned, TypeOK
  <2>3. UNCHANGED <<open, closed, announced, sending, in_channel>>
    BY <1>9 DEF clean, connections
  <2> QED BY <2>2, <2>3, OwnerKept
<1>10. ASSUME Tick PROVE OwnerInv'
  <2>1. \A p \in PeerIds : peers'[p] # NoPeer => peers[p] # NoPeer /\ peers'[p].conn = peers[p].conn
    BY <1>10 DEF Tick, TypeOK, Peer
  <2>2. \A c \in Connections : Owned(peers', c) \subseteq Owned(peers, c)
    BY <2>1 DEF Owned
  <2>3. UNCHANGED <<open, closed, announced, sending, in_channel>>
    BY <1>10 DEF Tick, connections
  <2> QED BY <2>2, <2>3, OwnerKept
<1>11. ASSUME ReloadAccessList \/ UNCHANGED vars PROVE OwnerInv'
  <2>1. UNCHANGED <<open, closed, announced, sending, in_channel, peers>>
    BY <1>11 DEF ReloadAccessList, vars, connections, torrent
  <2> QED BY <2>1 DEF OwnerInv, Queue, Owned, OnePeerPerConnection, Stored
<1> QED BY <1>3, <1>4, <1>5, <1>6, <1>7, <1>8, <1>9, <1>10, <1>11 DEF Next, ConnectionStep

\* A connection never has two peers in the torrent, although its reader forgets
\* a stopped peer's id before the swarm worker removes the peer: for any number
\* of connections and socket workers and any length of the request channels.
THEOREM WsOnePeerPerConnection == Spec => []OnePeerPerConnection
<1>1. Init => Inv /\ OwnerInv
  BY InvInit, OwnerInit
<1>2. (Inv /\ OwnerInv) /\ [Next]_vars => (Inv /\ OwnerInv)'
  BY InvStep, OwnerStep DEF Inv
<1>3. OwnerInv => OnePeerPerConnection
  BY DEF OwnerInv
<1> QED BY <1>1, <1>2, <1>3, PTL DEF Spec

----------------------------------------------------------------------------
(***************************************************************************)
(* Answers                                                                 *)
(***************************************************************************)
\* What a stored peer awaits was passed on for it and for the id of its
\* connection, and not answered.
AwaitOk(map, aw) ==
    \A r \in PeerIds : \A e \in Awaitable :
        Awaits(map, r, e) => <<connection_id[map[r].conn], r, e[1], e[2]>> \in aw

\* The answers of a step go to stored peers that awaited them.
AnswersAwaited(msgs, map, aw) ==
    \A m \in msgs : m.type = "answer" =>
        \E p \in Stored(map) : /\ map[p].conn = m.to
                               /\ <<connection_id[m.to], p, m.from, m.offer>> \in aw

LEMMA AwaitsExpect ==
  ASSUME NEW map \in PeerMaps, NEW id \in PeerIds, map[id] # NoPeer,
         NEW offers, NEW to, NEW r \in PeerIds, NEW e \in Awaitable,
         Awaits(Expect(map, id, offers, to), r, e)
  PROVE  /\ Expect(map, id, offers, to)[r].conn = map[r].conn
         /\ \/ Awaits(map, r, e)
            \/ r = id /\ \E i \in DOMAIN to : e = <<to[i], offers[i]>>
<1> DEFINE f == [x \in Awaitable |->
                    IF \E i \in DOMAIN to : x = <<to[i], offers[i]>>
                    THEN max_offer_age ELSE map[id].expecting_answers[x]]
           other == [map EXCEPT ![id].expecting_answers = f]
<1>1. other = Expect(map, id, offers, to)
  BY DEF Expect
<1>2. map[id] \in Peer
  BY DEF PeerMaps
<1> HIDE DEF f
<1>3. other[id] = [map[id] EXCEPT !.expecting_answers = f] /\ (r # id => other[r] = map[r])
  BY DEF PeerMaps
<1>4. other[id].conn = map[id].conn /\ other[id].expecting_answers = f
  BY <1>2, <1>3 DEF Peer
<1>5. other[r].conn = map[r].conn
  BY <1>3, <1>4
<1>6. CASE r # id
  BY <1>1, <1>3, <1>5, <1>6 DEF Awaits
<1>7. CASE r = id
  <2>1. f[e] # None
    BY <1>1, <1>4, <1>7 DEF Awaits
  <2>2. \/ \E i \in DOMAIN to : e = <<to[i], offers[i]>>
        \/ f[e] = map[id].expecting_answers[e]
    BY DEF f
  <2>3. Awaits(map, r, e) \/ \E i \in DOMAIN to : e = <<to[i], offers[i]>>
    BY <1>7, <2>1, <2>2 DEF Awaits
  <2> QED BY <1>1, <1>5, <1>7, <2>3
<1> QED BY <1>6, <1>7

LEMMA AwaitsTaken ==
  ASSUME NEW map \in PeerMaps, NEW q \in PeerIds, map[q] # NoPeer, NEW g \in Awaitable,
         NEW r \in PeerIds, NEW e \in Awaitable, Awaits(Taken(map, q, g), r, e)
  PROVE  /\ Taken(map, q, g)[r].conn = map[r].conn
         /\ Awaits(map, r, e)
         /\ r = q => e # g
<1> DEFINE f == [map[q].expecting_answers EXCEPT ![g] = None]
           other == [map EXCEPT ![q].expecting_answers = f]
<1>1. other = Taken(map, q, g)
  BY DEF Taken
<1>2. map[q] \in Peer /\ map[q].expecting_answers \in [Awaitable -> None .. max_offer_age]
  BY DEF PeerMaps, Peer
<1>3. f[g] = None /\ \A x \in Awaitable : x # g => f[x] = map[q].expecting_answers[x]
  BY <1>2
<1> HIDE DEF f
<1>4. other[q] = [map[q] EXCEPT !.expecting_answers = f] /\ (r # q => other[r] = map[r])
  BY DEF PeerMaps
<1>5. other[q].conn = map[q].conn /\ other[q].expecting_answers = f
  BY <1>2, <1>4 DEF Peer
<1>6. CASE r # q
  BY <1>1, <1>4, <1>6 DEF Awaits
<1>7. CASE r = q
  <2>1. f[e] # None
    BY <1>1, <1>5, <1>7 DEF Awaits
  <2>2. e # g /\ Awaits(map, r, e)
    BY <1>3, <1>7, <2>1 DEF Awaits
  <2> QED BY <1>1, <1>5, <1>7, <2>2
<1> QED BY <1>6, <1>7

\* handle_offers and handle_answer keep the peers and their owners.
LEMMA ExpectType ==
  ASSUME NEW map \in PeerMaps, NEW id \in PeerIds, map[id] # NoPeer, NEW offers, NEW to
  PROVE  Expect(map, id, offers, to) \in PeerMaps
<1> DEFINE f == [e \in Awaitable |->
                    IF \E i \in DOMAIN to : e = <<to[i], offers[i]>>
                    THEN max_offer_age ELSE map[id].expecting_answers[e]]
<1>1. Expect(map, id, offers, to) = [map EXCEPT ![id].expecting_answers = f]
  BY DEF Expect
<1>2. map[id].expecting_answers \in [Awaitable -> None .. max_offer_age]
  BY DEF PeerMaps, Peer
<1>3. max_offer_age \in None .. max_offer_age
  BY WsAssumption DEF None
<1>4. f \in [Awaitable -> None .. max_offer_age]
  BY <1>2, <1>3
<1> HIDE DEF f
<1> QED BY <1>1, <1>4, ExpectingOnly

LEMMA TakenOwners ==
  ASSUME NEW map \in PeerMaps, NEW q \in PeerIds, map[q] # NoPeer, NEW g \in Awaitable
  PROVE  SameOwners(map, Taken(map, q, g))
<1> DEFINE f == [map[q].expecting_answers EXCEPT ![g] = None]
<1>1. Taken(map, q, g) = [map EXCEPT ![q].expecting_answers = f]
  BY DEF Taken
<1>2. map[q].expecting_answers \in [Awaitable -> None .. max_offer_age]
  BY DEF PeerMaps, Peer
<1>3. None \in None .. max_offer_age
  BY WsAssumption DEF None
<1>4. f \in [Awaitable -> None .. max_offer_age]
  BY <1>2, <1>3
<1> HIDE DEF f
<1> QED BY <1>1, <1>4, ExpectingOnly

\* One announce that is not ignored: an answer goes to the connection that
\* made the offer, and the offer is no longer awaited.
LEMMA PassOnAwait ==
  ASSUME NEW m \in InMessage, NEW map \in PeerMaps, map[m.peer_id] # NoPeer,
         connection_id[map[m.peer_id].conn] = connection_id[m.conn],
         AwaitOk(map, awaited), PassOn(m, map)
  PROVE  /\ AwaitOk(peers', awaited')
         /\ AnswersAwaited(out_messages', peers', awaited)
<1> DEFINE id == m.peer_id
           offers == m.announce.offers
           given == m.announce.answers
<1>1. /\ id \in PeerIds /\ offers \in Seq(OfferIds) /\ given \subseteq PeerIds \X OfferIds
      /\ \A x, y \in given : x = y
  BY WsAssumption DEF InMessage, Announce
<1>2. PICK to \in Receivers(map, id, offers) :
        LET expecting == Expect(map, id, offers, to)
            taken == {x \in given : Awaits(expecting, x[1], <<id, x[2]>>)}
            offered == {[type |-> "offer", to |-> map[to[i]].conn, from |-> id,
                         offer |-> offers[i]] : i \in DOMAIN to}
            answers == {[type |-> "answer", to |-> expecting[x[1]].conn, from |-> id,
                         offer |-> x[2]] : x \in taken}
            errors == {[type |-> "error", to |-> m.conn, from |-> id, offer |-> x[2]] :
                          x \in {y \in given \ taken : expecting[y[1]] # NoPeer}}
        IN
        /\ peers' = IF taken = {} THEN expecting
                    ELSE LET x == CHOOSE x \in taken : TRUE
                         IN  Taken(expecting, x[1], <<id, x[2]>>)
        /\ out_messages' = offered \cup answers \cup errors
        /\ awaited' = (awaited \cup {<<connection_id[m.conn], id, to[i], offers[i]>> :
                                        i \in DOMAIN to})
                        \ {<<connection_id[expecting[x[1]].conn], x[1], id, x[2]>> :
                              x \in taken}
  BY DEF PassOn
<1>3. PICK expecting, taken, offered, answers, errors, more :
        /\ expecting = Expect(map, id, offers, to)
        /\ taken = {x \in given : Awaits(expecting, x[1], <<id, x[2]>>)}
        /\ offered = {[type |-> "offer", to |-> map[to[i]].conn, from |-> id,
                       offer |-> offers[i]] : i \in DOMAIN to}
        /\ answers = {[type |-> "answer", to |-> expecting[x[1]].conn, from |-> id,
                       offer |-> x[2]] : x \in taken}
        /\ errors = {[type |-> "error", to |-> m.conn, from |-> id, offer |-> x[2]] :
                         x \in {y \in given \ taken : expecting[y[1]] # NoPeer}}
        /\ more = awaited \cup {<<connection_id[m.conn], id, to[i], offers[i]>> :
                                 i \in DOMAIN to}
  OBVIOUS
<1>4. /\ peers' = IF taken = {} THEN expecting
                   ELSE LET x == CHOOSE x \in taken : TRUE
                        IN  Taken(expecting, x[1], <<id, x[2]>>)
      /\ out_messages' = offered \cup answers \cup errors
      /\ awaited' = more \ {<<connection_id[expecting[x[1]].conn], x[1], id, x[2]>> :
                               x \in taken}
  BY <1>2, <1>3
<1>5. \A i \in DOMAIN to : to[i] \in PeerIds \ {id} /\ offers[i] \in OfferIds
  <2>1. \A i \in DOMAIN to : to[i] \in Stored(map) \ {id} /\ i \in 1 .. Len(offers)
    BY <1>1, ReceiversType
  <2> QED BY <1>1, <2>1 DEF Stored
<1>6. map[id] # NoPeer /\ connection_id[map[id].conn] = connection_id[m.conn]
  OBVIOUS
<1> HIDE DEF id, offers, given
\* handle_offers
<1>7. ASSUME NEW r \in PeerIds, NEW e \in Awaitable, Awaits(expecting, r, e)
      PROVE  /\ expecting[r].conn = map[r].conn
             /\ <<connection_id[expecting[r].conn], r, e[1], e[2]>> \in more
             /\ e[1] = id => <<connection_id[expecting[r].conn], r, e[1], e[2]>> \in awaited
  <2>1. /\ expecting[r].conn = map[r].conn
        /\ Awaits(map, r, e) \/ (r = id /\ \E i \in DOMAIN to : e = <<to[i], offers[i]>>)
    BY <1>3, <1>1, <1>6, <1>7, AwaitsExpect
  <2>2. CASE Awaits(map, r, e)
    BY <1>3, <2>1, <2>2 DEF AwaitOk
  <2>3. CASE r = id /\ \E i \in DOMAIN to : e = <<to[i], offers[i]>>
    <3>1. PICK i \in DOMAIN to : e = <<to[i], offers[i]>>
      BY <2>3
    <3>2. e[1] = to[i] /\ e[2] = offers[i] /\ e[1] # id
      BY <1>5, <3>1
    <3> QED BY <1>3, <1>6, <2>1, <2>3, <3>2
  <2> QED BY <2>1, <2>2, <2>3
<1>8. ASSUME NEW x \in taken
      PROVE  /\ x[1] \in PeerIds /\ x[2] \in OfferIds /\ <<id, x[2]>> \in Awaitable
             /\ Awaits(expecting, x[1], <<id, x[2]>>)
             /\ <<connection_id[expecting[x[1]].conn], x[1], id, x[2]>> \in awaited
  <2>1. /\ x[1] \in PeerIds /\ x[2] \in OfferIds
        /\ Awaits(expecting, x[1], <<id, x[2]>>)
    BY <1>3, <1>1
  <2>2. <<id, x[2]>> \in Awaitable /\ <<id, x[2]>>[1] = id /\ <<id, x[2]>>[2] = x[2]
    BY <1>1, <2>1 DEF Awaitable
  <2> QED BY <1>7, <2>1, <2>2
<1>9. expecting \in PeerMaps
  BY <1>1, <1>3, <1>6, ExpectType
<1>10. ASSUME NEW y \in out_messages', y.type = "answer"
       PROVE  \E p \in Stored(peers') :
                 /\ peers'[p].conn = y.to
                 /\ <<connection_id[y.to], p, y.from, y.offer>> \in awaited
  <2>1. (\A z \in offered : z.type = "offer") /\ (\A z \in errors : z.type = "error")
    <3>1. ASSUME NEW z \in offered PROVE z.type = "offer"
      <4>1. PICK i \in DOMAIN to : z = [type |-> "offer", to |-> map[to[i]].conn, from |-> id,
                                       offer |-> offers[i]]
        BY <1>3, <3>1, Zenon
      <4> QED BY <4>1
    <3>2. ASSUME NEW z \in errors PROVE z.type = "error"
      <4>1. PICK x : z = [type |-> "error", to |-> m.conn, from |-> id, offer |-> x[2]]
        BY <1>3, <3>2, Zenon
      <4> QED BY <4>1
    <3> QED BY <3>1, <3>2
  <2>2. y \in answers
    <3>1. y \in offered \/ y \in answers \/ y \in errors
      BY <1>4, <1>10, Zenon
    <3>2. "answer" # "offer" /\ "answer" # "error"
      OBVIOUS
    <3> QED BY <1>10, <2>1, <3>1, <3>2, Zenon
  <2>3. PICK x \in taken : y = [type |-> "answer", to |-> expecting[x[1]].conn, from |-> id, offer |-> x[2]]
    BY <1>3, <2>2, Zenon
  <2>4. taken = {x} /\ peers' = Taken(expecting, x[1], <<id, x[2]>>)
    <3>1. taken = {x}
      BY <1>1, <1>3, <2>3
    <3> QED BY <1>4, <3>1
  <2>5. /\ x[1] \in PeerIds /\ <<id, x[2]>> \in Awaitable /\ expecting[x[1]] # NoPeer
        /\ <<connection_id[expecting[x[1]].conn], x[1], id, x[2]>> \in awaited
    BY <1>8, <2>3 DEF Awaits
  <2>6. SameOwners(expecting, peers')
    BY <1>9, <2>4, <2>5, TakenOwners
  <2>7. x[1] \in Stored(peers') /\ peers'[x[1]].conn = expecting[x[1]].conn
    BY <2>5, <2>6 DEF SameOwners, Stored
  <2>8. y.to = expecting[x[1]].conn /\ y.from = id /\ y.offer = x[2]
    BY <2>3
  <2> QED BY <2>5, <2>7, <2>8
<1>11. AwaitOk(peers', awaited')
  <2>1. CASE taken = {}
    <3>1. peers' = expecting
      BY <1>4, <2>1
    <3>2. awaited' = more
      BY <1>4, <2>1
    <3> QED BY <1>7, <3>1, <3>2 DEF AwaitOk
  <2>2. CASE taken # {}
    <3>1. PICK x \in taken : peers' = Taken(expecting, x[1], <<id, x[2]>>)
      BY <1>4, <2>2
    <3>2. taken = {x}
      BY <1>1, <1>3
    <3>3. {<<connection_id[expecting[z[1]].conn], z[1], id, z[2]>> : z \in taken}
            = {<<connection_id[expecting[x[1]].conn], x[1], id, x[2]>>}
      BY <3>2
    <3>4. awaited' = more \ {<<connection_id[expecting[x[1]].conn], x[1], id, x[2]>>}
      BY <1>4, <3>3
    <3>5. /\ x[1] \in PeerIds /\ <<id, x[2]>> \in Awaitable
          /\ Awaits(expecting, x[1], <<id, x[2]>>)
      BY <1>8
    <3>6. expecting[x[1]] # NoPeer
      BY <3>5 DEF Awaits
    <3>7. ASSUME NEW r \in PeerIds, NEW e \in Awaitable, Awaits(peers', r, e)
          PROVE  <<connection_id[peers'[r].conn], r, e[1], e[2]>> \in awaited'
      <4>1. /\ peers'[r].conn = expecting[r].conn /\ Awaits(expecting, r, e)
            /\ r = x[1] => e # <<id, x[2]>>
        BY <1>9, <3>1, <3>5, <3>6, <3>7, AwaitsTaken
      <4>2. <<connection_id[peers'[r].conn], r, e[1], e[2]>> \in more
        BY <1>7, <4>1
      <4>3. e = <<e[1], e[2]>>
        BY DEF Awaitable
      <4> QED BY <3>4, <4>1, <4>2, <4>3
    <3> QED BY <3>7 DEF AwaitOk
  <2> QED BY <2>1, <2>2
<1> QED BY <1>10, <1>11 DEF AnswersAwaited

\* The offers that stored peers await only become fewer.
LEMMA AwaitKept ==
  ASSUME NEW map, NEW other, NEW aw, AwaitOk(map, aw),
         \A r \in PeerIds : other[r] # NoPeer =>
            /\ map[r] # NoPeer /\ other[r].conn = map[r].conn
            /\ \A e \in Awaitable : other[r].expecting_answers[e] # None =>
                                    map[r].expecting_answers[e] # None
  PROVE  AwaitOk(other, aw)
BY DEF AwaitOk, Awaits

\* insert_or_update_peer adds no awaited offer.
LEMMA UpdatedAwaits ==
  ASSUME NEW peer \in Peer \cup {NoPeer}, NEW c \in Connections,
         NEW status \in {"Seeding", "Leeching"}, NEW e \in Awaitable,
         Updated(peer, c, status).expecting_answers[e] # None
  PROVE  peer # NoPeer /\ peer.expecting_answers[e] # None
<1>1. CASE peer = NoPeer
  <2>1. Updated(peer, c, status) =
          [conn |-> c, seeder |-> status = "Seeding", valid_until |-> max_peer_age,
           expecting_answers |-> [x \in Awaitable |-> None]]
    BY <1>1 DEF Updated
  <2> QED BY <1>1, <2>1
<1>2. CASE peer # NoPeer
  <2>1. Updated(peer, c, status) =
          [peer EXCEPT !.seeder = (status = "Seeding"), !.valid_until = max_peer_age]
    BY <1>2 DEF Updated
  <2>2. peer \in Peer
    BY <1>2
  <2>3. Updated(peer, c, status).expecting_answers = peer.expecting_answers
    BY <2>1, <2>2 DEF Peer
  <2> QED BY <1>2, <2>3
<1> QED BY <1>1, <1>2

AnsweredOnce == AnswersAwaited(out_messages', peers', awaited)

LEMMA AwaitHandled ==
  ASSUME TypeOK, AwaitOk(peers, awaited),
         NEW w \in Consumers, HandleAnnounce(w)
  PROVE  AwaitOk(peers', awaited') /\ AnsweredOnce
<1>1. PICK m \in InMessage, stored \in PeerMaps :
           /\ in_channel[w] \in Seq(InMessage) /\ in_channel[w] # <<>> /\ m = in_channel[w][1]
           /\ in_channel' = [in_channel EXCEPT ![w] = Tail(@)]
           /\ m.conn \in Connections /\ m.peer_id \in PeerIds
           /\ \A p \in PeerIds : p # m.peer_id => stored[p] = peers[p]
           /\ stored[m.peer_id] = Updated(peers[m.peer_id], m.conn, PeerStatus(m.announce))
           /\ PeerStatus(m.announce) \in {"Stopped", "Seeding", "Leeching"}
           /\ PeerStatus(m.announce) = "Stopped" <=> m.announce.event = "stopped"
           /\ \/ /\ Ignored(peers[m.peer_id], m.conn)
                 /\ out_messages' = {} /\ UNCHANGED <<peers, awaited>>
              \/ /\ ~Ignored(peers[m.peer_id], m.conn) /\ PeerStatus(m.announce) = "Stopped"
                 /\ peers' = stored /\ stored[m.peer_id] = NoPeer
                 /\ out_messages' = {} /\ UNCHANGED awaited
              \/ /\ ~Ignored(peers[m.peer_id], m.conn) /\ PeerStatus(m.announce) # "Stopped"
                 /\ PassOn(m, stored) /\ stored[m.peer_id] # NoPeer
  BY HandleFacts
<1>2. CASE Ignored(peers[m.peer_id], m.conn)
  BY <1>1, <1>2 DEF AnsweredOnce, AnswersAwaited
<1>3. CASE ~Ignored(peers[m.peer_id], m.conn) /\ PeerStatus(m.announce) = "Stopped"
  <2>1. \A r \in PeerIds : peers'[r] # NoPeer => peers'[r] = peers[r]
    BY <1>1, <1>3
  <2>2. out_messages' = {} /\ awaited' = awaited
    BY <1>1, <1>3
  <2> QED BY <2>1, <2>2, AwaitKept DEF AnsweredOnce, AnswersAwaited
<1>4. CASE ~Ignored(peers[m.peer_id], m.conn) /\ PeerStatus(m.announce) # "Stopped"
  <2>1. PICK id \in PeerIds, status \in {"Seeding", "Leeching"} :
           id = m.peer_id /\ status = PeerStatus(m.announce)
    BY <1>1, <1>4
  <2>2. peers[id] \in Peer \cup {NoPeer} /\ stored[id] = Updated(peers[id], m.conn, status)
    BY <1>1, <2>1 DEF TypeOK
  <2>3. /\ connection_id[stored[id].conn] = connection_id[m.conn]
        /\ peers[id] # NoPeer => stored[id].conn = peers[id].conn
    <3>1. CASE peers[id] = NoPeer
      <4>1. m.conn \in Connections
        BY <1>1
      <4>2. stored[id].conn = m.conn
        BY <2>2, <3>1, <4>1, UpdatedConn
      <4> QED BY <3>1, <4>2
    <3>2. CASE peers[id] # NoPeer
      <4>1. connection_id[peers[id].conn] = connection_id[m.conn]
        BY <1>1, <1>4, <2>1, <3>2 DEF Ignored, SameConnection
      <4>2. stored[id].conn = peers[id].conn
        BY <1>1, <2>2, <3>2, UpdatedConn
      <4> QED BY <4>1, <4>2
    <3> QED BY <3>1, <3>2
  <2>4. AwaitOk(stored, awaited)
    <3> SUFFICES ASSUME NEW r \in PeerIds, NEW e \in Awaitable, Awaits(stored, r, e)
                 PROVE  <<connection_id[stored[r].conn], r, e[1], e[2]>> \in awaited
      BY DEF AwaitOk
    <3>1. CASE r # id
      BY <1>1, <2>1, <3>1 DEF AwaitOk, Awaits
    <3>2. CASE r = id
      <4>1. Updated(peers[id], m.conn, status).expecting_answers[e] # None
        BY <2>2, <3>2 DEF Awaits
      <4>2. peers[id] # NoPeer /\ peers[id].expecting_answers[e] # None
        BY <1>1, <2>2, <4>1, UpdatedAwaits
      <4> QED BY <2>3, <3>2, <4>2 DEF AwaitOk, Awaits
    <3> QED BY <3>1, <3>2
  <2>5. /\ PassOn(m, stored) /\ stored[m.peer_id] # NoPeer
        /\ connection_id[stored[m.peer_id].conn] = connection_id[m.conn]
    BY <1>1, <1>4, <2>1, <2>3
  <2> QED BY <2>4, <2>5, PassOnAwait DEF AnsweredOnce
<1> QED BY <1>2, <1>3, <1>4

LEMMA AwaitStep ==
  ASSUME TypeOK, AwaitOk(peers, awaited), [Next]_vars
  PROVE  AwaitOk(peers', awaited') /\ (UNCHANGED vars \/ AnsweredOnce)
<1>1. CASE UNCHANGED vars
  BY <1>1 DEF vars, torrent
<1>2. ASSUME NEW w \in Consumers, HandleAnnounce(w)
      PROVE  AwaitOk(peers', awaited') /\ AnsweredOnce
  BY <1>2, AwaitHandled
<1>3. ASSUME NEW c \in Connections, ConnectionStep(c)
      PROVE  out_messages' = {} /\ UNCHANGED <<peers, awaited>>
  BY <1>3 DEF ConnectionStep, Open, ReceiveAnnounce, SendAnnounce, Close, torrent
<1>4. ASSUME ReloadAccessList
      PROVE  out_messages' = {} /\ UNCHANGED <<peers, awaited>>
  BY <1>4 DEF ReloadAccessList, torrent
<1>5. ASSUME NEW w \in Consumers, HandleConnectionClosed(w)
      PROVE  AwaitOk(peers', awaited') /\ out_messages' = {}
  <2>1. \A r \in PeerIds : peers'[r] # NoPeer => peers'[r] = peers[r]
    BY <1>5 DEF HandleConnectionClosed, RemovePeers, Removed
  <2>2. out_messages' = {} /\ awaited' = awaited
    BY <1>5 DEF HandleConnectionClosed
  <2> QED BY <2>1, <2>2, AwaitKept
<1>6. ASSUME clean PROVE AwaitOk(peers', awaited') /\ out_messages' = {}
  <2>1. ASSUME NEW peer \in Peer
        PROVE  /\ Pruned(peer).conn = peer.conn
               /\ \A e \in Awaitable : Pruned(peer).expecting_answers[e] # None =>
                                       peer.expecting_answers[e] # None
    <3>1. Pruned(peer).conn = peer.conn
      BY DEF Pruned, Peer
    <3>2. Pruned(peer).expecting_answers =
            [e \in Awaitable |-> IF peer.expecting_answers[e] = 0 THEN None
                                 ELSE peer.expecting_answers[e]]
      BY DEF Pruned, Peer
    <3> QED BY <3>1, <3>2 DEF None
  <2>2. \A r \in PeerIds : peers'[r] # NoPeer => /\ peers[r] # NoPeer /\ peers[r] \in Peer
                                                  /\ peers'[r] = Pruned(peers[r])
    BY <1>6 DEF clean, TypeOK
  <2>3. out_messages' = {} /\ awaited' = awaited
    BY <1>6 DEF clean
  <2> QED BY <2>1, <2>2, <2>3, AwaitKept
<1>7. ASSUME Tick PROVE AwaitOk(peers', awaited') /\ out_messages' = {}
  <2> DEFINE Older(peer) ==
        [peer EXCEPT !.valid_until = Elapsed(@),
                     !.expecting_answers = [e \in Awaitable |-> Elapsed(@[e])]]
  <2>1. ASSUME NEW peer \in Peer
        PROVE  /\ Older(peer).conn = peer.conn
               /\ \A e \in Awaitable : Older(peer).expecting_answers[e] # None =>
                                       peer.expecting_answers[e] # None
    <3>1. Older(peer).conn = peer.conn
      BY DEF Peer
    <3>2. Older(peer).expecting_answers = [e \in Awaitable |-> Elapsed(peer.expecting_answers[e])]
      BY DEF Peer
    <3> HIDE DEF Older
    <3> QED BY <3>1, <3>2 DEF None, Elapsed
  <2>2. \A r \in PeerIds : peers'[r] # NoPeer => /\ peers[r] # NoPeer /\ peers[r] \in Peer
                                                  /\ peers'[r] = Older(peers[r])
    BY <1>7 DEF Tick, TypeOK
  <2>3. out_messages' = {} /\ awaited' = awaited
    BY <1>7 DEF Tick
  <2> HIDE DEF Older
  <2> QED BY <2>1, <2>2, <2>3, AwaitKept
<1> QED BY <1>1, <1>2, <1>3, <1>4, <1>5, <1>6, <1>7
       DEF Next, AnsweredOnce, AnswersAwaited

\* An answer is passed on only to the connection of a stored peer that made the
\* offer on a connection of that id, only from the peer that the offer was
\* passed to, and only once: for any number of connections, socket workers and
\* peers, connections of different socket workers with equal ids included.
THEOREM WsAnswerOnceToOfferer == Spec => AnswerOnceToOfferer
<1> DEFINE J == Inv /\ AwaitOk(peers, awaited)
<1>1. Init => J
  <2>1. Init => AwaitOk(peers, awaited)
    BY DEF Init, AwaitOk, Awaits
  <2> QED BY <2>1, InvInit
<1>2. ASSUME J, [Next]_vars
      PROVE  J' /\ (UNCHANGED vars \/ AnsweredOnce)
  <2>1. Inv'
    BY <1>2, InvStep
  <2>2. AwaitOk(peers', awaited') /\ (UNCHANGED vars \/ AnsweredOnce)
    BY <1>2, AwaitStep DEF Inv
  <2> QED BY <2>1, <2>2
<1>3. J /\ [Next]_vars => J'
  BY <1>2
<1>4. J /\ [Next]_vars => [\A m \in out_messages' : m.type = "answer" =>
          \E p \in Stored(peers') :
              /\ peers'[p].conn = m.to
              /\ <<connection_id[m.to], p, m.from, m.offer>> \in awaited]_vars
  BY <1>2 DEF AnsweredOnce, AnswersAwaited
<1> HIDE DEF J
<1> QED BY <1>1, <1>3, <1>4, PTL DEF Spec, AnswerOnceToOfferer
============================================================================
