------------------------------ MODULE PeerMap ------------------------------
(***************************************************************************)
(* The peer map of one torrent, crates/udp/src/swarm.rs: up to             *)
(* SMALL_PEER_MAP_CAPACITY peers in a SmallPeerMap, more in a LargePeerMap *)
(* that caches its number of seeders.  A map is a record; the order of its *)
(* entries is abstracted away.  num_seeders is a field of LargePeerMap     *)
(* only and is 0 here for a small map.                                     *)
(***************************************************************************)
EXTENDS Integers, FiniteSets

CONSTANTS
    Keys,                       \* ResponsePeer: (ip address, port)
    PeerIds,
    NoPeer,                     \* value of peers[key] for an absent key
    SMALL_PEER_MAP_CAPACITY

Peer == [peer_id: PeerIds, is_seeder: BOOLEAN, valid_until: Nat]

ASSUME PeerMapAssumption ==
    /\ IsFiniteSet(Keys)
    /\ NoPeer \notin Peer
    /\ SMALL_PEER_MAP_CAPACITY \in Nat \ {0}

Map == [large: BOOLEAN, peers: [Keys -> Peer \cup {NoPeer}],
        num_seeders: Nat, completed_count: Nat]

Present(map) == {k \in Keys : map.peers[k] # NoPeer}
Seeders(map) == {k \in Present(map) : map.peers[k].is_seeder}
Invalid(map, now) == {k \in Present(map) : map.peers[k].valid_until <= now}
is_empty(map) == Present(map) = {}

Default == [large |-> FALSE, peers |-> [k \in Keys |-> NoPeer],
            num_seeders |-> 0, completed_count |-> 0]

\* A small map counts its seeders, a large one keeps the count.
num_seeders(map) ==
    IF map.large THEN map.num_seeders ELSE Cardinality(Seeders(map))

num_leechers(map) == Cardinality(Present(map)) - num_seeders(map)

from_event_and_bytes_left(event, bytes_left) ==
    IF event = "stopped" THEN "Stopped"
    ELSE IF bytes_left = 0 THEN "Seeding" ELSE "Leeching"

(***************************************************************************)
(* Conversions between the variants                                        *)
(***************************************************************************)
\* Mutant: the map grows one insertion too late.
is_overfull(map) == Cardinality(Present(map)) > SMALL_PEER_MAP_CAPACITY

is_full(map) == Cardinality(Present(map)) = SMALL_PEER_MAP_CAPACITY

to_large(map) ==
    [map EXCEPT !.large = TRUE, !.num_seeders = Cardinality(Seeders(map))]

try_shrink(map) ==
    IF Cardinality(Present(map)) <= SMALL_PEER_MAP_CAPACITY
    THEN [map EXCEPT !.large = FALSE, !.num_seeders = 0]
    ELSE map

(***************************************************************************)
(* Single-entry changes                                                    *)
(***************************************************************************)
remove_peer(map, key) ==
    [map EXCEPT !.peers[key] = NoPeer,
                !.num_seeders = IF map.large /\ key \in Seeders(map)
                                THEN @ - 1 ELSE @]

insert(map, key, peer) ==
    [map EXCEPT !.peers[key] = peer,
                !.num_seeders = IF map.large /\ peer.is_seeder THEN @ + 1 ELSE @]

\* Change of variant between the removal and the insertion of an announce: a
\* full small map grows if the peer will be inserted, a large map is shrunk
\* if it will not.
resize(map, status) ==
    IF status = "Stopped"
    THEN IF map.large THEN try_shrink(map) ELSE map
    ELSE IF ~map.large /\ is_full(map) THEN to_large(map) ELSE map

\* The map the response is computed from: the completed event is counted and
\* the announcing peer itself is out.
before_insert(map, key, event) ==
    remove_peer([map EXCEPT !.completed_count =
                    IF event = "completed" THEN @ + 1 ELSE @], key)

announce(map, key, event, bytes_left, peer_id, valid_until) ==
    LET status == from_event_and_bytes_left(event, bytes_left)
        resized == resize(before_insert(map, key, event), status)
    IN  IF status = "Stopped" THEN resized
        ELSE insert(resized, key, [peer_id |-> peer_id,
                                   is_seeder |-> (status = "Seeding"),
                                   valid_until |-> valid_until])

\* Mutants: cleaning forgets the seeder count, or waits a second too long.
clean_uncounted(map, now) ==
    LET cleaned == [map EXCEPT !.peers = [k \in Keys |->
                       IF k \in Invalid(map, now) THEN NoPeer ELSE map.peers[k]]]
    IN  IF map.large THEN try_shrink(cleaned) ELSE cleaned

clean_late(map, now) ==
    [map EXCEPT !.peers = [k \in Keys |->
        IF k \in Invalid(map, now - 1) THEN NoPeer ELSE map.peers[k]]]

\* clean_and_get_num_peers, and try_shrink for a large map.
clean(map, now) ==
    LET expired == Invalid(map, now)
        cleaned == [map EXCEPT
            !.peers = [k \in Keys |-> IF k \in expired THEN NoPeer ELSE map.peers[k]],
            !.num_seeders = IF map.large
                            THEN @ - Cardinality(expired \cap Seeders(map))
                            ELSE @]
    IN  IF map.large THEN try_shrink(cleaned) ELSE cleaned
============================================================================
