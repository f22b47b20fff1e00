----------------------------- MODULE HttpSwarm -----------------------------
(***************************************************************************)
(* The storage of an HTTP swarm worker, crates/http/src/workers/swarm: for *)
(* each address family a map of torrents, whose few peers are kept in an   *)
(* array and whose many peers in an index map that caches its number of    *)
(* seeders.  A swarm worker runs one handler at a time; its timers clean   *)
(* the maps and refresh the deadline given to announcing peers.  Cleaning  *)
(* takes a step for each torrent, since it loads the access list for each, *)
(* and another thread may replace the list in between.                     *)
(*                                                                         *)
(* The order of a map's entries is any order (swap_remove permutes it) and *)
(* is chosen when an answer is taken from it.  A deadline is the number of *)
(* seconds left.                                                           *)
(***************************************************************************)
EXTENDS Integers, FiniteSets, Sequences

CONSTANTS
    InfoHashes,
    Families, Keys, family_of,  \* ResponsePeer keys and their families
    NoPeer, NoTorrent,          \* no entry
    SMALL_PEER_MAP_CAPACITY,
    max_peers, max_scrape_torrents, max_peer_age,
    Wants,                      \* numwant of requests, 0 for none
    ScrapeRequests,             \* sequences of info hashes
    MaxCompleted                \* bound on completed_count

Peer == [is_seeder: BOOLEAN, valid_until: 0 .. max_peer_age]

TorrentData == [large: BOOLEAN, peers: [Keys -> Peer \cup {NoPeer}],
                num_seeders: Nat, completed_count: Nat]

ASSUME HttpSwarmAssumption ==
    /\ IsFiniteSet(Keys) /\ IsFiniteSet(InfoHashes)
    /\ family_of \in [Keys -> Families]
    /\ NoPeer \notin Peer /\ NoTorrent \notin TorrentData
    /\ SMALL_PEER_MAP_CAPACITY \in Nat \ {0}
    /\ {max_peers, max_scrape_torrents, max_peer_age} \subseteq Nat
    /\ Wants \subseteq Nat
    /\ ScrapeRequests \subseteq Seq(InfoHashes)

VARIABLES
    torrents,                   \* [Families -> [InfoHashes -> TorrentData or NoTorrent]]
    peer_gauge,                 \* aquatic_peers of each family
    peer_valid_until,           \* deadline for announcing peers
    access_list,                \* info hashes that the current list allows
    unvisited,                  \* <<family, info hash>> that cleaning has yet to look at
    total_num_peers,            \* peers that it has counted in each family
    answer                      \* response of the last step, if it was a handler's

cleaning == <<unvisited, total_num_peers>>
vars == <<torrents, peer_gauge, peer_valid_until, access_list, cleaning, answer>>

----------------------------------------------------------------------------
(***************************************************************************)
(* One torrent                                                             *)
(***************************************************************************)
Present(t) == {k \in Keys : t.peers[k] # NoPeer}
Seeders(t) == {k \in Present(t) : t.peers[k].is_seeder}

Default == [large |-> FALSE, peers |-> [k \in Keys |-> NoPeer],
            num_seeders |-> 0, completed_count |-> 0]

\* A small map counts its seeders, a large one keeps the count.
num_seeders(t) == IF t.large THEN t.num_seeders ELSE Cardinality(Seeders(t))
num_leechers(t) == Cardinality(Present(t)) - num_seeders(t)

from_event_and_bytes_left(event, bytes_left) ==
    IF event = "stopped" THEN "Stopped"
    ELSE IF bytes_left = 0 THEN "Seeding" ELSE "Leeching"

remove_peer(t, k) ==
    [t EXCEPT !.peers[k] = NoPeer,
              !.num_seeders = IF t.large /\ k \in Seeders(t) THEN @ - 1 ELSE @]

insert(t, k, peer) ==
    [t EXCEPT !.peers[k] = peer,
              !.num_seeders = IF t.large /\ peer.is_seeder THEN @ + 1 ELSE @]

is_full(t) == Cardinality(Present(t)) = SMALL_PEER_MAP_CAPACITY

to_large(t) == [t EXCEPT !.large = TRUE, !.num_seeders = Cardinality(Seeders(t))]

try_shrink(t) ==
    IF Cardinality(Present(t)) <= SMALL_PEER_MAP_CAPACITY
    THEN [t EXCEPT !.large = FALSE, !.num_seeders = 0] ELSE t

resize(t, status) ==
    IF status = "Stopped" THEN IF t.large THEN try_shrink(t) ELSE t
    ELSE IF ~t.large /\ is_full(t) THEN to_large(t) ELSE t

\* The torrent an answer is computed from: without the announcing peer.
before_insert(t, k, event) ==
    remove_peer([t EXCEPT !.completed_count = IF event = "completed" THEN @ + 1 ELSE @], k)

upsert_peer(t, k, event, bytes_left) ==
    LET status == from_event_and_bytes_left(event, bytes_left)
        resized == resize(before_insert(t, k, event), status)
    IN  IF status = "Stopped" THEN resized
        ELSE insert(resized, k, [is_seeder |-> (status = "Seeding"),
                                 valid_until |-> peer_valid_until])

----------------------------------------------------------------------------
(***************************************************************************)
(* Peers of an answer                                                      *)
(***************************************************************************)
\* The orders in which a map may hold the keys S.
Orders(S) == {o \in [1 .. Cardinality(S) -> S] :
                 \A i, j \in 1 .. Cardinality(S) : o[i] = o[j] => i = j}

num_to_take(want) == IF want = 0 \/ want > max_peers THEN max_peers ELSE want

\* Mutant: the range ends one entry early.
get_range_short(order, offset, n) == SubSeq(order, offset + 1, offset + n - 1)

\* get_range(offset .. offset + n), counted from zero
get_range(order, offset, n) == SubSeq(order, offset + 1, offset + n)

\* Mutant: the map is split before its middle.
EarlyHalves(len, max) ==
    [middle |-> len \div 2 - 1, one |-> (max + 1) \div 2, two |-> max \div 2]

\* Where the map is split, and how many peers each half gives.
Halves(len, max) == [middle |-> len \div 2, one |-> (max + 1) \div 2, two |-> max \div 2]

\* The answers a random generator may lead to, of a map in this order.
extract_response_peers(large, order, max) ==
    LET half == Halves(Len(order), max) IN
    IF Len(order) <= max THEN {order}
    ELSE IF ~large THEN {SubSeq(order, 1, max)}
    ELSE {get_range(order, o[1], half.one) \o get_range(order, half.middle + o[2], half.two) :
             o \in (0 .. half.middle - half.one) \X
                   (0 .. Len(order) - half.middle - half.two)}

response_peers(t, max) ==
    UNION {extract_response_peers(t.large, order, max) : order \in Orders(Present(t))}

----------------------------------------------------------------------------
(***************************************************************************)
(* Handlers                                                                *)
(***************************************************************************)
\* Fields of an announce response with the most peers it may hold, and
\* the files of a scrape response
NoAnswer == [wanted |-> 0, complete |-> 0, incomplete |-> 0, peers |-> <<>>, files |-> <<>>]

entry(f, h) == IF torrents[f][h] = NoTorrent THEN Default ELSE torrents[f][h]

\* Mutant: a peer that was not known is counted out when it stops.
gauge_change_blind(t, k, event) ==
    IF event = "stopped" THEN -1 ELSE IF k \notin Present(t) THEN 1 ELSE 0

gauge_change(t, k, event) ==
    IF event # "stopped" /\ k \notin Present(t) THEN 1
    ELSE IF event = "stopped" /\ k \in Present(t) THEN -1 ELSE 0

handle_announce_request(h, k, event, bytes_left, want) ==
    LET f == family_of[k]
        t == entry(f, h)
        before == before_insert(t, k, event)
    IN
    /\ unvisited = {}
    /\ event = "completed" => t.completed_count < MaxCompleted
    /\ torrents' = [torrents EXCEPT ![f][h] = upsert_peer(t, k, event, bytes_left)]
    /\ \E peers \in response_peers(before, num_to_take(want)) :
          answer' = [wanted |-> num_to_take(want), complete |-> num_seeders(before),
                     incomplete |-> num_leechers(before), peers |-> peers, files |-> <<>>]
    /\ peer_gauge' = [peer_gauge EXCEPT ![f] = @ + gauge_change(t, k, event)]
    /\ UNCHANGED <<peer_valid_until, access_list, cleaning>>

scrape_statistics(t) ==
    [complete |-> num_seeders(t), incomplete |-> num_leechers(t),
     downloaded |-> t.completed_count]

\* Only the first max_scrape_torrents of a request are answered.
handle_scrape_request(f, request) ==
    LET taken == {i \in DOMAIN request : i <= max_scrape_torrents} IN
    /\ unvisited = {}
    /\ answer' = [NoAnswer EXCEPT !.files =
            [h \in {request[i] : i \in taken} |-> scrape_statistics(entry(f, h))]]
    /\ UNCHANGED <<torrents, peer_gauge, peer_valid_until, access_list, cleaning>>

Expired(t) == {k \in Present(t) : t.peers[k].valid_until = 0}

\* Unlike an announce, cleaning keeps a large map large.
clean_and_get_num_peers(t) ==
    [t EXCEPT !.peers = [k \in Keys |-> IF k \in Expired(t) THEN NoPeer ELSE t.peers[k]],
              !.num_seeders = IF t.large THEN @ - Cardinality(Expired(t) \cap Seeders(t))
                              ELSE @]

Stored(f, ts) ==
    {e \in InfoHashes \X Keys : ts[f][e[1]] # NoTorrent /\ e[2] \in Present(ts[f][e[1]])}

\* clean, before the first torrent.  The gauge of an empty map is set at once.
clean ==
    /\ unvisited = {}
    /\ unvisited' = {e \in Families \X InfoHashes : torrents[e[1]][e[2]] # NoTorrent}
    /\ total_num_peers' = [f \in Families |-> 0]
    /\ peer_gauge' = [f \in Families |->
          IF \A h \in InfoHashes : torrents[f][h] = NoTorrent THEN 0 ELSE peer_gauge[f]]
    /\ answer' = NoAnswer
    /\ UNCHANGED <<torrents, peer_valid_until, access_list>>

\* Mutant: a list of allowed info hashes is read as one of denied ones.
remaining_denied(f, h) ==
    IF h \notin access_list THEN Present(torrents[f][h]) \ Expired(torrents[f][h]) ELSE {}

\* The peers a torrent is left with, none if the list forbids it.
remaining(f, h) ==
    IF h \in access_list THEN Present(torrents[f][h]) \ Expired(torrents[f][h]) ELSE {}

\* Torrents that are forbidden, or left without peers, are dropped.
Dropped(f, h) == remaining(f, h) = {}

\* One torrent of the loop: the list in force is loaded, the torrent cleaned or
\* dropped, its peers counted, and after the last one the gauge is set.  The
\* maps are taken in any order; the clock was read before the first torrent.
retain(f, h) ==
    LET total == total_num_peers[f] + Cardinality(remaining(f, h))
        last == \A i \in InfoHashes : <<f, i>> \in unvisited => i = h
    IN
    /\ <<f, h>> \in unvisited
    /\ torrents' = [torrents EXCEPT ![f][h] =
          IF Dropped(f, h) THEN NoTorrent ELSE clean_and_get_num_peers(@)]
    /\ unvisited' = unvisited \ {<<f, h>>}
    /\ total_num_peers' = [total_num_peers EXCEPT ![f] = IF last THEN 0 ELSE total]
    /\ peer_gauge' = IF last THEN [peer_gauge EXCEPT ![f] = total] ELSE peer_gauge
    /\ answer' = NoAnswer
    /\ UNCHANGED <<peer_valid_until, access_list>>

\* SIGUSR1: the signal thread stores a new list, at any time.
update_access_list(list) ==
    /\ access_list' = list
    /\ answer' = NoAnswer
    /\ UNCHANGED <<torrents, peer_gauge, peer_valid_until, cleaning>>

\* The timer that runs every second, if the worker is not busy.
update_peer_valid_until ==
    /\ unvisited = {}
    /\ peer_valid_until' = max_peer_age
    /\ answer' = NoAnswer
    /\ UNCHANGED <<torrents, peer_gauge, access_list, cleaning>>

Left(seconds) == IF seconds > 0 THEN seconds - 1 ELSE 0

\* A second that passes during a cleaning is not seen before its end.
Tick ==
    /\ unvisited = {}
    /\ torrents' = [f \in Families |-> [h \in InfoHashes |->
          IF torrents[f][h] = NoTorrent THEN NoTorrent
          ELSE [torrents[f][h] EXCEPT !.peers = [k \in Keys |->
                  IF torrents[f][h].peers[k] = NoPeer THEN NoPeer
                  ELSE [torrents[f][h].peers[k] EXCEPT !.valid_until = Left(@)]]]]]
    /\ peer_valid_until' = Left(peer_valid_until)
    /\ answer' = NoAnswer
    /\ UNCHANGED <<peer_gauge, access_list, cleaning>>

----------------------------------------------------------------------------
Init ==
    /\ torrents = [f \in Families |-> [h \in InfoHashes |-> NoTorrent]]
    /\ peer_gauge = [f \in Families |-> 0]
    /\ peer_valid_until = max_peer_age
    /\ access_list \in SUBSET InfoHashes
    /\ unvisited = {} /\ total_num_peers = [f \in Families |-> 0]
    /\ answer = NoAnswer

Next ==
    \/ \E h \in InfoHashes, k \in Keys, want \in Wants :
          \/ \E event \in {"started", "completed"}, bytes_left \in {0, 1} :
                handle_announce_request(h, k, event, bytes_left, want)
          \/ handle_announce_request(h, k, "stopped", 0, want)
    \/ \E f \in Families, request \in ScrapeRequests : handle_scrape_request(f, request)
    \/ clean
    \/ \E f \in Families, h \in InfoHashes : retain(f, h)
    \/ \E list \in SUBSET InfoHashes : update_access_list(list)
    \/ update_peer_valid_until \/ Tick

Spec == Init /\ [][Next]_vars

----------------------------------------------------------------------------
(***************************************************************************)
(* Properties                                                              *)
(***************************************************************************)
TypeOK ==
    /\ torrents \in [Families -> [InfoHashes -> TorrentData \cup {NoTorrent}]]
    /\ peer_gauge \in [Families -> Int]
    /\ peer_valid_until \in 0 .. max_peer_age
    /\ access_list \subseteq InfoHashes
    /\ unvisited \subseteq Families \X InfoHashes
    /\ total_num_peers \in [Families -> Nat]

\* SmallPeerMap::insert: the array of a small map is never pushed to beyond
\* its capacity, which would panic.
SmallMapFits ==
    \A f \in Families, h \in InfoHashes :
        torrents[f][h] # NoTorrent /\ ~torrents[f][h].large =>
            Cardinality(Present(torrents[f][h])) <= SMALL_PEER_MAP_CAPACITY

\* LargePeerMap::extract_response_peers: for every announce there are offsets
\* to choose from, that is, no subtraction in their bounds goes below zero.
EveryAnnounceAnswered ==
    \A h \in InfoHashes, k \in Keys, want \in Wants :
        response_peers(remove_peer(entry(family_of[k], h), k), num_to_take(want)) # {}

\* The gauge of each family, which announces adjust and cleaning recomputes
\* torrent by torrent, is the number of peers stored, except while that
\* family's map is being cleaned.
PeerGaugeExact ==
    \A f \in Families :
        (\A h \in InfoHashes : <<f, h>> \notin unvisited) =>
            peer_gauge[f] = Cardinality(Stored(f, torrents))

\* TorrentMap::clean: a peer whose time is not over leaves only by its own
\* announce, or with a torrent that the access list forbids at that moment;
\* a list that is replaced during a cleaning costs no other torrent its peers.
LivePeerKept ==
    [][\A f \in Families, h \in InfoHashes, k \in Keys :
          torrents[f][h] # NoTorrent =>
             \/ torrents[f][h].peers[k] = NoPeer
             \/ torrents[f][h].peers[k].valid_until = 0
             \/ torrents'[f][h] # NoTorrent /\ k \in Present(torrents'[f][h])
             \/ \E want \in Wants : handle_announce_request(h, k, "stopped", 0, want)
             \/ h \notin access_list
      ]_vars

\* The worker implements Swarm: counts and peers in answers are those of the
\* swarm without the announcing peer, whatever the variant of the map, and
\* downloads are forgotten only with the torrent's last peer or the torrent.
RoleOf(h, k) ==
    LET t == entry(family_of[k], h) IN
    IF t.peers[k] = NoPeer THEN "Absent"
    ELSE IF t.peers[k].is_seeder THEN "Seeding" ELSE "Leeching"

Abstract == INSTANCE Swarm WITH
    role <- [h \in InfoHashes |-> [k \in Keys |-> RoleOf(h, k)]],
    downloaded <- [f \in Families |-> [h \in InfoHashes |-> entry(f, h).completed_count]]

ImplementsSwarm == Abstract!Spec
============================================================================
