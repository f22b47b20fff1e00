----------------------------- MODULE UdpSwarm ------------------------------
(***************************************************************************)
(* TorrentMaps of the UDP tracker (crates/udp/src/swarm.rs) as the socket  *)
(* workers, the cleaning thread and the access list reload use it.         *)
(*                                                                         *)
(* One shard of one address family is modelled: shards share nothing, and  *)
(* the cleaning thread visits them one after the other.  A TorrentData is  *)
(* an object behind an Arc: an announce takes a reference under the shard  *)
(* lock, releases that lock and inserts its peer under the object's lock,  *)
(* so the cleaning thread may unlink the object in between.                *)
(*                                                                         *)
(* `clients' is the count per peer id that the statistics worker keeps.    *)
(* Its channel is FIFO, so a message takes effect here when it is sent.    *)
(***************************************************************************)
EXTENDS PeerMap

CONSTANTS
    Workers, InfoHashes,
    Objects,                    \* TorrentData allocations; bounds the model
    NoObject, NoRequest,
    PeerIdsOf,                  \* [Keys -> SUBSET PeerIds]: ids a peer reports
    Events,                     \* events that announces carry
    max_peer_age,
    MaxNow, MaxCompleted, MaxClients, MaxListUpdates    \* bounds

\* "none" stands for AnnounceEvent::Started too: the swarm treats them alike.
Event == {"none", "stopped", "completed"}

ASSUME SwarmAssumption ==
    /\ Events \subseteq Event
    /\ NoObject \notin Objects
    /\ PeerIdsOf \in [Keys -> SUBSET PeerIds]
    /\ {max_peer_age, MaxNow, MaxCompleted, MaxClients, MaxListUpdates} \subseteq Nat

VARIABLES
    now,
    shard,                      \* HashMap<InfoHash, Arc<TorrentData>>
    data, pending_removal,      \* the fields of every TorrentData
    fresh,                      \* objects not allocated yet
    allowed,                    \* info hashes the access list allows
    list_updates,
    request, held,              \* per worker: announce under way, its Arc
    cpc, todo, clean_now,       \* cleaning thread
    removals,                   \* PeerRemoved messages it has collected
    clients                     \* statistics worker: count per peer id

vars == <<now, shard, data, pending_removal, fresh, allowed, list_updates,
          request, held, cpc, todo, clean_now, removals, clients>>

Request == [info_hash: InfoHashes, key: Keys, peer_id: PeerIds, event: Event,
            bytes_left: {0, 1}, valid_until: Nat]

ASSUME RequestAssumption == NoRequest \notin Request

\* A PeerRemoved message of the cleaning thread carries only the id; torrent
\* and key tell the messages of one cleaning apart.
PeerRemoved == [info_hash: InfoHashes, key: Keys, peer_id: PeerIds]

TypeOK ==
    /\ now \in Nat
    /\ shard \in [InfoHashes -> Objects \cup {NoObject}]
    /\ data \in [Objects -> Map]
    /\ pending_removal \in [Objects -> BOOLEAN]
    /\ fresh \subseteq Objects
    /\ allowed \subseteq InfoHashes
    /\ list_updates \in Nat
    /\ request \in [Workers -> Request \cup {NoRequest}]
    /\ held \in [Workers -> Objects \cup {NoObject}]
    /\ cpc \in {"sleep", "scan", "retain", "report"}
    /\ todo \subseteq InfoHashes
    /\ clean_now \in Nat
    /\ removals \subseteq PeerRemoved
    /\ clients \in [PeerIds -> Nat]

Linked == {shard[ih] : ih \in InfoHashes} \ {NoObject}

Init ==
    /\ now = 0
    /\ shard = [ih \in InfoHashes |-> NoObject]
    /\ data = [o \in Objects |-> Default]
    /\ pending_removal = [o \in Objects |-> FALSE]
    /\ fresh = Objects
    /\ allowed = InfoHashes
    /\ list_updates = 0
    /\ request = [w \in Workers |-> NoRequest]
    /\ held = [w \in Workers |-> NoObject]
    /\ cpc = "sleep"
    /\ todo = {}
    /\ clean_now = 0
    /\ removals = {}
    /\ clients = [id \in PeerIds |-> 0]

----------------------------------------------------------------------------
(***************************************************************************)
(* Socket workers.  The access list is consulted before the announce.      *)
(***************************************************************************)
Receive(w, req) ==
    /\ request[w] = NoRequest
    /\ req.info_hash \in allowed
    /\ req.peer_id \in PeerIdsOf[req.key]
    /\ req.valid_until = now + max_peer_age
    /\ request' = [request EXCEPT ![w] = req]
    /\ UNCHANGED <<now, shard, data, pending_removal, fresh, allowed,
                   list_updates, held, cpc, todo, clean_now, removals, clients>>

\* The entry exists: clone its Arc under the upgradable read lock.
FindTorrent(w) ==
    /\ request[w] # NoRequest
    /\ held[w] = NoObject
    /\ shard[request[w].info_hash] # NoObject
    /\ held' = [held EXCEPT ![w] = shard[request[w].info_hash]]
    /\ UNCHANGED <<now, shard, data, pending_removal, fresh, allowed,
                   list_updates, request, cpc, todo, clean_now, removals, clients>>

\* It does not: upgrade the lock, for which the cleaning thread must not be
\* reading the shard, and insert TorrentData::default().
CreateTorrent(w) ==
    /\ request[w] # NoRequest
    /\ held[w] = NoObject
    /\ shard[request[w].info_hash] = NoObject
    /\ cpc # "scan"
    /\ \E o \in fresh :
          /\ shard' = [shard EXCEPT ![request[w].info_hash] = o]
          /\ held' = [held EXCEPT ![w] = o]
          /\ fresh' = fresh \ {o}
    /\ UNCHANGED <<now, data, pending_removal, allowed, list_updates, request,
                   cpc, todo, clean_now, removals, clients>>

\* The statistics worker ignores a removal of an id that it does not count.
Uncounted(n) == IF n > 0 THEN n - 1 ELSE 0

\* Mutant: PeerRemoved for every stop.
ReportStop(req, map) ==
    clients' = [clients EXCEPT ![req.peer_id] =
        IF req.event = "stopped" THEN Uncounted(@)
        ELSE IF req.key \in Present(map) THEN @ ELSE @ + 1]

\* PeerAdded for a key that was absent, PeerRemoved for a stop that removed
\* one; both carry the id of the request, not the one that was stored.
ReportAnnounce(req, map) ==
    LET stopped == req.event = "stopped"
        known == req.key \in Present(map)
    IN  clients' = [clients EXCEPT ![req.peer_id] =
            IF ~stopped /\ ~known THEN @ + 1
            ELSE IF stopped /\ known THEN Uncounted(@) ELSE @]

\* PeerMap::announce under the torrent's write lock.
Announce(w) ==
    LET req == request[w] IN
    /\ held[w] # NoObject
    /\ data[held[w]].completed_count < MaxCompleted \/ req.event # "completed"
    /\ data' = [data EXCEPT ![held[w]] =
          announce(@, req.key, req.event, req.bytes_left, req.peer_id,
                   req.valid_until)]
    /\ ReportAnnounce(req, data[held[w]])
    /\ clients'[req.peer_id] <= MaxClients
    /\ request' = [request EXCEPT ![w] = NoRequest]
    /\ held' = [held EXCEPT ![w] = NoObject]
    /\ UNCHANGED <<now, shard, pending_removal, fresh, allowed, list_updates,
                   cpc, todo, clean_now, removals>>

----------------------------------------------------------------------------
(***************************************************************************)
(* The cleaning thread: scan the torrents under the shard read lock, then  *)
(* unlink torrents under the write lock, then send the statistics.         *)
(***************************************************************************)
CleanStart ==
    /\ cpc = "sleep"
    /\ cpc' = "scan"
    /\ todo' = {ih \in InfoHashes : shard[ih] # NoObject}
    /\ clean_now' = now
    /\ UNCHANGED <<now, shard, data, pending_removal, fresh, allowed,
                   list_updates, request, held, removals, clients>>

CleanTorrent(ih) ==
    LET o == shard[ih]
        removed(k) == [info_hash |-> ih, key |-> k,
                       peer_id |-> data[o].peers[k].peer_id]
    IN
    /\ cpc = "scan"
    /\ ih \in todo
    /\ data' = [data EXCEPT ![o] = clean(@, clean_now)]
    /\ removals' = removals \cup {removed(k) : k \in Invalid(data[o], clean_now)}
    /\ pending_removal' = [pending_removal EXCEPT ![o] = is_empty(data'[o])]
    /\ todo' = todo \ {ih}
    /\ UNCHANGED <<now, shard, fresh, allowed, list_updates, request, held, cpc,
                   clean_now, clients>>

ScanDone ==
    /\ cpc = "scan"
    /\ todo = {}
    /\ cpc' = "retain"
    /\ UNCHANGED <<now, shard, data, pending_removal, fresh, allowed,
                   list_updates, request, held, todo, clean_now, removals, clients>>

\* Mutants: no recheck of the peers, or no look at the flag at all.
RetainedByFlag(ih) == ih \in allowed /\ ~pending_removal[shard[ih]]
RetainedByList(ih) == ih \in allowed

\* fetch_and(false) clears the flag of every entry the access list allows.
retained(ih) ==
    /\ ih \in allowed
    /\ ~(pending_removal[shard[ih]] /\ is_empty(data[shard[ih]]))

Retain ==
    /\ cpc = "retain"
    /\ cpc' = "report"
    /\ shard' = [ih \in InfoHashes |->
          IF shard[ih] # NoObject /\ retained(ih) THEN shard[ih] ELSE NoObject]
    /\ pending_removal' = [o \in Objects |->
          IF \E ih \in allowed : shard[ih] = o THEN FALSE ELSE pending_removal[o]]
    /\ UNCHANGED <<now, data, fresh, allowed, list_updates, request, held, todo,
                   clean_now, removals, clients>>

\* The messages are sent one by one, between those of the workers.
SendRemoval(m) ==
    /\ cpc = "report"
    /\ m \in removals
    /\ clients' = [clients EXCEPT ![m.peer_id] = Uncounted(@)]
    /\ removals' = removals \ {m}
    /\ UNCHANGED <<now, shard, data, pending_removal, fresh, allowed,
                   list_updates, request, held, cpc, todo, clean_now>>

CleanDone ==
    /\ cpc = "report"
    /\ removals = {}
    /\ cpc' = "sleep"
    /\ UNCHANGED <<now, shard, data, pending_removal, fresh, allowed,
                   list_updates, request, held, todo, clean_now, removals, clients>>

----------------------------------------------------------------------------
\* SIGUSR1: the signal thread stores a newly read access list.
UpdateAccessList(list) ==
    /\ list_updates < MaxListUpdates
    /\ list_updates' = list_updates + 1
    /\ allowed' = list
    /\ UNCHANGED <<now, shard, data, pending_removal, fresh, request, held, cpc,
                   todo, clean_now, removals, clients>>

Tick ==
    /\ now < MaxNow
    /\ now' = now + 1
    /\ UNCHANGED <<shard, data, pending_removal, fresh, allowed, list_updates,
                   request, held, cpc, todo, clean_now, removals, clients>>

Cleaning ==
    \/ CleanStart
    \/ \E ih \in InfoHashes : CleanTorrent(ih)
    \/ ScanDone \/ Retain
    \/ \E m \in removals : SendRemoval(m)
    \/ CleanDone

Next ==
    \/ \E w \in Workers :
          \/ \E req \in [info_hash: InfoHashes, key: Keys, peer_id: PeerIds,
                         event: Events, bytes_left: {0, 1},
                         valid_until: {now + max_peer_age}] : Receive(w, req)
          \/ FindTorrent(w) \/ CreateTorrent(w) \/ Announce(w)
    \/ Cleaning
    \/ \E list \in SUBSET InfoHashes : UpdateAccessList(list)
    \/ Tick

Spec == Init /\ [][Next]_vars

\* The cleaning thread runs forever.
FairSpec == Spec /\ WF_vars(Cleaning)

----------------------------------------------------------------------------
(***************************************************************************)
(* Properties                                                              *)
(***************************************************************************)
\* Scrapes and announce responses report the true numbers of seeders and
\* leechers: the num_seeders that a large map caches stays exact through
\* announces, conversions and cleaning, and no decrement underflows.
CountsExact ==
    \A o \in Objects :
        /\ num_seeders(data[o]) = Cardinality(Seeders(data[o]))
        /\ num_leechers(data[o]) = Cardinality(Present(data[o]) \ Seeders(data[o]))

\* A small map never holds more peers than its ArrayVec has room for (a push
\* beyond that would panic under the torrent's lock).
SmallMapFits ==
    \A o \in Objects :
        ~data[o].large =>
            Cardinality(Present(data[o])) <= SMALL_PEER_MAP_CAPACITY

\* Converting between the variants keeps the download count.
CompletedNeverForgotten ==
    [][\A o \in Objects :
          data'[o].completed_count >= data[o].completed_count]_vars

\* The cleaning thread unlinks a torrent that has peers only if the access
\* list forbids it: the recheck under the write lock covers announces that
\* were served since the scan.
NonEmptyTorrentKept ==
    [][\A ih \in InfoHashes :
          /\ shard[ih] # NoObject
          /\ shard'[ih] # shard[ih]
          => ih \notin allowed \/ is_empty(data[shard[ih]])]_vars

\* An entry that an announce has looked up or just created, and is about to
\* insert its peer into, stays linked unless the access list forbids it.  A
\* comment says so; the code does not (README, known divergences).
HeldTorrentStaysLinked ==
    \A w \in Workers :
        held[w] # NoObject =>
            \/ shard[request[w].info_hash] = held[w]
            \/ list_updates > 0

\* What the statistics worker counts, one element for each client.
Counted(counts) == UNION {{id} \X (1 .. counts[id]) : id \in PeerIds}

StoredPeers(objects) ==
    {at \in objects \X Keys : data[at[1]].peers[at[2]] # NoPeer}

\* The client statistics never fall below the swarm: however peers change
\* their ids and whatever is unlinked, as many clients are counted as there are
\* peers in the torrents and removals still to be sent.  The counts of the ids
\* may be wrong (a stop carries the id of the request) and the total too high
\* (a peer that leaves with its torrent is never reported).
ClientsNeverUndercounted ==
    Cardinality(Counted(clients))
        >= Cardinality(removals) + Cardinality(StoredPeers(Linked))

\* Every peer that expires is eventually dropped or renewed, as long as its
\* torrent is linked.
ExpiredPeerDropped ==
    \A ih \in InfoHashes, k \in Keys :
        (shard[ih] # NoObject /\ k \in Invalid(data[shard[ih]], now))
            ~> (shard[ih] = NoObject \/ k \notin Invalid(data[shard[ih]], now))

\* Every torrent without peers is eventually unlinked or gets a peer.
EmptyTorrentUnlinked ==
    \A ih \in InfoHashes :
        (shard[ih] # NoObject /\ is_empty(data[shard[ih]]))
            ~> (shard[ih] = NoObject \/ ~is_empty(data[shard[ih]]))

\* Support for the proofs: an announce under way belongs to a request, and the
\* torrents still to be cleaned stay linked while the shard is being read.
FlowInv ==
    /\ \A w \in Workers : held[w] # NoObject => request[w] # NoRequest
    /\ cpc = "scan" => \A ih \in todo : shard[ih] # NoObject

============================================================================
