------------------------------ MODULE WsSwarm ------------------------------
(***************************************************************************)
(* The WebTorrent tracker's announce path for one torrent                  *)
(* (crates/ws/src/workers): connection tasks of the socket workers check   *)
(* and queue announces, the swarm worker stores peers and passes offers    *)
(* and answers between them, and a connection that closes reports the peer *)
(* it announced through a channel of its own.  The swarm worker drains the *)
(* request channel and the control channel of every socket worker in       *)
(* tasks that are not ordered with one another.                            *)
(*                                                                         *)
(* Time is relative: a deadline is stored as the seconds left, a second    *)
(* that passes takes one off every deadline, and a deadline is valid while *)
(* it is positive (ValidUntil::valid is a strict comparison).              *)
(***************************************************************************)
EXTENDS Sequences, FiniteSetsExt

CONSTANTS
    Connections,                \* connections over the life of the tracker
    Consumers,                  \* socket workers, named by their ConsumerId
    consumer_id,                \* [Connections -> Consumers]
    connection_id,              \* slot map key; unique in a socket worker only
    PeerIds, OfferIds,
    Announces,                  \* contents of the announces clients make
    PeerIdsOf,                  \* ids a client announces on a connection
    NoPeer, NoAnnounce,
    max_peer_age, max_offer_age, max_offers,
    SHARED_IN_CHANNEL_SIZE,
    MaxReloads                  \* bound on changes of the access list

None == -1                      \* deadline of an offer that is not awaited

\* offers: ids of the offers made; answers: pairs of receiver and offer, at
\* most one in a request.
Announce == [event: {"update", "stopped"}, bytes_left: {0, 1},
             offers: Seq(OfferIds), answers: SUBSET (PeerIds \X OfferIds)]

InMessage == [conn: Connections, peer_id: PeerIds, announce: Announces]

Awaitable == PeerIds \X OfferIds

\* An offer that was passed on: connection id and peer id of the offerer,
\* receiver, offer.
Offered == {connection_id[c] : c \in Connections} \X PeerIds \X PeerIds \X OfferIds

\* conn stands for connection_id and consumer_id of the code's Peer.
Peer == [conn: Connections, seeder: BOOLEAN, valid_until: 0 .. max_peer_age,
         expecting_answers: [Awaitable -> None .. max_offer_age]]

ASSUME WsAssumption ==
    /\ consumer_id \in [Connections -> Consumers]
    /\ \A c, d \in Connections :
          c # d /\ consumer_id[c] = consumer_id[d] => connection_id[c] # connection_id[d]
    /\ IsFiniteSet(PeerIds)
    /\ Announces \subseteq Announce
    /\ \A a \in Announces : \A x, y \in a.answers : x = y
    /\ PeerIdsOf \in [Connections -> SUBSET PeerIds]
    /\ NoPeer \notin Peer \cup PeerIds
    /\ NoAnnounce \notin InMessage
    /\ {max_peer_age, max_offer_age, max_offers} \subseteq Nat
    /\ SHARED_IN_CHANNEL_SIZE \in Nat \ {0}
    /\ MaxReloads \in Nat

VARIABLES
    open,                       \* connections whose task runs
    closed,                     \* connections that ran and ended
    announced,                  \* announced_info_hashes of each connection
    sending,                    \* request a reader is about to queue
    in_channel, control_channel,\* per socket worker, FIFO
    peers, num_seeders,         \* TorrentData
    out_messages,               \* what the last step passes to connections
    allowed, reloads,           \* access list entry of the torrent
    awaited                     \* history: offers passed on and not answered

connections == <<open, closed, announced, sending>>
torrent == <<peers, num_seeders>>
access == <<allowed, reloads>>
vars == <<connections, in_channel, control_channel, torrent, out_messages,
          access, awaited>>

TypeOK ==
    /\ open \subseteq Connections
    /\ closed \subseteq Connections \ open
    /\ announced \in [Connections -> PeerIds \cup {NoPeer}]
    /\ sending \in [Connections -> InMessage \cup {NoAnnounce}]
    /\ in_channel \in [Consumers -> Seq(InMessage)]
    /\ control_channel \in [Consumers -> Seq(PeerIds)]
    /\ peers \in [PeerIds -> Peer \cup {NoPeer}]
    /\ num_seeders \in Nat
    /\ allowed \in BOOLEAN
    /\ reloads \in Nat
    /\ awaited \subseteq Offered

Stored(map) == {p \in PeerIds : map[p] # NoPeer}
Seeders(map) == {p \in Stored(map) : map[p].seeder}

----------------------------------------------------------------------------
(***************************************************************************)
(* Connections                                                             *)
(***************************************************************************)
Open(c) ==
    /\ c \notin open \cup closed
    /\ open' = open \cup {c}
    /\ out_messages' = {}
    /\ UNCHANGED <<closed, announced, sending, in_channel, control_channel,
                   torrent, access, awaited>>

\* Mutant: the peer id is not compared with the stored one.
KeepsPeerIdUnchecked(c, id) == TRUE

\* One peer id per torrent on a connection.
KeepsPeerId(c, id) == announced[c] \in {NoPeer, id}

\* Announces that the security checks or the access list refuse, or that use
\* a second peer id, change nothing here; the last ones end the connection
\* (Close).  The reader remembers the peer id before it waits for room in the channel.
ReceiveAnnounce(c, id, a) ==
    /\ c \in open
    /\ sending[c] = NoAnnounce
    /\ allowed
    /\ KeepsPeerId(c, id)
    /\ announced' = [announced EXCEPT ![c] =
                        IF a.event = "stopped" THEN NoPeer ELSE id]
    /\ sending' = [sending EXCEPT ![c] = [conn |-> c, peer_id |-> id, announce |-> a]]
    /\ out_messages' = {}
    /\ UNCHANGED <<open, closed, in_channel, control_channel, torrent, access, awaited>>

SendAnnounce(c) ==
    LET w == consumer_id[c] IN
    /\ c \in open
    /\ sending[c] # NoAnnounce
    /\ Len(in_channel[w]) < SHARED_IN_CHANNEL_SIZE
    /\ in_channel' = [in_channel EXCEPT ![w] = Append(@, sending[c])]
    /\ sending' = [sending EXCEPT ![c] = NoAnnounce]
    /\ out_messages' = {}
    /\ UNCHANGED <<open, closed, announced, control_channel, torrent, access, awaited>>

\* The task ends: stream end, a second peer id, a failed write or
\* clean_connections.  The reader is dropped wherever it waits, and
\* after_close reports the announced peer id.
Close(c) ==
    LET w == consumer_id[c] IN
    /\ c \in open
    /\ open' = open \ {c}
    /\ closed' = closed \cup {c}
    /\ announced' = [announced EXCEPT ![c] = NoPeer]
    /\ sending' = [sending EXCEPT ![c] = NoAnnounce]
    /\ control_channel' = IF announced[c] = NoPeer THEN control_channel
                          ELSE [control_channel EXCEPT ![w] = Append(@, announced[c])]
    /\ out_messages' = {}
    /\ UNCHANGED <<in_channel, torrent, access, awaited>>

----------------------------------------------------------------------------
(***************************************************************************)
(* The swarm worker: requests                                              *)
(***************************************************************************)
PeerStatus(a) == IF a.event = "stopped" THEN "Stopped"
                 ELSE IF a.bytes_left = 0 THEN "Seeding" ELSE "Leeching"

\* The stored ConnectionId is compared, the socket worker's id is not.
SameConnection(peer, conn) == connection_id[peer.conn] = connection_id[conn]

\* The peer id belongs to another connection: no change and no response.
Ignored(peer, conn) == peer # NoPeer /\ ~SameConnection(peer, conn)

\* insert_or_update_peer, for the peer itself.
Updated(peer, conn, status) ==
    CASE status = "Stopped" -> NoPeer
      [] status # "Stopped" /\ peer = NoPeer ->
            [conn |-> conn, seeder |-> status = "Seeding",
             valid_until |-> max_peer_age,
             expecting_answers |-> [e \in Awaitable |-> None]]
      [] OTHER -> [peer EXCEPT !.seeder = (status = "Seeding"),
                               !.valid_until = max_peer_age]

\* insert_or_update_peer, for the cached count.
seeders_after(n, peer, status) ==
    LET was_seeder == IF peer = NoPeer THEN FALSE ELSE peer.seeder IN
    CASE status = "Seeding" /\ ~was_seeder -> n + 1
      [] status # "Seeding" /\ was_seeder -> n - 1
      [] OTHER -> n

\* Peers that may receive the first offers: distinct, never the sender, as
\* many as there are offers, limit and peers.  The random choice of
\* extract_response_peers is any such choice.
Receivers(map, id, offers) ==
    LET others == Stored(map) \ {id}
        n == Min({Len(offers), max_offers, Cardinality(others)})
    IN  Injection(1 .. n, others)

\* handle_offers: the sender now awaits an answer from every receiver.
Expect(map, id, offers, to) ==
    [map EXCEPT ![id].expecting_answers =
        [e \in Awaitable |-> IF \E i \in DOMAIN to : e = <<to[i], offers[i]>>
                             THEN max_offer_age ELSE @[e]]]

\* Mutant: the offer stays answerable.
TakenKept(map, receiver, e) == map

\* handle_answer takes the awaited offer out.
Taken(map, receiver, e) == [map EXCEPT ![receiver].expecting_answers[e] = None]

Awaits(map, receiver, e) ==
    map[receiver] # NoPeer /\ map[receiver].expecting_answers[e] # None

\* handle_announce_request once the peer is stored: offers, then the answer.
PassOn(m, map) ==
    LET a == m.announce
        id == m.peer_id
    IN
    \E to \in Receivers(map, id, a.offers) :
        LET expecting == Expect(map, id, a.offers, to)
            taken == {x \in a.answers : Awaits(expecting, x[1], <<id, x[2]>>)}
            offers == {[type |-> "offer", to |-> map[to[i]].conn, from |-> id,
                        offer |-> a.offers[i]] : i \in DOMAIN to}
            answers == {[type |-> "answer", to |-> expecting[x[1]].conn, from |-> id,
                         offer |-> x[2]] : x \in taken}
            errors == {[type |-> "error", to |-> m.conn, from |-> id, offer |-> x[2]] :
                          x \in {y \in a.answers \ taken : expecting[y[1]] # NoPeer}}
        IN
        /\ peers' = IF taken = {} THEN expecting
                    ELSE LET x == CHOOSE x \in taken : TRUE
                         IN  Taken(expecting, x[1], <<id, x[2]>>)
        /\ out_messages' = offers \cup answers \cup errors
        /\ awaited' = (awaited \cup {<<connection_id[m.conn], id, to[i], a.offers[i]>> :
                                        i \in DOMAIN to})
                        \ {<<connection_id[expecting[x[1]].conn], x[1], id, x[2]>> :
                              x \in taken}

HandleAnnounce(w) ==
    LET m == Head(in_channel[w])
        peer == peers[m.peer_id]
        status == PeerStatus(m.announce)
        stored == [peers EXCEPT ![m.peer_id] = Updated(peer, m.conn, status)]
    IN
    /\ in_channel[w] # <<>>
    /\ in_channel' = [in_channel EXCEPT ![w] = Tail(@)]
    /\ \/ /\ Ignored(peer, m.conn)
          /\ out_messages' = {}
          /\ UNCHANGED <<torrent, awaited>>
       \/ /\ ~Ignored(peer, m.conn)
          /\ num_seeders' = seeders_after(num_seeders, peer, status)
          /\ IF status = "Stopped"
             THEN peers' = stored /\ out_messages' = {} /\ UNCHANGED awaited
             ELSE PassOn(m, stored)
    /\ UNCHANGED <<connections, control_channel, access>>

----------------------------------------------------------------------------
(***************************************************************************)
(* The swarm worker: closed connections, cleaning, time                    *)
(***************************************************************************)
Removed(map, ids) == [p \in PeerIds |-> IF p \in ids THEN NoPeer ELSE map[p]]

\* Mutant: the seeder is not subtracted.
closed_uncounted(ids) == peers' = Removed(peers, ids) /\ UNCHANGED num_seeders

\* handle_connection_closed removes by peer id.
RemovePeers(ids) ==
    /\ peers' = Removed(peers, ids)
    /\ num_seeders' = num_seeders - Cardinality(Seeders(peers) \cap ids)

HandleConnectionClosed(w) ==
    /\ control_channel[w] # <<>>
    /\ control_channel' = [control_channel EXCEPT ![w] = Tail(@)]
    /\ RemovePeers({Head(control_channel[w])})
    /\ out_messages' = {}
    /\ UNCHANGED <<connections, in_channel, access, awaited>>

\* Mutant: only leechers expire.
ExpiredLeechers == {p \in Stored(peers) : peers[p].valid_until = 0 /\ ~peers[p].seeder}

Expired == {p \in Stored(peers) : peers[p].valid_until = 0}

\* Offers whose deadline passed are no longer awaited.
Pruned(peer) ==
    [peer EXCEPT !.expecting_answers =
        [e \in Awaitable |-> IF @[e] = 0 THEN None ELSE @[e]]]

clean ==
    /\ peers' = [p \in PeerIds |->
                    IF ~allowed \/ peers[p] = NoPeer \/ p \in Expired THEN NoPeer
                    ELSE Pruned(peers[p])]
    /\ num_seeders' = IF allowed THEN num_seeders - Cardinality(Seeders(peers) \cap Expired)
                      ELSE 0
    /\ out_messages' = {}
    /\ UNCHANGED <<connections, in_channel, control_channel, access, awaited>>

Elapsed(left) == IF left > 0 THEN left - 1 ELSE left

Tick ==
    /\ peers' = [p \in PeerIds |->
                    IF peers[p] = NoPeer THEN NoPeer
                    ELSE [peers[p] EXCEPT
                            !.valid_until = Elapsed(@),
                            !.expecting_answers = [e \in Awaitable |-> Elapsed(@[e])]]]
    /\ out_messages' = {}
    /\ UNCHANGED <<connections, in_channel, control_channel, num_seeders, access, awaited>>

ReloadAccessList ==
    /\ reloads < MaxReloads
    /\ reloads' = reloads + 1
    /\ allowed' = ~allowed
    /\ out_messages' = {}
    /\ UNCHANGED <<connections, in_channel, control_channel, torrent, awaited>>

----------------------------------------------------------------------------
Init ==
    /\ open = {} /\ closed = {}
    /\ announced = [c \in Connections |-> NoPeer]
    /\ sending = [c \in Connections |-> NoAnnounce]
    /\ in_channel = [w \in Consumers |-> <<>>]
    /\ control_channel = [w \in Consumers |-> <<>>]
    /\ peers = [p \in PeerIds |-> NoPeer]
    /\ num_seeders = 0
    /\ out_messages = {}
    /\ allowed = TRUE /\ reloads = 0
    /\ awaited = {}

ConnectionStep(c) ==
    \/ Open(c)
    \/ \E id \in PeerIdsOf[c], a \in Announces : ReceiveAnnounce(c, id, a)
    \/ SendAnnounce(c)
    \/ Close(c)

Next ==
    \/ \E c \in Connections : ConnectionStep(c)
    \/ \E w \in Consumers : HandleAnnounce(w) \/ HandleConnectionClosed(w)
    \/ clean \/ Tick \/ ReloadAccessList

Spec == Init /\ [][Next]_vars

\* The swarm worker's tasks and timer run, and time passes.
Fairness ==
    /\ \A w \in Consumers : WF_vars(HandleAnnounce(w)) /\ WF_vars(HandleConnectionClosed(w))
    /\ WF_vars(clean) /\ WF_vars(Tick)

FairSpec == Spec /\ Fairness

----------------------------------------------------------------------------
(***************************************************************************)
(* Properties                                                              *)
(***************************************************************************)
\* The cached seeder count that responses report, and from which the number
\* of leechers is subtracted, equals the number of stored seeders after every
\* announce, close and cleaning.
SeedersExact == num_seeders = Cardinality(Seeders(peers))

\* A connection never has two peers in a torrent, although its reader forgets
\* the id of a stopped peer before the swarm worker has removed it
\* (handle_announce_request of ConnectionReader, the in channel's order).
OnePeerPerConnection ==
    \A p, q \in Stored(peers) : peers[p].conn = peers[q].conn => p = q

\* handle_answer passes an answer on only to the connection of a stored peer
\* that made the offer on a connection of the same id, only from the peer the
\* offer was passed to, and only once.  In one socket worker that connection
\* is the one that made the offer; ids of several socket workers may be equal,
\* and the code compares no more.
AnswerOnceToOfferer ==
    [][\A m \in out_messages' : m.type = "answer" =>
          \E p \in Stored(peers') :
              /\ peers'[p].conn = m.to
              /\ <<connection_id[m.to], p, m.from, m.offer>> \in awaited]_vars

\* Peers of a closed connection leave the torrent for good, even if the report
\* of the close overtakes an announce of the connection, or the connection
\* closed before its stopped announce was queued.
GhostPeersLeave ==
    \A c \in Connections :
        c \in closed ~> [](\A p \in Stored(peers) : peers[p].conn # c)

\* A stored peer leaves the torrent only through its own connection, through
\* expiry or through the access list.  A comment says so; the code does not
\* (README, known divergences).
PeerLeavesByOwner ==
    [][\A p \in Stored(peers) \ Stored(peers') :
          LET owner == peers[p].conn IN
          \/ owner \in closed
          \/ peers[p].valid_until = 0
          \/ ~allowed
          \/ \E w \in Consumers : /\ in_channel'[w] # in_channel[w]
                                  /\ in_channel[w] # <<>>
                                  /\ Head(in_channel[w]).conn = owner]_vars
============================================================================
