---------------------------- MODULE HttpTracker ----------------------------
(***************************************************************************)
(* The HTTP tracker (crates/http/src/workers): the connection tasks of a   *)
(* socket worker, the timer that closes idle connections, and the tasks in *)
(* which the swarm workers take this socket worker's requests.  What swarm *)
(* workers store is in HttpSwarm.                                          *)
(*                                                                         *)
(* A request is answered over a channel of its own: the swarm worker's     *)
(* task waits until the connection has connected its end, or dropped it.   *)
(* A scrape goes to several swarm workers, one after the other, and its    *)
(* connection connects to the answers after the last one was sent.         *)
(***************************************************************************)
EXTENDS RequestChecks

CONSTANTS
    Connections,                \* connections over the life of the tracker
    Workers,                    \* swarm workers, a set of integers
    InfoHashes, worker_of,      \* calculate_request_consumer_index
    Clients, Proxies,           \* addresses
    PrivateIps,                 \* those in private_ip_ranges
    origin, remote,             \* [Connections -> address]: client, socket peer
    Forged,                     \* X-Forwarded-For headers clients send
    Requests,                   \* [Connections -> requests its client sends]:
                                \* kind "announce", "scrape", or "malformed" if
                                \* it does not parse, info_hashes, uri,
                                \* user_agent and peer_id (see RequestChecks)
    Configs,
    ClientBanLists, ProxyLists, IpBanLists, AccessLists,
    NoRequest,
    max_connection_idle,
    SHARED_CHANNEL_SIZE,
    REQUEST_BUFFER_SIZE,        \* in requests; a request may fill the buffer
    MaxReloads                  \* bound on changes of the lists

Addresses == Clients \cup Proxies

ASSUME HttpAssumption ==
    /\ Workers \subseteq Int /\ IsFiniteSet(Workers)
    /\ IsFiniteSet(Connections) /\ NoRequest \notin Connections
    /\ worker_of \in [InfoHashes -> Workers]
    /\ origin \in [Connections -> Clients]
    /\ remote \in [Connections -> Addresses]
    /\ \A c \in Connections : remote[c] \in Clients => remote[c] = origin[c]
    /\ Clients \cap Proxies = {}
    /\ Forged \subseteq Seq(Addresses)
    /\ \A c \in Connections : \A r \in Requests[c] : r.kind # "malformed" =>
          r.info_hashes \subseteq InfoHashes /\ r.info_hashes # {}
    /\ \A g \in Configs : g.max_connections_per_worker \in Nat
    /\ \A l \in ProxyLists : l \subseteq Proxies
    /\ {SHARED_CHANNEL_SIZE, REQUEST_BUFFER_SIZE} \subseteq Nat \ {0}
    /\ {max_connection_idle, MaxReloads} \subseteq Nat

VARIABLES
    config,
    access_list, ip_ban_list, client_ban_list, trusted_proxies, reloads,
    auto_banned,                \* addresses the auto-ban tracker bans
    phase,                      \* where the connection's task is
    handles,                    \* connection_handles
    valid_until,                \* seconds a connection has left
    close_sent,                 \* close_conn_channel holds a message
    trust_forwarded_ip,
    buffer,                     \* complete requests in the request buffer
    part,                       \* buffer space an incomplete request takes
    current,                    \* request being handled
    to_send,                    \* swarm workers it is still to be sent to
    answered,                   \* swarm workers whose answer has been taken
    channel,                    \* request channel to each swarm worker
    answering,                  \* connection a swarm worker's task answers
    delivered                   \* answers in the connection's channels

lists == <<access_list, ip_ban_list, client_ban_list, trusted_proxies, reloads>>
task == <<phase, handles, valid_until, close_sent, trust_forwarded_ip>>
input == <<buffer, part>>
exchange == <<current, to_send, answered>>
swarm == <<channel, answering, delivered>>
vars == <<config, lists, auto_banned, task, input, exchange, swarm>>

Running(c) == phase[c] \notin {"new", "closed"}

----------------------------------------------------------------------------
(***************************************************************************)
(* Accepting and closing connections                                       *)
(***************************************************************************)
\* Mutant: one connection more than the limit.
LimitPassed == Cardinality(handles) > config.max_connections_per_worker

LimitReached == Cardinality(handles) >= config.max_connections_per_worker

\* run_connection decides once, with the list of that moment.
TrustsForwarded(c) ==
    config.runs_behind_reverse_proxy /\ remote[c] \in trusted_proxies

\* A connection above the limit is dropped at once.
Accept(c) ==
    /\ phase[c] = "new"
    /\ IF config.max_connections_per_worker > 0 /\ LimitReached
       THEN /\ phase' = [phase EXCEPT ![c] = "closed"]
            /\ UNCHANGED <<handles, valid_until, trust_forwarded_ip>>
       ELSE /\ phase' = [phase EXCEPT ![c] = IF config.enable_tls THEN "tls" ELSE "reading"]
            /\ handles' = handles \cup {c}
            /\ valid_until' = [valid_until EXCEPT ![c] = max_connection_idle]
            /\ trust_forwarded_ip' = [trust_forwarded_ip EXCEPT ![c] = TrustsForwarded(c)]
    /\ UNCHANGED <<config, lists, auto_banned, close_sent, input, exchange, swarm>>

TlsAccepted(c) ==
    /\ phase[c] = "tls"
    /\ phase' = [phase EXCEPT ![c] = "reading"]
    /\ UNCHANGED <<config, lists, auto_banned, handles, valid_until, close_sent,
                   trust_forwarded_ip, input, exchange, swarm>>

\* The end of handle_connection: everything the task holds is dropped, its
\* response channels included, and the handle is removed.
Ended(c) ==
    /\ phase' = [phase EXCEPT ![c] = "closed"]
    /\ handles' = handles \ {c}
    /\ valid_until' = [valid_until EXCEPT ![c] = 0]
    /\ close_sent' = [close_sent EXCEPT ![c] = FALSE]
    /\ trust_forwarded_ip' = [trust_forwarded_ip EXCEPT ![c] = FALSE]
    /\ buffer' = [buffer EXCEPT ![c] = <<>>]
    /\ part' = [part EXCEPT ![c] = 0]
    /\ current' = [current EXCEPT ![c] = NoRequest]
    /\ to_send' = [to_send EXCEPT ![c] = <<>>]
    /\ answered' = [answered EXCEPT ![c] = {}]
    /\ delivered' = [delivered EXCEPT ![c] = {}]

\* handle_connection: the race with the close channel is lost.
Inactive(c) ==
    /\ Running(c)
    /\ close_sent[c]
    /\ Ended(c)
    /\ UNCHANGED <<config, lists, auto_banned, channel, answering>>

\* An error of the stream: the peer closed it, TLS failed, or a write did.
StreamError(c) ==
    /\ phase[c] \in {"tls", "reading", "writing", "bad_request"}
    /\ phase[c] = "reading" => buffer[c] = <<>>
    /\ Ended(c)
    /\ UNCHANGED <<config, lists, auto_banned, channel, answering>>

Retained == {c \in handles : valid_until[c] > 0}

\* The handle goes first, the task ends when it next runs.
clean_connections ==
    /\ handles' = Retained
    /\ close_sent' = [c \in Connections |->
                        close_sent[c] \/ (c \in handles /\ valid_until[c] = 0)]
    /\ UNCHANGED <<config, lists, auto_banned, phase, valid_until, trust_forwarded_ip,
                   input, exchange, swarm>>

Tick ==
    /\ valid_until' = [c \in Connections |->
                         IF valid_until[c] > 0 THEN valid_until[c] - 1 ELSE 0]
    /\ UNCHANGED <<config, lists, auto_banned, phase, handles, close_sent,
                   trust_forwarded_ip, input, exchange, swarm>>

----------------------------------------------------------------------------
(***************************************************************************)
(* Reading requests                                                        *)
(***************************************************************************)
\* A proxy appends the address it serves to what the client sent.
Headers(c) ==
    IF remote[c] = origin[c] THEN Forged
    ELSE {Append(h, origin[c]) : h \in Forged} \cup {<<>>}

\* read_request reads only when the buffer holds no complete request.  What
\* arrives may complete one request and hold the next ones; bytes that begin
\* a further one count as arriving with the next read.
Read(c) ==
    /\ phase[c] = "reading"
    /\ buffer[c] = <<>>
    /\ part[c] < REQUEST_BUFFER_SIZE
    /\ \/ part' = [part EXCEPT ![c] = @ + 1] /\ UNCHANGED buffer
       \/ /\ part' = [part EXCEPT ![c] = 0]
          /\ \E n \in 1 .. REQUEST_BUFFER_SIZE : \E rs \in [1 .. n -> Requests[c]] :
                buffer' = [buffer EXCEPT ![c] = rs]
    /\ UNCHANGED <<config, lists, auto_banned, task, exchange, swarm>>

RequestBufferFull(c) ==
    /\ phase[c] = "reading"
    /\ buffer[c] = <<>>
    /\ part[c] = REQUEST_BUFFER_SIZE
    /\ Ended(c)
    /\ UNCHANGED <<config, lists, auto_banned, channel, answering>>

\* The address a request is handled under; None closes the connection.
PeerAddr(c, header) ==
    IF trust_forwarded_ip[c] THEN last_forwarded_for_ip(header, trusted_proxies)
    ELSE remote[c]

\* The checks in the order of run_security_checks: the failure reason, the
\* AutoBanReason that is recorded, and whether the request is refused.
security_checks(r, addr) ==
    LET filtered == check_request_with_config(config.request_filter, r.uri, r.user_agent)
        announce == r.kind = "announce"
        check(why, offence, hit) == [refusal |-> why, offence |-> offence, hit |-> hit]
    IN
    <<check("IP auto-banned", None, addr \in auto_banned),
      check("IP banned", None, addr \in ip_ban_list),
      check("Request filtered", filtered, filtered # None),
      check("Private IP not allowed", "PrivateIp",
            "PrivateIp" \in config.request_filter /\ addr \in PrivateIps),
      check("Client banned", "ClientBanned",
            announce /\ config.client_ban_mode /\ is_banned(client_ban_list, r.peer_id)),
      check("Unsupported client", "NonStandardPeerId",
            announce /\ check_peer_id_format(client_ban_list, r.peer_id,
                            config.peer_id_strictness) = "Rejected"),
      check("Client identity mismatch", "PeerIdUserAgentMismatch",
            /\ announce /\ r.user_agent # NoUserAgent
            /\ check_peer_id_user_agent(client_ban_list, r.peer_id, r.user_agent,
                   config.peer_id_user_agent_mismatch) = "Rejected")>>

\* The first check that refuses the request ends it.
run_security_checks(r, addr) ==
    LET checks == security_checks(r, addr)
        hits == {i \in DOMAIN checks : checks[i].hit}
    IN  IF hits = {} THEN [refusal |-> None, offence |-> None, hit |-> FALSE]
        ELSE checks[Min(hits)]

\* A request that does not parse cannot be framed: answer and close.
BadRequest(c) ==
    /\ phase[c] = "reading"
    /\ buffer[c] # <<>>
    /\ Head(buffer[c]).kind = "malformed"
    /\ phase' = [phase EXCEPT ![c] = "bad_request"]
    /\ UNCHANGED <<config, lists, auto_banned, handles, valid_until, close_sent,
                   trust_forwarded_ip, input, exchange, swarm>>

\* A trusted proxy that sets no header closes the connection.
PeerIpHeaderMissing(c) ==
    /\ phase[c] = "reading"
    /\ buffer[c] # <<>>
    /\ Head(buffer[c]).kind # "malformed"
    /\ \E h \in Headers(c) : PeerAddr(c, h) = None
    /\ Ended(c)
    /\ UNCHANGED <<config, lists, auto_banned, channel, answering>>

\* Mutants: a swarm worker is asked once per torrent; a refused request keeps
\* the connection alive.
ConsumersPerTorrent(r) ==
    LET hashes == SetToSeq(r.info_hashes) IN [i \in DOMAIN hashes |-> worker_of[hashes[i]]]
RefreshedAlways(c, refused) == max_connection_idle

\* The swarm workers of a request, each once.  The map of a scrape is a
\* BTreeMap, so they are asked in ascending order.
Consumers(r) ==
    CHOOSE s \in SetToSeqs({worker_of[h] : h \in r.info_hashes}) :
        \A i, j \in DOMAIN s : i < j => s[i] < s[j]

\* handle_request refreshes the deadline; a refused request does not get there.
Refreshed(c, refused) == IF refused THEN valid_until[c] ELSE max_connection_idle

\* From read_request to the first request sent, or to the failure response:
\* there is no await in between.  An offence may reach the threshold.
TakeRequest(c) ==
    LET r == Head(buffer[c]) IN
    /\ phase[c] = "reading"
    /\ buffer[c] # <<>>
    /\ r.kind # "malformed"
    /\ \E h \in Headers(c) :
         LET addr == PeerAddr(c, h)
             check == run_security_checks(r, addr)
             refused == check.refusal # None
             allowed == \/ r.kind = "scrape"
                        \/ \A i \in r.info_hashes : allows(config.access_list_mode, access_list, i)
             served == ~refused /\ allowed
         IN
         /\ addr # None
         /\ current' = [current EXCEPT ![c] = [request |-> r, addr |-> addr,
                             refusal |-> IF refused THEN check.refusal
                                         ELSE IF allowed THEN None ELSE "Info hash not allowed"]]
         /\ valid_until' = [valid_until EXCEPT ![c] = Refreshed(c, refused)]
         /\ phase' = [phase EXCEPT ![c] = IF served THEN "sending" ELSE "writing"]
         /\ to_send' = [to_send EXCEPT ![c] = IF served THEN Consumers(r) ELSE <<>>]
         /\ auto_banned' \in {auto_banned} \cup
                {auto_banned \cup {addr} : x \in {y \in {check.offence} : y # None}}
    /\ buffer' = [buffer EXCEPT ![c] = Tail(@)]
    /\ UNCHANGED <<config, lists, handles, close_sent, trust_forwarded_ip, part,
                   answered, swarm>>

----------------------------------------------------------------------------
(***************************************************************************)
(* Requests and answers                                                    *)
(***************************************************************************)
\* send_to waits for room; after the last one the receivers are connected.
Send(c) ==
    LET w == Head(to_send[c]) IN
    /\ phase[c] = "sending"
    /\ Len(channel[w]) < SHARED_CHANNEL_SIZE
    /\ channel' = [channel EXCEPT ![w] = Append(@, c)]
    /\ to_send' = [to_send EXCEPT ![c] = Tail(@)]
    /\ phase' = [phase EXCEPT ![c] = IF Len(to_send[c]) = 1 THEN "awaiting" ELSE @]
    /\ UNCHANGED <<config, lists, auto_banned, handles, valid_until, close_sent,
                   trust_forwarded_ip, input, current, answered, answering, delivered>>

\* handle_request_stream computes the response and connects its sender.
HandleRequest(w) ==
    /\ answering[w] = NoRequest
    /\ channel[w] # <<>>
    /\ answering' = [answering EXCEPT ![w] = Head(channel[w])]
    /\ channel' = [channel EXCEPT ![w] = Tail(@)]
    /\ UNCHANGED <<config, lists, auto_banned, task, input, exchange, delivered>>

\* The other end is connected, or gone: then the response is dropped.
Respond(w) ==
    LET c == answering[w] IN
    /\ c # NoRequest
    /\ phase[c] \in {"awaiting", "closed"}
    /\ answering' = [answering EXCEPT ![w] = NoRequest]
    /\ delivered' = IF phase[c] = "closed" THEN delivered
                    ELSE [delivered EXCEPT ![c] = @ \cup {w}]
    /\ UNCHANGED <<config, lists, auto_banned, task, input, exchange, channel>>

\* Mutant: the last swarm worker is not waited for.
CompleteEarly(c, got) == Cardinality(got) >= Len(Consumers(current[c].request)) - 1

\* pending_worker_responses has come down to zero.
Complete(c, got) == Cardinality(got) = Len(Consumers(current[c].request))

Receive(c, w) ==
    LET got == answered[c] \cup {w} IN
    /\ phase[c] = "awaiting"
    /\ w \in delivered[c]
    /\ delivered' = [delivered EXCEPT ![c] = @ \ {w}]
    /\ answered' = [answered EXCEPT ![c] = got]
    /\ phase' = [phase EXCEPT ![c] = IF Complete(c, got) THEN "writing" ELSE @]
    /\ UNCHANGED <<config, lists, auto_banned, handles, valid_until, close_sent,
                   trust_forwarded_ip, input, current, to_send, channel, answering>>

\* write_response, and the end of the loop's body.
Written(c) ==
    /\ phase[c] = "writing"
    /\ IF config.keep_alive
       THEN /\ phase' = [phase EXCEPT ![c] = "reading"]
            /\ current' = [current EXCEPT ![c] = NoRequest]
            /\ answered' = [answered EXCEPT ![c] = {}]
            /\ UNCHANGED <<handles, valid_until, close_sent, trust_forwarded_ip, input,
                           to_send, delivered>>
       ELSE Ended(c)
    /\ UNCHANGED <<config, lists, auto_banned, channel, answering>>

BadRequestWritten(c) ==
    /\ phase[c] = "bad_request"
    /\ Ended(c)
    /\ UNCHANGED <<config, lists, auto_banned, channel, answering>>

----------------------------------------------------------------------------
(***************************************************************************)
(* The signal thread.  A list that cannot be loaded keeps its old value.   *)
(***************************************************************************)
update_access_list == access_list' \in AccessLists \cup {access_list}
update_ip_ban_list == ip_ban_list' \in IpBanLists \cup {ip_ban_list}
update_client_ban_list == client_ban_list' \in ClientBanLists \cup {client_ban_list}
update_trusted_proxies == trusted_proxies' \in ProxyLists \cup {trusted_proxies}

Sigusr1 ==
    /\ reloads < MaxReloads
    /\ reloads' = reloads + 1
    /\ update_access_list
    /\ UNCHANGED <<config, ip_ban_list, client_ban_list, trusted_proxies, auto_banned,
                   task, input, exchange, swarm>>

Sigusr2 ==
    /\ reloads < MaxReloads
    /\ reloads' = reloads + 1
    /\ update_ip_ban_list /\ update_client_ban_list /\ update_trusted_proxies
    /\ UNCHANGED <<config, access_list, auto_banned, task, input, exchange, swarm>>

----------------------------------------------------------------------------
Init ==
    /\ config \in Configs
    /\ access_list \in AccessLists /\ ip_ban_list \in IpBanLists
    /\ client_ban_list \in ClientBanLists /\ trusted_proxies \in ProxyLists
    /\ reloads = 0
    /\ auto_banned = {}
    /\ phase = [c \in Connections |-> "new"]
    /\ handles = {}
    /\ valid_until = [c \in Connections |-> 0]
    /\ close_sent = [c \in Connections |-> FALSE]
    /\ trust_forwarded_ip = [c \in Connections |-> FALSE]
    /\ buffer = [c \in Connections |-> <<>>]
    /\ part = [c \in Connections |-> 0]
    /\ current = [c \in Connections |-> NoRequest]
    /\ to_send = [c \in Connections |-> <<>>]
    /\ answered = [c \in Connections |-> {}]
    /\ channel = [w \in Workers |-> <<>>]
    /\ answering = [w \in Workers |-> NoRequest]
    /\ delivered = [c \in Connections |-> {}]

ConnectionStep(c) ==
    \/ Accept(c) \/ TlsAccepted(c) \/ Inactive(c) \/ StreamError(c)
    \/ Read(c) \/ RequestBufferFull(c)
    \/ BadRequest(c) \/ PeerIpHeaderMissing(c) \/ TakeRequest(c)
    \/ Send(c) \/ (\E w \in Workers : Receive(c, w))
    \/ Written(c) \/ BadRequestWritten(c)

Next ==
    \/ \E c \in Connections : ConnectionStep(c)
    \/ \E w \in Workers : HandleRequest(w) \/ Respond(w)
    \/ clean_connections \/ Tick
    \/ Sigusr1 \/ Sigusr2

Spec == Init /\ [][Next]_vars

\* A task that was told to end is run, timers fire and time passes.  Nothing
\* is assumed of clients: they need not send, read or close.
Fairness ==
    /\ \A c \in Connections : WF_vars(Inactive(c))
    /\ WF_vars(clean_connections) /\ WF_vars(Tick)

FairSpec == Spec /\ Fairness

----------------------------------------------------------------------------
(***************************************************************************)
(* Properties                                                              *)
(***************************************************************************)
TypeOK ==
    /\ phase \in [Connections -> {"new", "tls", "reading", "sending", "awaiting",
                                  "writing", "bad_request", "closed"}]
    /\ handles \subseteq Connections
    /\ valid_until \in [Connections -> 0 .. max_connection_idle]
    /\ close_sent \in [Connections -> BOOLEAN]
    /\ trust_forwarded_ip \in [Connections -> BOOLEAN]
    /\ part \in [Connections -> 0 .. REQUEST_BUFFER_SIZE]
    /\ answered \in [Connections -> SUBSET Workers]
    /\ delivered \in [Connections -> SUBSET Workers]
    /\ channel \in [Workers -> Seq(Connections)]
    /\ answering \in [Workers -> Connections \cup {NoRequest}]
    /\ auto_banned \subseteq Addresses
    /\ \A c \in Connections : current[c] = NoRequest \/ current[c].addr \in Addresses

\* run_connection, parse_forwarded_header: the address a request is checked,
\* banned and stored under is the client's or a proxy's, never one that the
\* client wrote into X-Forwarded-For, although the list of proxies changes
\* while connections are open.
NeverForgedAddress ==
    /\ \A c \in Connections :
          current[c] # NoRequest => current[c].addr \in {origin[c]} \cup Proxies
    /\ auto_banned \subseteq {origin[c] : c \in Connections} \cup Proxies

\* handle_request: connections that wait for room in a request channel and
\* swarm workers that wait for a connection never wait for one another.
Movable(c) ==
    \/ phase[c] = "sending" /\ Len(channel[Head(to_send[c])]) < SHARED_CHANNEL_SIZE
    \/ phase[c] = "awaiting" /\ delivered[c] # {}

NoStall ==
    (\E c \in Connections : phase[c] \in {"sending", "awaiting"}) =>
        \/ \E c \in Connections : Movable(c)
        \/ \E w \in Workers : /\ answering[w] = NoRequest
                               /\ channel[w] # <<>>
        \/ \E w \in Workers : /\ answering[w] # NoRequest
                               /\ phase[answering[w]] \in {"awaiting", "closed"}

\* wait_for_scrape_responses: a served request is answered with the results
\* of every swarm worker that holds a torrent of it, and of no other.
AnswerComplete ==
    \A c \in Connections :
        phase[c] = "writing" /\ current[c].refusal = None =>
            answered[c] = {worker_of[h] : h \in current[c].request.info_hashes}

\* handle_connection, clean_connections: a task without a handle has been told
\* to end, a handle belongs to a running task, and no more than the limit exist.
HandlesMatchTasks ==
    /\ \A c \in Connections : Running(c) => (c \in handles) # close_sent[c]
    /\ \A c \in handles : Running(c)
    /\ config.max_connections_per_worker > 0 =>
          Cardinality(handles) <= config.max_connections_per_worker

Served(c) ==
    current[c] # NoRequest /\ current[c].refusal \in {None, "Info hash not allowed"}

\* run, clean_connections: a connection none of whose requests passes the
\* security checks is closed, however often it sends one.
RefusedConnectionEnds ==
    \A c \in Connections : Running(c) ~> (phase[c] = "closed" \/ Served(c))

============================================================================
