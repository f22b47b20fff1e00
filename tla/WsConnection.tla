--------------------------- MODULE WsConnection ----------------------------
(***************************************************************************)
(* A socket worker of the WebTorrent tracker (crates/ws/src/workers): its  *)
(* connection tasks, each a reader and a writer that race one another and  *)
(* the cleaning timer, and the way of messages to the swarm workers and    *)
(* back.  What swarm workers store is in WsSwarm; here they only answer.   *)
(*                                                                         *)
(* A scrape is split among swarm workers.  Its parts come back in any      *)
(* order and are collected in a slab under an id of one byte.  Messages    *)
(* for a connection go through a local channel and are dropped when that   *)
(* is full.                                                                *)
(***************************************************************************)
EXTENDS RequestChecks

CONSTANTS
    Connections, Workers, InfoHashes, worker_of,
    Proxies, PrivateIps, remote,    \* addresses; remote: [Connections -> address]
    Handshakes,                     \* [Connections -> handshakes its peer sends]:
                                    \* user_agent and forwarded, X-Forwarded-For
    Messages,                       \* [Connections -> messages its peer sends]:
                                    \* kind "announce", "scrape", "full_scrape" or
                                    \* "malformed", info_hashes, peer_id, stopped
    Configs,                        \* with max_connection_idle in seconds, or Absent
                                    \* for one that is longer than any behaviour
    AccessLists, IpBanLists, ClientBanLists, ProxyLists,
    Absent,                         \* no value
    close_after_tls_update_grace_period,
    LOCAL_CHANNEL_SIZE, SHARED_IN_CHANNEL_SIZE,
    PendingScrapeIds,               \* one byte
    MaxMessages, MaxOffers,         \* bounds on messages a connection sends, and on
                                    \* those that others have passed on to it
    MaxCertificates                      \* bound on changes of the certificate

\* A scrape in the slab: parts it waits for, its number and what has come back.
\* Below zero the code's usize would wrap around; PartsMeetTheirScrape excludes it.
PendingScrapeResponse == [pending: Int, number: Nat, files: SUBSET InfoHashes]

ASSUME WsConnectionAssumption ==
    /\ Workers \subseteq Nat /\ IsFiniteSet(Workers)
    /\ worker_of \in [InfoHashes -> Workers]
    /\ \A c \in Connections : \A m \in Messages[c] :
          m.info_hashes \subseteq InfoHashes
    /\ \A x \in Configs : x.max_connections_per_worker \in Nat
    /\ {LOCAL_CHANNEL_SIZE, SHARED_IN_CHANNEL_SIZE} \subseteq Nat \ {0}
    /\ close_after_tls_update_grace_period \in Nat
    /\ {MaxMessages, MaxOffers, MaxCertificates} \subseteq Nat
    /\ IsFiniteSet(Connections) /\ IsFiniteSet(PendingScrapeIds)
    /\ Absent \notin Nat \cup PendingScrapeResponse

VARIABLES
    config, access_list, ip_ban_list, client_ban_list, trusted_proxies,
    auto_banned,                \* addresses the auto-ban tracker bans
    tls_config,                 \* number of the certificate in use
    phase,                      \* where the connection's task is
    handles,                    \* connection_handles
    valid_until,                \* seconds left, shared by handle and writer
    handle_tls, grace,          \* opt_tls_config, valid_until_after_tls_update
    close_sent,                 \* close_conn channel holds a message
    used_tls,                   \* certificate of the TLS session
    peer_ip, user_agent,        \* of the handshake
    announced,                  \* announced_info_hashes: [InfoHashes -> peer id or Absent]
    to_notify,                  \* swarm workers after_close has still to tell
    sent, offers,               \* messages the peer has sent, others pass on to it
    to_send,                    \* what the reader is sending to swarm workers
    reply,                      \* the reader is sending an error response; if it
                                \* is "fatal" the connection ends after it
    slab,                       \* pending_scrape_slab
    in_channel,                 \* to each swarm worker
    out,                        \* messages of swarm workers on their way
    inbox,                      \* local channel of each connection
    writing                     \* message the writer is sending

lists == <<access_list, ip_ban_list, client_ban_list, trusted_proxies>>
handle == <<handles, valid_until, handle_tls, grace, close_sent>>
session == <<used_tls, peer_ip, user_agent, announced, to_notify>>
reader == <<sent, offers, to_send, reply>>
vars == <<config, lists, auto_banned, tls_config, phase, handle, session,
          reader, slab, in_channel, out, inbox, writing>>

Running(c) == phase[c] \notin {"new", "closing", "closed"}
Open(c) == phase[c] = "open"

\* The reader takes the next message only when it is done with the last one.
Ready(c) == Open(c) /\ to_send[c] = <<>> /\ reply[c] = Absent

----------------------------------------------------------------------------
(***************************************************************************)
(* Opening                                                                 *)
(***************************************************************************)
LimitReached ==
    /\ config.max_connections_per_worker > 0
    /\ Cardinality(handles) >= config.max_connections_per_worker

\* A connection above the limit, or without an address, is dropped at once.
Refuse(c) ==
    /\ phase[c] = "new"
    /\ phase' = [phase EXCEPT ![c] = "closed"]
    /\ UNCHANGED <<config, lists, auto_banned, tls_config, handle, session,
                   reader, slab, in_channel, out, inbox, writing>>

Accept(c) ==
    /\ phase[c] = "new"
    /\ ~LimitReached
    /\ phase' = [phase EXCEPT ![c] = "spawned"]
    /\ handles' = handles \cup {c}
    /\ valid_until' = [valid_until EXCEPT ![c] = config.max_connection_idle]
    /\ handle_tls' = [handle_tls EXCEPT ![c] = tls_config]
    /\ UNCHANGED <<config, lists, auto_banned, tls_config, grace, close_sent,
                   session, reader, slab, in_channel, out, inbox, writing>>

\* run_inner loads the certificate again when the task first runs.
RunInner(c) ==
    /\ phase[c] = "spawned"
    /\ phase' = [phase EXCEPT ![c] = IF config.enable_tls THEN "tls"
                     ELSE IF config.enable_http_health_checks THEN "peeking" ELSE "handshake"]
    /\ used_tls' = [used_tls EXCEPT ![c] = IF config.enable_tls THEN tls_config ELSE Absent]
    /\ UNCHANGED <<config, lists, auto_banned, tls_config, handle, peer_ip,
                   user_agent, announced, to_notify, reader, slab, in_channel, out, inbox,
                   writing>>

\* TLS is negotiated, or the first bytes are no health check.
Negotiated(c) ==
    /\ phase[c] \in {"tls", "peeking"}
    /\ phase' = [phase EXCEPT ![c] = "handshake"]
    /\ UNCHANGED <<config, lists, auto_banned, tls_config, handle, session,
                   reader, slab, in_channel, out, inbox, writing>>

resolve_handshake_peer_ip(c, header) ==
    LET client == last_forwarded_for_ip(header, trusted_proxies) IN
    IF config.trusted_proxies_enabled /\ remote[c] \in trusted_proxies /\ client # None
    THEN client ELSE remote[c]

\* What the end of the task drops; after_close has to tell the workers of the
\* torrents it has announced.
Close(c) ==
    /\ phase' = [phase EXCEPT ![c] = "closing"]
    /\ to_notify' = [to_notify EXCEPT ![c] =
                       {worker_of[h] : h \in {i \in InfoHashes : announced[c][i] # Absent}}]
    /\ announced' = [announced EXCEPT ![c] = [h \in InfoHashes |-> Absent]]
    /\ to_send' = [to_send EXCEPT ![c] = <<>>]
    /\ reply' = [reply EXCEPT ![c] = Absent]
    /\ slab' = [slab EXCEPT ![c] = [i \in PendingScrapeIds |-> Absent]]
    /\ inbox' = [inbox EXCEPT ![c] = <<>>]
    /\ writing' = [writing EXCEPT ![c] = Absent]

\* The filters of a handshake, which has no target that could be suspicious.
handshake_offence(shake) ==
    check_request_with_config(config.request_filter \cap {"MissingUserAgent", "Crawler"},
                              {}, shake.user_agent)

\* record_violation: an offence may reach the threshold.
Recorded(ip, offence) ==
    IF offence = None THEN {auto_banned} ELSE {auto_banned, auto_banned \cup {ip}}

\* The callback rejects a banned address; a crawler is dropped afterwards.
Handshake(c) ==
    /\ phase[c] = "handshake"
    /\ \E shake \in Handshakes[c] :
         LET ip == resolve_handshake_peer_ip(c, shake.forwarded)
             barred == ip \in ip_ban_list \cup auto_banned
             offence == IF barred THEN None ELSE handshake_offence(shake)
         IN  IF barred \/ offence # None
             THEN /\ auto_banned' \in Recorded(ip, offence)
                  /\ Close(c)
                  /\ UNCHANGED <<peer_ip, user_agent>>
             ELSE /\ phase' = [phase EXCEPT ![c] = "open"]
                  /\ peer_ip' = [peer_ip EXCEPT ![c] = ip]
                  /\ user_agent' = [user_agent EXCEPT ![c] = shake.user_agent]
                  /\ UNCHANGED <<auto_banned, announced, to_notify, to_send, reply, slab,
                                 inbox, writing>>
    /\ UNCHANGED <<config, lists, tls_config, handle, used_tls, sent, offers, in_channel,
                   out>>

----------------------------------------------------------------------------
(***************************************************************************)
(* Closing                                                                 *)
(***************************************************************************)
\* The peer closes or fails, or asked only for its health.
StreamEnded(c) ==
    /\ phase[c] \in {"tls", "peeking", "handshake"} \/ Ready(c)
    /\ Close(c)
    /\ UNCHANGED <<config, lists, auto_banned, tls_config, handle, used_tls,
                   peer_ip, user_agent, sent, offers, in_channel, out>>

\* Mutant: the close channel is raced only after the handshake.
InactiveOnceOpen(c) ==
    /\ Open(c) /\ close_sent[c]
    /\ Close(c)
    /\ UNCHANGED <<config, lists, auto_banned, tls_config, handle, used_tls,
                   peer_ip, user_agent, sent, offers, in_channel, out>>

\* The race with the close channel is lost, whatever the task waits for.
Inactive(c) ==
    /\ Running(c) /\ close_sent[c]
    /\ Close(c)
    /\ UNCHANGED <<config, lists, auto_banned, tls_config, handle, used_tls,
                   peer_ip, user_agent, sent, offers, in_channel, out>>

\* after_close tells one swarm worker after the other; WsSwarm has their part.
NotifyClosed(c) ==
    /\ phase[c] = "closing"
    /\ \E w \in to_notify[c] : to_notify' = [to_notify EXCEPT ![c] = @ \ {w}]
    /\ UNCHANGED <<config, lists, auto_banned, tls_config, phase, handle, used_tls,
                   peer_ip, user_agent, announced, reader, slab, in_channel, out, inbox,
                   writing>>

\* The handle, if the timer has left it, goes last.
Closed(c) ==
    /\ phase[c] = "closing" /\ to_notify[c] = {}
    /\ phase' = [phase EXCEPT ![c] = "closed"]
    /\ handles' = handles \ {c}
    /\ valid_until' = [valid_until EXCEPT ![c] = 0]
    /\ grace' = [grace EXCEPT ![c] = Absent]
    /\ handle_tls' = [handle_tls EXCEPT ![c] = Absent]
    /\ close_sent' = [close_sent EXCEPT ![c] = FALSE]
    /\ used_tls' = [used_tls EXCEPT ![c] = Absent]
    /\ peer_ip' = [peer_ip EXCEPT ![c] = Absent]
    /\ user_agent' = [user_agent EXCEPT ![c] = Absent]
    /\ UNCHANGED <<config, lists, auto_banned, tls_config, announced, to_notify,
                   reader, slab, in_channel, out, inbox, writing>>

\* Mutant: the grace period of a connection starts anew with every cleaning.
GraceRestarted(c) ==
    IF config.enable_tls /\ handle_tls[c] # tls_config
    THEN close_after_tls_update_grace_period ELSE grace[c]

\* A connection on an old certificate gets its grace period once.
GraceAfter(c) ==
    IF grace[c] = Absent /\ config.enable_tls /\ handle_tls[c] # tls_config
    THEN close_after_tls_update_grace_period ELSE grace[c]

Retained == {c \in handles : grace[c] # 0 /\ valid_until[c] # 0}

\* A handle is dropped before its task has ended; the signal is sent, and its
\* sender dropped, so the task hears of it either way.
clean_connections ==
    /\ handles' = Retained
    /\ grace' = [c \in Connections |-> IF c \in handles THEN GraceAfter(c) ELSE grace[c]]
    /\ close_sent' = [c \in Connections |-> close_sent[c] \/ c \in handles \ Retained]
    /\ UNCHANGED <<config, lists, auto_banned, tls_config, phase, valid_until,
                   handle_tls, session, reader, slab, in_channel, out, inbox, writing>>

Left(seconds) == IF seconds \in {Absent, 0} THEN seconds ELSE seconds - 1

Tick ==
    /\ valid_until' = [c \in Connections |-> Left(valid_until[c])]
    /\ grace' = [c \in Connections |-> Left(grace[c])]
    /\ UNCHANGED <<config, lists, auto_banned, tls_config, phase, handles,
                   handle_tls, close_sent, session, reader, slab, in_channel, out, inbox,
                   writing>>

----------------------------------------------------------------------------
(***************************************************************************)
(* The reader                                                              *)
(***************************************************************************)
\* The checks in the order of run_security_checks, with the AutoBanReason
\* that is recorded and whether they refuse the message.
security_checks(c, m) ==
    LET announce == m.kind = "announce"
        check(offence, hit) == [offence |-> offence, hit |-> hit]
    IN
    <<check(None, peer_ip[c] \in ip_ban_list),
      check(None, peer_ip[c] \in auto_banned),
      check("PrivateIp", "PrivateIp" \in config.request_filter /\ peer_ip[c] \in PrivateIps),
      check("ClientBanned",
            announce /\ config.client_ban_mode /\ is_banned(client_ban_list, m.peer_id)),
      check("NonStandardPeerId",
            announce /\ check_peer_id_format(client_ban_list, m.peer_id,
                            config.peer_id_strictness) = "Rejected"),
      check("PeerIdUserAgentMismatch",
            /\ announce /\ user_agent[c] # NoUserAgent
            /\ check_peer_id_user_agent(client_ban_list, m.peer_id, user_agent[c],
                   config.peer_id_user_agent_mismatch) = "Rejected")>>

run_security_checks(c, m) ==
    LET checks == security_checks(c, m)
        hits == {i \in DOMAIN checks : checks[i].hit}
    IN  IF hits = {} THEN [offence |-> None, hit |-> FALSE] ELSE checks[Min(hits)]

\* The loop has taken message m; an error response leaves it open or not.
Taken(c, m) ==
    /\ Ready(c) /\ sent[c] < MaxMessages
    /\ m \in Messages[c]
    /\ sent' = [sent EXCEPT ![c] = @ + 1]
    /\ UNCHANGED offers

Replied(c, how) ==
    /\ reply' = [reply EXCEPT ![c] = how]
    /\ UNCHANGED <<phase, announced, to_notify, to_send, slab, inbox, writing>>

\* A message that does not parse, one the checks refuse, one about a torrent
\* that is not allowed, a second peer id for a torrent, and a full scrape.
ReadRefused(c, m) ==
    LET checked == run_security_checks(c, m)
        parsed == m.kind # "malformed"
        denied == parsed /\ checked.hit
    IN
    /\ Taken(c, m)
    /\ \/ ~parsed /\ Replied(c, "error")
       \/ denied /\ Replied(c, "error")
       \/ ~denied /\ m.kind = "full_scrape" /\ Replied(c, "error")
       \/ /\ ~denied /\ m.kind = "announce"
          /\ \E h \in m.info_hashes :
               \/ ~allows(config.access_list_mode, access_list, h) /\ Replied(c, "error")
               \/ /\ allows(config.access_list_mode, access_list, h)
                  /\ announced[c][h] \notin {Absent, m.peer_id}
                  /\ Replied(c, "fatal")
    /\ auto_banned' \in Recorded(peer_ip[c], IF denied THEN checked.offence ELSE None)
    /\ UNCHANGED <<config, lists, tls_config, handle, used_tls, peer_ip, user_agent,
                   in_channel, out>>

handle_announce_request(c, m) ==
    /\ m.kind = "announce"
    /\ Taken(c, m)
    /\ ~run_security_checks(c, m).hit
    /\ \E h \in m.info_hashes :
         /\ allows(config.access_list_mode, access_list, h)
         /\ announced[c][h] \in {Absent, m.peer_id}
         /\ announced' = [announced EXCEPT ![c][h] = IF m.stopped THEN Absent ELSE m.peer_id]
         /\ to_send' = [to_send EXCEPT ![c] = <<[worker |-> worker_of[h], kind |-> "announce",
                           id |-> Absent, number |-> sent'[c], info_hashes |-> {h}]>>]
    /\ UNCHANGED <<config, lists, auto_banned, tls_config, phase, handle, used_tls,
                   peer_ip, user_agent, to_notify, reply, slab, in_channel, out, inbox, writing>>

\* The swarm workers of a scrape, each once and in order, as the B-tree
\* info_hashes_by_worker lists them: one sequence for any set of torrents.
Parts(hashes) ==
    LET workers == {worker_of[h] : h \in hashes} IN
    {s \in [1 .. Cardinality(workers) -> workers] :
        \A i, j \in DOMAIN s : i < j => s[i] < s[j]}

Free(c) == {i \in PendingScrapeIds : slab[c][i] = Absent}

\* The slab gives any free id; the 257th pending scrape ends the connection.
handle_scrape_request(c, m) ==
    /\ m.kind = "scrape"
    /\ Taken(c, m)
    /\ ~run_security_checks(c, m).hit
    /\ \/ /\ Free(c) = {}
          /\ Close(c)
       \/ /\ \E i \in Free(c), parts \in Parts(m.info_hashes) :
               /\ slab' = [slab EXCEPT ![c][i] =
                    [pending |-> Len(parts), number |-> sent'[c], files |-> {}]]
               /\ to_send' = [to_send EXCEPT ![c] =
                    [n \in DOMAIN parts |->
                       [worker |-> parts[n], kind |-> "scrape", id |-> i,
                        number |-> sent'[c],
                        info_hashes |-> {h \in m.info_hashes : worker_of[h] = parts[n]}]]]
          /\ UNCHANGED <<phase, announced, to_notify, reply, inbox, writing>>
    /\ UNCHANGED <<config, lists, auto_banned, tls_config, handle, used_tls, peer_ip,
                   user_agent, in_channel, out>>

\* send_to waits for room.
Send(c) ==
    LET part == Head(to_send[c]) IN
    /\ Open(c) /\ to_send[c] # <<>>
    /\ Len(in_channel[part.worker]) < SHARED_IN_CHANNEL_SIZE
    /\ in_channel' = [in_channel EXCEPT ![part.worker] = Append(@, [conn |-> c, part |-> part])]
    /\ to_send' = [to_send EXCEPT ![c] = Tail(@)]
    /\ UNCHANGED <<config, lists, auto_banned, tls_config, phase, handle, session,
                   sent, offers, reply, slab, out, inbox, writing>>

OutMessage(c, kind, part) ==
    [to |-> c, kind |-> kind, worker |-> part.worker, id |-> part.id,
     number |-> part.number, files |-> part.info_hashes]

\* The reader's error response waits for room in the connection's own channel.
send_error_response(c) ==
    /\ Open(c) /\ reply[c] # Absent
    /\ Len(inbox[c]) < LOCAL_CHANNEL_SIZE
    /\ IF reply[c] = "fatal" THEN Close(c)
       ELSE /\ inbox' = [inbox EXCEPT ![c] = Append(@, OutMessage(c, "error",
                             [worker |-> Absent, id |-> Absent, number |-> sent[c],
                              info_hashes |-> {}]))]
            /\ reply' = [reply EXCEPT ![c] = Absent]
            /\ UNCHANGED <<phase, announced, to_notify, to_send, slab, writing>>
    /\ UNCHANGED <<config, lists, auto_banned, tls_config, handle, used_tls, peer_ip,
                   user_agent, sent, offers, in_channel, out>>

----------------------------------------------------------------------------
(***************************************************************************)
(* Swarm workers, and the way back                                         *)
(***************************************************************************)
\* A swarm worker answers a scrape; it may ignore an announce.  Its tasks wait
\* for room in the channel to the socket worker and may overtake one another.
HandleMessage(w) ==
    LET m == Head(in_channel[w])
        response == OutMessage(m.conn, m.part.kind, m.part)
    IN
    /\ in_channel[w] # <<>>
    /\ \/ out' = out \cup {response}
       \/ m.part.kind = "announce" /\ UNCHANGED out
    /\ in_channel' = [in_channel EXCEPT ![w] = Tail(@)]
    /\ UNCHANGED <<config, lists, auto_banned, tls_config, phase, handle, session,
                   reader, slab, inbox, writing>>

\* An offer or answer of another connection is passed on to this one.
PassOn(c) ==
    /\ offers[c] < MaxOffers
    /\ \E h \in InfoHashes : announced[c][h] # Absent
    /\ offers' = [offers EXCEPT ![c] = @ + 1]
    /\ out' = out \cup {OutMessage(c, "offer", [worker |-> Absent, id |-> Absent,
                           number |-> offers'[c], info_hashes |-> {}])}
    /\ UNCHANGED <<config, lists, auto_banned, tls_config, phase, handle, session, sent,
                   to_send, reply, slab, in_channel, inbox, writing>>

\* receive_out_messages never waits: without a handle, with the receiver gone
\* or the channel full, the message is dropped.
receive_out_message(m) ==
    LET c == m.to IN
    /\ m \in out
    /\ out' = out \ {m}
    /\ inbox' = IF c \in handles /\ Open(c) /\ Len(inbox[c]) < LOCAL_CHANNEL_SIZE
                THEN [inbox EXCEPT ![c] = Append(@, m)] ELSE inbox
    /\ UNCHANGED <<config, lists, auto_banned, tls_config, phase, handle, session,
                   reader, slab, in_channel, writing>>

\* Mutants: the answer is sent when one part is missing, or the number is
\* compared before the part is counted.
CompleteEarly(entry) == entry.pending <= 1
CompleteBefore(entry) == entry.pending + 1 = 0

\* pending_worker_out_messages has come down to zero.
Complete(entry) == entry.pending = 0

\* The writer takes a message; a part of a scrape is collected.
TakeOutMessage(c) ==
    LET m == Head(inbox[c])
        entry == slab[c][m.id]
        now == [entry EXCEPT !.pending = @ - 1, !.files = @ \cup m.files]
    IN
    /\ Open(c) /\ writing[c] = Absent /\ inbox[c] # <<>>
    /\ IF m.kind # "scrape"
       THEN /\ writing' = [writing EXCEPT ![c] = [kind |-> m.kind, number |-> m.number,
                                                  files |-> {}]]
            /\ inbox' = [inbox EXCEPT ![c] = Tail(@)]
            /\ UNCHANGED <<phase, announced, to_notify, to_send, reply, slab>>
       ELSE IF entry = Absent THEN Close(c)
       ELSE /\ slab' = [slab EXCEPT ![c][m.id] = IF Complete(now) THEN Absent ELSE now]
            /\ writing' = [writing EXCEPT ![c] = IF Complete(now)
                 THEN [kind |-> "scrape", number |-> now.number, files |-> now.files] ELSE @]
            /\ inbox' = [inbox EXCEPT ![c] = Tail(@)]
            /\ UNCHANGED <<phase, announced, to_notify, to_send, reply>>
    /\ UNCHANGED <<config, lists, auto_banned, tls_config, handle, used_tls, peer_ip,
                   user_agent, sent, offers, in_channel, out>>

\* send_out_message: only responses keep the connection alive.
Written(c) ==
    /\ Open(c) /\ writing[c] # Absent
    /\ valid_until' = [valid_until EXCEPT ![c] =
                         IF writing[c].kind \in {"announce", "scrape"}
                         THEN config.max_connection_idle ELSE @]
    /\ writing' = [writing EXCEPT ![c] = Absent]
    /\ UNCHANGED <<config, lists, auto_banned, tls_config, phase, handles,
                   handle_tls, grace, close_sent, session, reader, slab, in_channel, out,
                   inbox>>

\* Sending failed, or took more than ten seconds.
WriteFailed(c) ==
    /\ Open(c) /\ writing[c] # Absent
    /\ Close(c)
    /\ UNCHANGED <<config, lists, auto_banned, tls_config, handle, used_tls,
                   peer_ip, user_agent, sent, offers, in_channel, out>>

----------------------------------------------------------------------------
(***************************************************************************)
(* Signals                                                                 *)
(***************************************************************************)
\* SIGUSR1: the access list and the certificate.
Sigusr1 ==
    /\ access_list' \in AccessLists
    /\ tls_config' \in {tls_config} \cup {x \in {tls_config + 1} :
                                            config.enable_tls /\ x <= MaxCertificates}
    /\ UNCHANGED <<config, ip_ban_list, client_ban_list, trusted_proxies, auto_banned, phase,
                   handle, session, reader, slab, in_channel, out, inbox, writing>>

\* SIGUSR2: the lists of addresses, clients and proxies.
Sigusr2 ==
    /\ ip_ban_list' \in IpBanLists
    /\ client_ban_list' \in ClientBanLists
    /\ trusted_proxies' \in ProxyLists
    /\ UNCHANGED <<config, access_list, tls_config, auto_banned, phase, handle, session,
                   reader, slab, in_channel, out, inbox, writing>>

----------------------------------------------------------------------------
Init ==
    /\ config \in Configs
    /\ access_list \in AccessLists /\ ip_ban_list \in IpBanLists
    /\ client_ban_list \in ClientBanLists /\ trusted_proxies \in ProxyLists
    /\ auto_banned = {}
    /\ tls_config = 0
    /\ phase = [c \in Connections |-> "new"]
    /\ handles = {}
    /\ valid_until = [c \in Connections |-> 0]
    /\ close_sent = [c \in Connections |-> FALSE]
    /\ handle_tls = [c \in Connections |-> Absent] /\ grace = handle_tls
    /\ used_tls = handle_tls /\ peer_ip = handle_tls /\ user_agent = handle_tls
    /\ reply = handle_tls /\ writing = handle_tls
    /\ announced = [c \in Connections |-> [h \in InfoHashes |-> Absent]]
    /\ to_notify = [c \in Connections |-> {}]
    /\ sent = [c \in Connections |-> 0] /\ offers = sent
    /\ to_send = [c \in Connections |-> <<>>] /\ inbox = to_send
    /\ slab = [c \in Connections |-> [i \in PendingScrapeIds |-> Absent]]
    /\ in_channel = [w \in Workers |-> <<>>]
    /\ out = {}

\* Steps the connection's task takes by itself, that is, without its peer; a
\* write ends within ten seconds.
TaskStep(c) ==
    \/ RunInner(c) \/ Inactive(c) \/ NotifyClosed(c) \/ Closed(c)
    \/ Send(c) \/ send_error_response(c)
    \/ TakeOutMessage(c) \/ Written(c) \/ WriteFailed(c)

PeerStep(c) ==
    \/ Refuse(c) \/ Accept(c) \/ Negotiated(c) \/ Handshake(c) \/ StreamEnded(c)
    \/ \E m \in Messages[c] : \/ ReadRefused(c, m)
                              \/ handle_announce_request(c, m)
                              \/ handle_scrape_request(c, m)

WorkerStep ==
    \/ \E w \in Workers : HandleMessage(w)
    \/ \E m \in out : receive_out_message(m)

Next ==
    \/ \E c \in Connections : TaskStep(c) \/ PeerStep(c)
    \/ WorkerStep \/ \E c \in Connections : PassOn(c)
    \/ clean_connections \/ Tick \/ Sigusr1 \/ Sigusr2

Spec == Init /\ [][Next]_vars

\* Tasks that can run are run, and the timers fire.
Fairness ==
    /\ \A c \in Connections : WF_vars(TaskStep(c))
    /\ WF_vars(WorkerStep) /\ WF_vars(clean_connections) /\ WF_vars(Tick)

FairSpec == Spec /\ Fairness

----------------------------------------------------------------------------
(***************************************************************************)
(* Properties                                                              *)
(***************************************************************************)
\* Parts of scrape number n of connection c that are still on their way.
OnTheirWay(c, n) ==
    LET own(part) == part.kind = "scrape" /\ part.number = n IN
    UNION {{[worker |-> p.worker, id |-> p.id] : p \in {q \in Range(to_send[c]) : own(q)}},
           {[worker |-> m.worker, id |-> m.id] : m \in {q \in out : q.to = c /\ own(q)}},
           {[worker |-> m.worker, id |-> m.id] : m \in {q \in Range(inbox[c]) : own(q)}},
           UNION {{[worker |-> w, id |-> m.part.id] :
                     m \in {q \in Range(in_channel[w]) : q.conn = c /\ own(q.part)}} :
                  w \in Workers}}

\* A part that reaches an open connection finds the scrape it belongs to in
\* the slab, which waits for at least the parts on their way: the writer
\* never fails for want of it, never counts below zero, and never puts
\* numbers of one scrape into the answer of another that got the same id.
PartsMeetTheirScrape ==
    \A c \in {x \in Connections : Open(x)}, n \in 1 .. MaxMessages :
        LET parts == OnTheirWay(c, n) IN
        \A p \in parts : /\ slab[c][p.id] # Absent
                         /\ slab[c][p.id].number = n
                         /\ slab[c][p.id].pending >= Cardinality(parts)

\* A scrape of some torrents, none of whose parts has been dropped, does not
\* stay unanswered, unless its connection closes.  (A scrape of an empty list
\* is never answered, and keeps its id.)
Awaited(c, n) ==
    \E i \in PendingScrapeIds :
        /\ Open(c) /\ slab[c][i] # Absent /\ slab[c][i].number = n
        /\ slab[c][i].pending <= Cardinality(OnTheirWay(c, n))
        /\ slab[c][i].pending > 0 \/ slab[c][i].files # {}

ScrapesAnswered == \A c \in Connections, n \in 1 .. MaxMessages : Awaited(c, n) ~> ~Awaited(c, n)

\* A connection that negotiated TLS with a replaced certificate is closed,
\* however busy it is.
OldCertificateEnds ==
    \A c \in Connections :
        (Running(c) /\ used_tls[c] \notin {Absent, tls_config}) ~> ~Running(c)

\* With a limit on idleness, a peer that falls silent does not keep its slot,
\* wherever its task is: in the TLS or WebSocket handshake or the peek before
\* it, waiting for a part of a scrape that was dropped, or blocked on its own
\* full channel.  (MaxMessages and MaxOffers make every peer fall silent.)
SilentConnectionEnds ==
    config.max_connection_idle # Absent =>
        \A c \in Connections :
            c \in handles ~> (c \notin handles /\ phase[c] = "closed")
============================================================================
