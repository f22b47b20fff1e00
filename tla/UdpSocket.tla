----------------------------- MODULE UdpSocket -----------------------------
(***************************************************************************)
(* The socket workers of the UDP tracker on mio                            *)
(* (crates/udp/src/workers/socket/mio) and their connection id validators  *)
(* (validator.rs).                                                         *)
(*                                                                         *)
(* Every worker has a clone of one validator, with a cached clock of its   *)
(* own, so an id that one worker issued is judged by another.  A datagram  *)
(* carries a source address that nobody has verified: `sender' is who      *)
(* really sent it.  An id reaches the owner of the address that it was     *)
(* made for, and a sender presents ids that have reached it (the keyed     *)
(* hash is taken to be unforgeable).                                       *)
(*                                                                         *)
(* Receiving is merged with arrival: a datagram that waits in a socket is  *)
(* one that is sent later.  The swarm's answer is one opaque response, and *)
(* the auto-ban tracker (module AutoBan) may or may not ban after an       *)
(* offence and lets bans end at any time.                                  *)
(***************************************************************************)
EXTENDS Integers, Sequences, FiniteSets

CONSTANTS
    Workers,
    Ips, V4Ips,                 \* addresses, and the IPv4 ones among them
    PrivateIps,                 \* the ones request_filter does not allow
    BannedIps,                  \* the contents of the IP ban list
    max_connection_age,
    FutureAllowance,            \* 60 s in connection_id_valid
    MaxLag,                     \* how far a cached clock may fall behind
    ElapsedUpdatePeriod,        \* 256 iterations in run
    resend_buffer_max_len,      \* 0 turns the resend buffer off
    NoId,
    MaxNow, MaxDatagrams        \* bounds

\* MaxLag is the promise that callers of the validator make: "update_elapsed
\* must be called at least once a minute".
ASSUME UdpSocketAssumption ==
    /\ V4Ips \subseteq Ips /\ PrivateIps \subseteq Ips /\ BannedIps \subseteq Ips
    /\ {max_connection_age, FutureAllowance, MaxLag, resend_buffer_max_len,
        MaxNow, MaxDatagrams} \subseteq Nat
    /\ MaxLag <= FutureAllowance
    /\ ElapsedUpdatePeriod \in Nat \ {0}

VARIABLES
    now,                        \* seconds since the validator was made
    seconds_since_start,        \* per worker: its cached clock
    iter_counter,               \* per worker, modulo ElapsedUpdatePeriod
    resend_buffer,              \* per worker and socket
    auto_banned,                \* addresses the auto-ban tracker bars
    known,                      \* per address: the ids that reached it
    received, sent,             \* per worker, socket and address: datagrams
    blamed                      \* <<sender, src>> of recorded violations

vars == <<now, seconds_since_start, iter_counter, resend_buffer, auto_banned,
          known, received, sent, blamed>>

Sockets == {"v4", "v6"}

\* `issued' is the true time of creation; no code reads it.
ConnectionId == [elapsed: Nat, hash: Nat \X Ips, issued: Nat]

Response == [to: Ips, id: ConnectionId \cup {NoId}]

TypeOK ==
    /\ now \in Nat
    /\ seconds_since_start \in [Workers -> Nat]
    /\ iter_counter \in [Workers -> 0..ElapsedUpdatePeriod - 1]
    /\ resend_buffer \in [Workers -> [Sockets -> Seq(Response)]]
    /\ auto_banned \subseteq Ips
    /\ known \in [Ips -> SUBSET ConnectionId]
    /\ received \in [Workers \X Sockets \X Ips -> Nat]
    /\ sent \in [Workers \X Sockets \X Ips -> Nat]
    /\ blamed \subseteq Ips \X Ips

Init ==
    /\ now = 0
    /\ seconds_since_start = [w \in Workers |-> 0]
    /\ iter_counter = [w \in Workers |-> 0]
    /\ resend_buffer = [w \in Workers |-> [s \in Sockets |-> << >>]]
    /\ auto_banned = {}
    /\ known = [ip \in Ips |-> {}]
    /\ received = [e \in Workers \X Sockets \X Ips |-> 0]
    /\ sent = [e \in Workers \X Sockets \X Ips |-> 0]
    /\ blamed = {}

----------------------------------------------------------------------------
(***************************************************************************)
(* ConnectionValidator                                                     *)
(***************************************************************************)
\* Truncated keyed BLAKE3 over the time and the address.
hash(elapsed, ip) == <<elapsed, ip>>

create_connection_id(w, ip) ==
    [elapsed |-> seconds_since_start[w], hash |-> hash(seconds_since_start[w], ip),
     issued |-> now]

\* Mutants: the address is left out of the hash; the expiry compares with >=;
\* nothing from the future is accepted.
valid_for_anyone(w, ip, id) ==
    /\ id.elapsed + max_connection_age > seconds_since_start[w]
    /\ id.elapsed <= seconds_since_start[w] + FutureAllowance
valid_at_expiry(w, ip, id) ==
    /\ id.hash = hash(id.elapsed, ip)
    /\ id.elapsed + max_connection_age >= seconds_since_start[w]
    /\ id.elapsed <= seconds_since_start[w] + FutureAllowance
valid_in_own_past(w, ip, id) ==
    /\ id.hash = hash(id.elapsed, ip)
    /\ id.elapsed + max_connection_age > seconds_since_start[w]
    /\ id.elapsed <= seconds_since_start[w]

connection_id_valid(w, ip, id) ==
    /\ id.hash = hash(id.elapsed, ip)
    /\ id.elapsed + max_connection_age > seconds_since_start[w]
    /\ id.elapsed <= seconds_since_start[w] + FutureAllowance

----------------------------------------------------------------------------
(***************************************************************************)
(* WorkerSharedData.  A datagram is [sender, src, kind, id, bad_peer_id];  *)
(* kind "malformed" is a RequestParseError that may be answered.           *)
(***************************************************************************)
Kinds == {"connect", "announce", "scrape", "malformed", "unparsable"}

Datagram == [sender: Ips, src: Ips, kind: Kinds, id: ConnectionId \cup {NoId},
             bad_peer_id: BOOLEAN]

is_list_banned(ip) == ip \in BannedIps \cup auto_banned

is_private_ip_blocked(ip) == ip \in PrivateIps

Validated(w, d) == d.id # NoId /\ connection_id_valid(w, d.src, d.id)

\* Does run_security_checks block (and record a violation)?  The peer id is
\* banned or misformed only if there is one.
run_security_checks(d) ==
    \/ is_private_ip_blocked(d.src)
    \/ d.kind = "announce" /\ d.bad_peer_id

\* The datagram gets an answer.
Answered(w, d) ==
    CASE d.kind = "connect" ->
            ~is_list_banned(d.src) /\ ~is_private_ip_blocked(d.src)
      [] d.kind \in {"announce", "scrape"} ->
            /\ ~is_list_banned(d.src)
            /\ Validated(w, d)
            /\ ~run_security_checks(d)
      [] d.kind = "malformed" -> Validated(w, d)
      [] OTHER -> FALSE

\* A violation is recorded against its source address.
Blames(w, d) ==
    /\ d.kind \in {"announce", "scrape"}
    /\ ~is_list_banned(d.src)
    /\ Validated(w, d)
    /\ run_security_checks(d)

handle_request(w, d) ==
    [to |-> d.src,
     id |-> IF d.kind = "connect" THEN create_connection_id(w, d.src) ELSE NoId]

----------------------------------------------------------------------------
(***************************************************************************)
(* Socket                                                                  *)
(***************************************************************************)
Delivered(kn, r) ==
    IF r.id = NoId THEN kn ELSE [kn EXCEPT ![r.to] = @ \cup {r.id}]

\* sendto succeeds, fails for want of buffers (ENOBUFS, WouldBlock), or fails.
send_response(w, s, r, outcome) ==
    /\ known' = IF outcome = "sent" THEN Delivered(known, r) ELSE known
    /\ sent' = IF outcome = "sent" THEN [sent EXCEPT ![<<w, s, r.to>>] = @ + 1]
                                   ELSE sent
    /\ resend_buffer' =
          IF outcome = "full" /\ Len(resend_buffer[w][s]) < resend_buffer_max_len
          THEN [resend_buffer EXCEPT ![w][s] = Append(@, r)]
          ELSE resend_buffer

\* One turn of the loop in read_and_handle_requests.
Receive(w, s, d) ==
    /\ s = "v4" => d.src \in V4Ips
    /\ received' = [received EXCEPT ![<<w, s, d.src>>] = @ + 1]
    /\ IF Answered(w, d)
       THEN \E outcome \in {"sent", "full", "failed"} :
               send_response(w, s, handle_request(w, d), outcome)
       ELSE UNCHANGED <<known, sent, resend_buffer>>
    /\ IF Blames(w, d)
       THEN /\ blamed' = blamed \cup {<<d.sender, d.src>>}
            /\ auto_banned' \in {auto_banned, auto_banned \cup {d.src}}
       ELSE UNCHANGED <<blamed, auto_banned>>
    /\ UNCHANGED <<now, seconds_since_start, iter_counter>>

\* The entries of a buffer whose second attempt succeeds, in their order.
Resent(buffer, ok) == {buffer[i] : i \in ok}

\* Mutant: the drained buffer is swapped back with its contents.
kept_after_resend(buffer) == buffer

\* drain(..) takes every entry; with disable_resend_buffer set, one that fails
\* again is gone.
left_after_resend(buffer) == << >>

Successes(buffer, ok, ip) == Cardinality({i \in ok : buffer[i].to = ip})

\* The rest of an iteration of run: resend_failed on both sockets, then the
\* clock every ElapsedUpdatePeriod iterations.
EndIteration(w) ==
    /\ \E ok4 \in SUBSET DOMAIN resend_buffer[w]["v4"],
          ok6 \in SUBSET DOMAIN resend_buffer[w]["v6"] :
          LET buffers == resend_buffer[w]
              ok == [s \in Sockets |-> IF s = "v4" THEN ok4 ELSE ok6]
          IN
          /\ known' = [ip \in Ips |-> known[ip] \cup
                {r.id : r \in {x \in UNION {Resent(buffers[s], ok[s]) : s \in Sockets} :
                                  x.to = ip /\ x.id # NoId}}]
          /\ sent' = [e \in DOMAIN sent |-> IF e[1] = w
                THEN sent[e] + Successes(buffers[e[2]], ok[e[2]], e[3])
                ELSE sent[e]]
          /\ resend_buffer' = [resend_buffer EXCEPT ![w] =
                [s \in Sockets |-> left_after_resend(buffers[s])]]
    /\ seconds_since_start' = [seconds_since_start EXCEPT ![w] =
          IF iter_counter[w] = 0 THEN now ELSE @]
    /\ iter_counter' = [iter_counter EXCEPT ![w] = (@ + 1) % ElapsedUpdatePeriod]
    /\ UNCHANGED <<now, auto_banned, received, blamed>>

----------------------------------------------------------------------------
\* A client's datagram: a fresh connect, or one with an id that it was sent.
SomeDatagram(d) ==
    /\ d.kind \in {"connect", "unparsable"} <=> d.id = NoId
    /\ d.id # NoId => d.id \in known[d.sender]
    /\ d.bad_peer_id => d.kind = "announce"

Total == Cardinality({x \in (DOMAIN received) \X (1..MaxDatagrams) :
                         x[2] <= received[x[1]]})

Datagrams(w, s) ==
    /\ Total < MaxDatagrams
    /\ \E sender \in Ips, src \in Ips, kind \in Kinds, bad \in BOOLEAN :
       \E id \in known[sender] \cup {NoId} :
          LET d == [sender |-> sender, src |-> src, kind |-> kind, id |-> id,
                    bad_peer_id |-> bad]
          IN  SomeDatagram(d) /\ Receive(w, s, d)

AutoBanEnds(ip) ==
    /\ auto_banned' = auto_banned \ {ip}
    /\ ip \in auto_banned
    /\ UNCHANGED <<now, seconds_since_start, iter_counter, resend_buffer, known,
                   received, sent, blamed>>

Tick ==
    /\ now < MaxNow
    /\ \A w \in Workers : now + 1 <= seconds_since_start[w] + MaxLag
    /\ now' = now + 1
    /\ UNCHANGED <<seconds_since_start, iter_counter, resend_buffer, auto_banned,
                   known, received, sent, blamed>>

Next ==
    \/ \E w \in Workers : \/ \E s \in Sockets : Datagrams(w, s)
                          \/ EndIteration(w)
    \/ \E ip \in Ips : AutoBanEnds(ip)
    \/ Tick

Spec == Init /\ [][Next]_vars

----------------------------------------------------------------------------
(***************************************************************************)
(* Properties                                                              *)
(***************************************************************************)
\* Only the true owner of an address is blamed for an offence: "doing so for
\* unvalidated packets would let a spoofed source IP get someone else banned"
\* (run_security_checks).  A datagram that merely claims a source cannot
\* produce the id that went to that source, through any order of connects,
\* resends and workers.
OnlySendersBlamed == \A b \in blamed : b[1] = b[2]

\* No worker accepts an id much past its lifetime: at most the lag of one
\* cached clock longer than max_connection_age, whichever worker issued it.
StaleIdRefused ==
    \A w \in Workers, ip \in Ips : \A id \in known[ip] :
        connection_id_valid(w, ip, id) => now < id.issued + max_connection_age + MaxLag

\* Every worker accepts an id that any worker issued, until the lag of one
\* cached clock before it expires; an id may come from the future of a worker
\* whose clock has not been updated yet.
FreshIdAccepted ==
    \A w \in Workers, ip \in Ips : \A id \in known[ip] :
        now + MaxLag < id.issued + max_connection_age => connection_id_valid(w, ip, id)

\* The tracker is no amplifier: an address is sent at most one datagram for
\* each that claims to come from it, by the socket that received it, resends
\* included.
AnswersWithinRequests ==
    \A w \in Workers, s \in Sockets, ip \in Ips :
        sent[<<w, s, ip>>]
            + Cardinality({i \in DOMAIN resend_buffer[w][s] :
                              resend_buffer[w][s][i].to = ip})
            <= received[<<w, s, ip>>]
============================================================================
