------------------------------ MODULE Startup ------------------------------
(***************************************************************************)
(* How a tracker process starts and ends: the run functions of the three   *)
(* services (crates/{udp,http,ws}/src/lib.rs), the sockets that their      *)
(* workers create, and PrivilegeDropper (crates/common/src/privileges.rs). *)
(*                                                                         *)
(* A socket worker is a thread that creates its sockets one after the      *)
(* other; with drop_privileges each creation ends in the wait of a barrier *)
(* that all workers share, and the last one to arrive drops the privileges *)
(* of the process.  The main thread polls the join handles and ends the    *)
(* process when any thread has ended.                                      *)
(***************************************************************************)
EXTENDS Integers, Sequences, FiniteSets

CONSTANTS
    Services,                   \* among "udp", "http", "ws"
    available_parallelism,
    MaxWorkers                  \* bound on the configured socket workers

StartupAssumption ==
    /\ Services \subseteq {"udp", "http", "ws"}
    /\ available_parallelism \in Nat \ {0} /\ MaxWorkers \in Nat

VARIABLES
    config,
    main,                       \* the main thread
    unspawned,                  \* threads that run has yet to spawn, in order
    thread,                     \* state of every thread that was spawned
    to_create,                  \* per socket worker: sockets still to create
    arrived,                    \* socket workers in barrier.wait()
    privileged,
    late_binds                  \* sockets bound after privileges were dropped

vars == <<config, main, unspawned, thread, to_create, arrived, privileged, late_binds>>

Config == [service: Services, socket_workers: 0..MaxWorkers, swarm_workers: {0, 1},
           use_ipv4: BOOLEAN, use_ipv6: BOOLEAN, interval: {0, 1},
           drop_privileges: BOOLEAN, auto_ban: BOOLEAN]

SocketWorkers == {"socket"} \X (1..MaxWorkers \cup 1..available_parallelism)
Others == {<<t, 1>> : t \in {"swarm", "flush", "cleaning", "statistics", "signals"}}
Threads == SocketWorkers \cup Others

\* "creating" makes sockets, "waiting" is inside the barrier, "leading" has
\* left it as the leader.
ThreadState == {"creating", "waiting", "leading", "running", "ended"}

TypeOK ==
    /\ config \in Config
    /\ main \in {"checking", "spawning", "joining", "exited"}
    /\ DOMAIN thread \subseteq Threads
    /\ \A t \in DOMAIN thread : thread[t] \in ThreadState
    /\ to_create \in [SocketWorkers -> 0..2]
    /\ arrived \subseteq SocketWorkers
    /\ privileged \in BOOLEAN
    /\ late_binds \in Nat

Init ==
    /\ config \in Config
    /\ main = "checking"
    /\ unspawned = << >>
    /\ thread = << >>
    /\ to_create = [i \in SocketWorkers |-> 0]
    /\ arrived = {}
    /\ privileged = TRUE
    /\ late_binds = 0

----------------------------------------------------------------------------
(***************************************************************************)
(* Checking the configuration                                              *)
(***************************************************************************)
\* 0 means one worker per available CPU.
validate_worker_counts(c) ==
    IF c.socket_workers = 0 THEN available_parallelism ELSE c.socket_workers

validate_interval(c) == c.interval # 0

udp_accepts(c) == (c.use_ipv4 \/ c.use_ipv6) /\ validate_interval(c)
http_accepts(c) ==
    (c.use_ipv4 \/ c.use_ipv6) /\ c.swarm_workers # 0 /\ validate_interval(c)
ws_accepts(c) == c.swarm_workers # 0 /\ validate_interval(c)

accepts(c) ==
    CASE c.service = "udp" -> udp_accepts(c)
      [] c.service = "http" -> http_accepts(c)
      [] c.service = "ws" -> ws_accepts(c)

\* The WebTorrent tracker has one listener per worker.
num_sockets_per_worker(c) ==
    IF c.service = "ws" THEN 1
    ELSE (IF c.use_ipv4 THEN 1 ELSE 0) + (IF c.use_ipv6 THEN 1 ELSE 0)

\* PrivilegeDropper::new
num_sockets(c) == validate_worker_counts(c) * num_sockets_per_worker(c)

\* The order in which run spawns its threads.
flush_thread(c) == IF c.auto_ban THEN << <<"flush", 1>> >> ELSE << >>
socket_threads(c) == [i \in 1..validate_worker_counts(c) |-> <<"socket", i>>]

udp_threads(c) ==
    flush_thread(c) \o socket_threads(c)
        \o << <<"cleaning", 1>>, <<"statistics", 1>>, <<"signals", 1>> >>
http_threads(c) ==
    socket_threads(c) \o << <<"swarm", 1>> >> \o flush_thread(c) \o << <<"signals", 1>> >>
ws_threads(c) ==
    flush_thread(c) \o socket_threads(c) \o << <<"swarm", 1>>, <<"signals", 1>> >>

threads(c) ==
    CASE c.service = "udp" -> udp_threads(c)
      [] c.service = "http" -> http_threads(c)
      [] c.service = "ws" -> ws_threads(c)

Check ==
    /\ main = "checking"
    /\ main' = IF accepts(config) THEN "spawning" ELSE "exited"
    /\ unspawned' = IF accepts(config) THEN threads(config) ELSE << >>
    /\ UNCHANGED <<config, thread, to_create, arrived, privileged, late_binds>>

Spawn ==
    LET t == Head(unspawned) IN
    /\ main = "spawning"
    /\ unspawned # << >>
    /\ unspawned' = Tail(unspawned)
    /\ thread' = [u \in DOMAIN thread \cup {t} |->
          IF u # t THEN thread[u]
          ELSE IF t \in SocketWorkers THEN "creating" ELSE "running"]
    /\ to_create' = IF t \in SocketWorkers
          THEN [to_create EXCEPT ![t] = num_sockets_per_worker(config)] ELSE to_create
    /\ UNCHANGED <<config, main, arrived, privileged, late_binds>>

Spawned ==
    /\ main = "spawning"
    /\ unspawned = << >>
    /\ main' = "joining"
    /\ UNCHANGED <<config, unspawned, thread, to_create, arrived, privileged, late_binds>>

\* A thread has returned or panicked: run returns an error.
Join ==
    /\ main = "joining"
    /\ \E t \in DOMAIN thread : thread[t] = "ended"
    /\ main' = "exited"
    /\ UNCHANGED <<config, unspawned, thread, to_create, arrived, privileged, late_binds>>

----------------------------------------------------------------------------
(***************************************************************************)
(* The threads.  The process ends with the main thread.                    *)
(***************************************************************************)
In(t, state) == main # "exited" /\ t \in DOMAIN thread /\ thread[t] = state

Next_state(i) == IF to_create[i] = 0 THEN "running" ELSE "creating"

\* Bind the next socket.
create_socket(i) ==
    /\ In(i, "creating")
    /\ to_create' = [to_create EXCEPT ![i] = @ - 1]
    /\ late_binds' = IF privileged THEN late_binds ELSE late_binds + 1

\* ... which fails, and the worker returns the error.
CreateSocketFails(i) ==
    /\ In(i, "creating")
    /\ thread' = [thread EXCEPT ![i] = "ended"]
    /\ UNCHANGED <<config, main, unspawned, to_create, arrived, privileged, late_binds>>

\* after_socket_creation without drop_privileges.
CreateSocket(i) ==
    /\ ~config.drop_privileges
    /\ create_socket(i)
    /\ thread' = [thread EXCEPT ![i] = Next_state(i)']
    /\ UNCHANGED <<config, main, unspawned, arrived, privileged>>

\* barrier.wait() with others still missing.
CreateSocketAndWait(i) ==
    /\ config.drop_privileges
    /\ Cardinality(arrived) + 1 < num_sockets(config)
    /\ create_socket(i)
    /\ arrived' = arrived \cup {i}
    /\ thread' = [thread EXCEPT ![i] = "waiting"]
    /\ UNCHANGED <<config, main, unspawned, privileged>>

\* barrier.wait() of the last one: it leads and all go on.
CreateSocketAndLead(i) ==
    /\ config.drop_privileges
    /\ Cardinality(arrived) + 1 = num_sockets(config)
    /\ create_socket(i)
    /\ arrived' = {}
    /\ thread' = [t \in DOMAIN thread |->
          IF t = i THEN "leading" ELSE IF t \in arrived THEN Next_state(t) ELSE thread[t]]
    /\ UNCHANGED <<config, main, unspawned, privileged>>

\* PrivDrop::apply, which may fail.
DropPrivileges(i) ==
    /\ In(i, "leading")
    /\ \/ privileged' = FALSE /\ thread' = [thread EXCEPT ![i] = Next_state(i)]
       \/ UNCHANGED privileged /\ thread' = [thread EXCEPT ![i] = "ended"]
    /\ UNCHANGED <<config, main, unspawned, to_create, arrived, late_binds>>

ThreadEnds(t) ==
    /\ In(t, "running")
    /\ thread' = [thread EXCEPT ![t] = "ended"]
    /\ UNCHANGED <<config, main, unspawned, to_create, arrived, privileged, late_binds>>

run == Check \/ Spawn \/ Spawned \/ Join

SocketWorker(i) ==
    \/ CreateSocket(i) \/ CreateSocketFails(i)
    \/ CreateSocketAndWait(i) \/ CreateSocketAndLead(i)
    \/ DropPrivileges(i)

Next ==
    \/ run
    \/ \E i \in SocketWorkers : SocketWorker(i)
    \/ \E t \in Threads : ThreadEnds(t)

Spec == Init /\ [][Next]_vars

\* The main thread wakes every five seconds; threads are scheduled.
FairSpec == Spec /\ WF_vars(run) /\ \A i \in SocketWorkers : WF_vars(SocketWorker(i))

----------------------------------------------------------------------------
(***************************************************************************)
(* Properties                                                              *)
(***************************************************************************)
\* No socket is bound after the privileges are gone, whichever worker is
\* late: what the barrier is for.
NoLateBind == late_binds = 0

\* "Chroot and switch group and user after binding to sockets"
\* (PrivilegeConfig::drop_privileges): a process that starts with the option
\* drops its privileges, or ends.
PrivilegesDropped ==
    (main = "joining" /\ config.drop_privileges) ~> (~privileged \/ main = "exited")
=============================================================================
