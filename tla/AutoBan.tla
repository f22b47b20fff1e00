------------------------------ MODULE AutoBan ------------------------------
(***************************************************************************)
(* AutoBanTracker (crates/common/src/auto_ban.rs) together with the        *)
(* threads that use it (crates/udp/src/lib.rs, crates/http/src/lib.rs):    *)
(*                                                                         *)
(*  - socket workers, which look an address up in the IP ban list and in   *)
(*    the tracker, report violations and append new bans to files;         *)
(*  - the auto-ban-flush thread, which prunes the client ban file, writes  *)
(*    permanent bans that are not on disk yet, reloads the IP ban list and *)
(*    hands those bans over to it;                                         *)
(*  - the signal thread, which reloads the IP ban list on SIGUSR2;         *)
(*  - crashes: memory is lost, the two files are kept, and startup reads   *)
(*    them back.                                                           *)
(*                                                                         *)
(* Every action is one critical section or one file operation.  Taking     *)
(* write_lock and the first thing done under it are one action.            *)
(***************************************************************************)
EXTENDS AutoBanPolicy, FiniteSets

CONSTANTS
    Workers,                    \* socket workers
    NoIp,                       \* value of req[w] between requests
    Free,                       \* value of write_lock when nobody holds it
    Flusher,                    \* value of write_lock for the flush thread
    Reasons,                    \* violations that requests may commit
    check_order,                \* [Workers -> {"auto_first", "list_first"}]
    initial_max_records, HARD_MAX_RECORDS, record_headroom,
    client_cleanup_secs,        \* interval of maybe_cleanup_client_bans
    reload_signals,             \* whether the operator sends SIGUSR2
    MaxNow, MaxCrashes, MaxFailures     \* bounds on the environment

ASSUME TrackerAssumption ==
    /\ Reasons \subseteq Reason
    /\ check_order \in [Workers -> {"auto_first", "list_first"}]
    /\ NoIp \notin Ips /\ IsFiniteSet(Ips)
    /\ Free \notin Workers \cup {Flusher} /\ Flusher \notin Workers
    /\ {initial_max_records, HARD_MAX_RECORDS, record_headroom} \subseteq Nat
    /\ client_cleanup_secs \in Nat
    /\ reload_signals \in BOOLEAN
    /\ {MaxNow, MaxCrashes, MaxFailures} \subseteq Nat

VARIABLES
    now,                        \* the clock
    records, max_records,       \* AutoBanInner, under the `inner' RwLock
    last_capacity_cleanup, last_client_cleanup,
    write_lock,                 \* Mutex serializing appends
    ban_file,                   \* addresses on complete lines of ban_list_path
    tail_newline,               \* whether that file ends with a newline
    client_file,                \* lines of client_ban_list_path
    ip_ban_list,                \* the ArcSwap'd list requests are checked against
    pc, req, expire,            \* per worker: position, address, expire_unix
    barred,                     \* history: was req banned when it arrived?
    fpc, banned, pending,       \* flush thread and the sets of flush_to_file
    kept, loaded,               \* lines to keep, list read but not stored yet
    spc, sloaded,               \* signal thread and the list it has read
    crashes, failures           \* bounded environment events

inner == <<records, max_records, last_capacity_cleanup, last_client_cleanup>>
files == <<ban_file, tail_newline, client_file>>
worker == <<pc, req, expire, barred>>
flusher == <<fpc, banned, pending, kept, loaded>>
signaller == <<spc, sloaded>>
bounds == <<crashes, failures>>
vars == <<now, inner, write_lock, files, ip_ban_list, worker, flusher,
          signaller, bounds>>

ClientLine == [ip: Ips, expire: Nat]

WorkerPc == {"idle", "first", "second", "checked", "persist", "append", "mark",
             "durable", "client", "clientline"}
FlusherPc == {"sleep", "rename", "snapshot", "lock", "write", "markall", "read",
              "store", "remove", "cleanup"}

Locked == {"append", "mark"}            \* pcs that hold write_lock
FlusherLocked == {"write", "markall"}

TypeOK ==
    /\ now \in Nat
    /\ records \in [Ips -> IpRecord \cup {NoRecord}]
    /\ max_records \in Nat
    /\ last_capacity_cleanup \in Nat \cup {None}
    /\ last_client_cleanup \in Nat \cup {None}
    /\ write_lock \in Workers \cup {Free, Flusher}
    /\ ban_file \subseteq Ips
    /\ tail_newline \in BOOLEAN
    /\ client_file \subseteq ClientLine
    /\ ip_ban_list \subseteq Ips
    /\ pc \in [Workers -> WorkerPc]
    /\ req \in [Workers -> Ips \cup {NoIp}]
    /\ expire \in [Workers -> Nat]
    /\ barred \in [Workers -> BOOLEAN]
    /\ fpc \in FlusherPc
    /\ banned \subseteq Ips
    /\ pending \subseteq Ips
    /\ kept \subseteq ClientLine
    /\ loaded \subseteq Ips
    /\ spc \in {"wait", "store"}
    /\ sloaded \subseteq Ips
    /\ crashes \in Nat
    /\ failures \in Nat

----------------------------------------------------------------------------
(***************************************************************************)
(* Lookups                                                                 *)
(***************************************************************************)
Tracked(recs) == {ip \in Ips : recs[ip] # NoRecord}

is_auto_banned(ip) == records[ip] # NoRecord /\ is_banned(records[ip], now)

PermanentIn(recs) == {ip \in Ips : recs[ip] # NoRecord /\ recs[ip].permanent}

\* Permanent bans whose line has not been confirmed written.
Unpersisted(ip) == ip \in PermanentIn(records) /\ ~records[ip].persisted

retain(recs) ==
    [ip \in Ips |-> IF recs[ip] # NoRecord /\ Retainable(recs[ip], now)
                    THEN recs[ip] ELSE NoRecord]

\* A worker moves on; back at "idle" it has forgotten its request.
Goto(w, label) ==
    /\ pc' = [pc EXCEPT ![w] = label]
    /\ req' = IF label = "idle" THEN [req EXCEPT ![w] = NoIp] ELSE req
    /\ expire' = IF label = "idle" THEN [expire EXCEPT ![w] = 0] ELSE expire
    /\ barred' = IF label = "idle" THEN [barred EXCEPT ![w] = FALSE] ELSE barred

----------------------------------------------------------------------------
(***************************************************************************)
(* Files.  An append writes a newline first if the file does not end with  *)
(* one; without it the first address would be glued to the last line.  A   *)
(* failed or interrupted write leaves any part of its lines, the last one  *)
(* possibly without its newline.                                           *)
(***************************************************************************)
\* Mutants: the end of the file is not examined, or no newline is written.
newline_assumed == TRUE
NoSeparator == FALSE

file_ends_with_newline == tail_newline

Separator == ~file_ends_with_newline

append_lines(ips) ==
    /\ \E glued \in {{}} \cup {{ip} : ip \in ips} :
          /\ (glued = {}) <=> (tail_newline \/ Separator)
          /\ ban_file' = ban_file \cup (ips \ glued)
    /\ tail_newline' = TRUE

torn_append(ips) ==
    /\ \E part \in SUBSET ips : ban_file' = ban_file \cup part
    /\ tail_newline' \in BOOLEAN

\* Latest unexpired line of every address.
parse_client_ban_lines(lines) ==
    {l \in lines : /\ l.expire > now
                   /\ \A m \in lines : m.ip = l.ip => m.expire <= l.expire}

----------------------------------------------------------------------------
(***************************************************************************)
(* Socket workers: a request from ip                                       *)
(***************************************************************************)
Arrive(w, ip) ==
    /\ pc[w] = "idle"
    /\ pc' = [pc EXCEPT ![w] = "first"]
    /\ req' = [req EXCEPT ![w] = ip]
    /\ barred' = [barred EXCEPT ![w] = ip \in PermanentIn(records) \cup ip_ban_list]
    /\ UNCHANGED <<now, inner, write_lock, files, ip_ban_list, expire, flusher,
                   signaller, bounds>>

\* Mutant: every tracker asks the list first.
SourceBansListFirst(w, position) ==
    IF position = "first" THEN req[w] \in ip_ban_list ELSE is_auto_banned(req[w])

\* is_list_banned / the security checks consult two sources one after the
\* other: HTTP asks the tracker first, UDP and WebTorrent the list first.
SourceBans(w, position) ==
    IF (check_order[w] = "auto_first") = (position = "first")
    THEN is_auto_banned(req[w])
    ELSE req[w] \in ip_ban_list

Lookup(w) ==
    /\ pc[w] \in {"first", "second"}
    /\ Goto(w, IF SourceBans(w, pc[w]) THEN "idle"
               ELSE IF pc[w] = "first" THEN "second" ELSE "checked")
    /\ UNCHANGED <<now, inner, write_lock, files, ip_ban_list, flusher, signaller, bounds>>

Serve(w) ==
    /\ pc[w] = "checked"
    /\ Goto(w, "idle")
    /\ UNCHANGED <<now, inner, write_lock, files, ip_ban_list, flusher, signaller, bounds>>

(***************************************************************************)
(* record_violation.  The whole first part runs under the inner write lock *)
(* and is one action, in three alternatives: already banned, dropped       *)
(* because the map is full, counted.  max_records is read once, before the *)
(* limit is grown.                                                         *)
(***************************************************************************)
\* Mutant: one record too many.
MapOverfull(recs) == Cardinality(Tracked(recs)) > max_records

MapFull(recs) == Cardinality(Tracked(recs)) >= max_records

CleanupDue == \/ last_capacity_cleanup = None
              \/ now - last_capacity_cleanup >= 1

CapacityGuard(ip) == records[ip] = NoRecord /\ MapFull(records)

RoomMade(ip) ==
    IF CapacityGuard(ip) /\ CleanupDue THEN retain(records) ELSE records

Dropped(ip) == CapacityGuard(ip) /\ MapFull(RoomMade(ip))

Grown == IF 2 * max_records < HARD_MAX_RECORDS THEN 2 * max_records
         ELSE HARD_MAX_RECORDS

GrowLimit(ip) ==
    /\ records' = RoomMade(ip)
    /\ last_capacity_cleanup' = IF CleanupDue THEN now ELSE last_capacity_cleanup
    /\ max_records' = IF Grown > max_records THEN Grown ELSE max_records

Count(ip, reason) ==
    /\ records' = [RoomMade(ip) EXCEPT ![ip] = Violated(@, reason, ip, now)]
    /\ last_capacity_cleanup' = IF CapacityGuard(ip) /\ CleanupDue THEN now
                                ELSE last_capacity_cleanup
    /\ UNCHANGED max_records

\* Where record_violation continues once the record is updated.
AfterViolation(ip, reason) ==
    CASE ~Triggered(records[ip], reason, now) -> "idle"
      [] Triggered(records[ip], reason, now) /\ records'[ip].permanent -> "persist"
      [] OTHER -> IF reason = "ClientBanned" THEN "client" ELSE "idle"

record_violation(w, reason) ==
    LET ip == req[w] IN
    /\ pc[w] = "checked"
    /\ \/ /\ is_auto_banned(ip)
          /\ Goto(w, "idle")
          /\ UNCHANGED inner
       \/ /\ ~is_auto_banned(ip)
          /\ Dropped(ip)
          /\ GrowLimit(ip)
          /\ Goto(w, "idle")
          /\ UNCHANGED last_client_cleanup
       \/ /\ ~is_auto_banned(ip)
          /\ ~Dropped(ip)
          /\ Count(ip, reason)
          /\ Goto(w, AfterViolation(ip, reason))
          /\ UNCHANGED last_client_cleanup
    /\ UNCHANGED <<now, write_lock, files, ip_ban_list, flusher, signaller, bounds>>

(***************************************************************************)
(* persist_ip: lock and recheck, append, mark and unlock.                  *)
(***************************************************************************)
PersistLock(w) ==
    /\ pc[w] = "persist"
    /\ write_lock = Free
    /\ IF Unpersisted(req[w])
       THEN write_lock' = w /\ Goto(w, "append")
       ELSE Goto(w, "durable") /\ UNCHANGED write_lock
    /\ UNCHANGED <<now, inner, files, ip_ban_list, flusher, signaller, bounds>>

PersistAppend(w) ==
    /\ pc[w] = "append"
    /\ append_lines({req[w]})
    /\ Goto(w, "mark")
    /\ UNCHANGED <<now, inner, write_lock, client_file, ip_ban_list, flusher, signaller, bounds>>

\* The write fails: logged, and left to the periodic flush.
PersistFail(w) ==
    /\ pc[w] = "append"
    /\ failures < MaxFailures
    /\ failures' = failures + 1
    /\ torn_append({req[w]})
    /\ write_lock' = Free
    /\ Goto(w, "idle")
    /\ UNCHANGED <<now, inner, client_file, ip_ban_list, flusher, signaller, crashes>>

PersistMark(w) ==
    /\ pc[w] = "mark"
    /\ records' = [records EXCEPT ![req[w]] =
                      IF req[w] \in PermanentIn(records)
                      THEN [@ EXCEPT !.persisted = TRUE] ELSE @]
    /\ write_lock' = Free
    /\ Goto(w, "durable")
    /\ UNCHANGED <<now, max_records, last_capacity_cleanup, last_client_cleanup,
                   files, ip_ban_list, flusher, signaller,
                   bounds>>

\* record_violation returns true for a permanent ban whose write did not fail.
Return(w) ==
    /\ pc[w] = "durable"
    /\ Goto(w, "idle")
    /\ UNCHANGED <<now, inner, write_lock, files, ip_ban_list, flusher, signaller, bounds>>

(***************************************************************************)
(* persist_client_ban: read the expiry, then append under write_lock.      *)
(***************************************************************************)
ClientExpiry(w) ==
    LET record == records[req[w]] IN
    /\ pc[w] = "client"
    /\ IF record # NoRecord /\ ~record.permanent /\ record.banned_until # None
       THEN /\ pc' = [pc EXCEPT ![w] = "clientline"]
            /\ expire' = [expire EXCEPT ![w] =
                 IF record.banned_until < now THEN now ELSE record.banned_until]
            /\ UNCHANGED <<req, barred>>
       ELSE Goto(w, "idle")
    /\ UNCHANGED <<now, inner, write_lock, files, ip_ban_list, flusher,
                   signaller, bounds>>

ClientAppend(w) ==
    /\ pc[w] = "clientline"
    /\ write_lock = Free
    /\ client_file' = client_file \cup {[ip |-> req[w], expire |-> expire[w]]}
    /\ Goto(w, "idle")
    /\ UNCHANGED <<now, inner, write_lock, ban_file, tail_newline, ip_ban_list,
                   flusher, signaller, bounds>>

\* The write fails.  A line cut short has no address, no expiry or one that
\* is long past; only its newline may be missing for it to count.
ClientAppendFail(w) ==
    /\ pc[w] = "clientline"
    /\ write_lock = Free
    /\ failures < MaxFailures
    /\ failures' = failures + 1
    /\ client_file' \in {client_file,
                        client_file \cup {[ip |-> req[w], expire |-> expire[w]]}}
    /\ Goto(w, "idle")
    /\ UNCHANGED <<now, inner, write_lock, ban_file, tail_newline, ip_ban_list,
                   flusher, signaller, crashes>>

----------------------------------------------------------------------------
(***************************************************************************)
(* The auto-ban-flush thread                                               *)
(***************************************************************************)
ClientCleanupDue == \/ last_client_cleanup = None
                    \/ now - last_client_cleanup >= client_cleanup_secs

\* maybe_cleanup_client_bans, and cleanup_client_bans up to its read.
maybe_cleanup_client_bans ==
    /\ fpc = "sleep"
    /\ IF ClientCleanupDue
       THEN /\ last_client_cleanup' = now
            /\ kept' = parse_client_ban_lines(client_file)
            /\ fpc' = "rename"
       ELSE /\ fpc' = "snapshot"
            /\ UNCHANGED <<last_client_cleanup, kept>>
    /\ UNCHANGED <<now, records, max_records, last_capacity_cleanup, write_lock,
                   files, ip_ban_list, worker, banned, pending, loaded,
                   signaller, bounds>>

\* The rewritten file replaces the old one, without taking write_lock.
CleanupRename ==
    /\ fpc = "rename"
    /\ client_file' = kept
    /\ fpc' = "snapshot"
    /\ kept' = {}
    /\ UNCHANGED <<now, inner, write_lock, ban_file, tail_newline, ip_ban_list,
                   worker, banned, pending, loaded, signaller, bounds>>

CleanupRenameFail ==
    /\ fpc = "rename"
    /\ failures < MaxFailures
    /\ failures' = failures + 1
    /\ fpc' = "snapshot"
    /\ kept' = {}
    /\ UNCHANGED <<now, inner, write_lock, files, ip_ban_list, worker, banned,
                   pending, loaded, signaller, crashes>>

\* Mutant: only the bans of this interval are reported for the hand-over.
FlushSnapshotPending ==
    /\ fpc = "snapshot"
    /\ pending' = {ip \in PermanentIn(records) : ~records[ip].persisted}
    /\ banned' = pending'
    /\ fpc' = IF pending' = {} THEN "cleanup" ELSE "lock"
    /\ UNCHANGED <<now, inner, write_lock, files, ip_ban_list, worker, kept,
                   loaded, signaller, bounds>>

\* flush_to_file reads the records it has to write and to hand over.
FlushSnapshot ==
    LET report == IF ban_duration_secs # 0 /\ ~escalation_enabled THEN {}
                  ELSE PermanentIn(records)
    IN
    /\ fpc = "snapshot"
    /\ banned' = report
    /\ pending' = {ip \in report : ~records[ip].persisted}
    /\ fpc' = IF report = {} THEN "cleanup"
              ELSE IF pending' = {} THEN "read" ELSE "lock"
    /\ UNCHANGED <<now, inner, write_lock, files, ip_ban_list, worker, kept,
                   loaded, signaller, bounds>>

\* Mutant: the snapshot is not rechecked under write_lock.
FlushLockUnchecked ==
    /\ fpc = "lock"
    /\ write_lock = Free
    /\ fpc' = "write" /\ write_lock' = Flusher
    /\ UNCHANGED <<now, inner, files, ip_ban_list, worker, banned, pending, kept,
                   loaded, signaller, bounds>>

\* Takes write_lock and drops what persist_ip has written in the meantime.
FlushLock ==
    LET still == {ip \in pending :
                     records[ip] # NoRecord /\ ~records[ip].persisted}
    IN
    /\ fpc = "lock"
    /\ write_lock = Free
    /\ pending' = still
    /\ IF still = {} THEN fpc' = "read" /\ UNCHANGED write_lock
       ELSE fpc' = "write" /\ write_lock' = Flusher
    /\ UNCHANGED <<now, inner, files, ip_ban_list, worker, banned, kept,
                   loaded, signaller, bounds>>

FlushWrite ==
    /\ fpc = "write"
    /\ append_lines(pending)
    /\ fpc' = "markall"
    /\ UNCHANGED <<now, inner, write_lock, client_file, ip_ban_list, worker,
                   banned, pending, kept, loaded, signaller, bounds>>

\* Mutant: a failed write is reported as flushed.
FlushFailReported ==
    /\ fpc = "write"
    /\ failures < MaxFailures
    /\ failures' = failures + 1
    /\ torn_append(pending)
    /\ write_lock' = Free
    /\ fpc' = "read"
    /\ pending' = {}
    /\ UNCHANGED <<now, inner, client_file, ip_ban_list, worker, banned, kept,
                   loaded, signaller, crashes>>

\* open or write_all fails: nothing is reported as flushed.
FlushFail ==
    /\ fpc = "write"
    /\ failures < MaxFailures
    /\ failures' = failures + 1
    /\ torn_append(pending)
    /\ write_lock' = Free
    /\ fpc' = "cleanup"
    /\ banned' = {}
    /\ pending' = {}
    /\ UNCHANGED <<now, inner, client_file, ip_ban_list, worker, kept, loaded,
                   signaller, crashes>>

FlushMark ==
    /\ fpc = "markall"
    /\ records' = [ip \in Ips |-> IF ip \in pending /\ records[ip] # NoRecord
                                  THEN [records[ip] EXCEPT !.persisted = TRUE]
                                  ELSE records[ip]]
    /\ write_lock' = Free
    /\ fpc' = "read"
    /\ pending' = {}
    /\ UNCHANGED <<now, max_records, last_capacity_cleanup, last_client_cleanup,
                   files, ip_ban_list, worker, banned, kept, loaded, signaller,
                   bounds>>

\* update_ip_ban_list reads the file, then stores the new list.
ReloadRead ==
    /\ fpc = "read"
    /\ loaded' = ban_file
    /\ fpc' = "store"
    /\ UNCHANGED <<now, inner, write_lock, files, ip_ban_list, worker, banned,
                   pending, kept, signaller, bounds>>

\* Mutant: the hand-over goes on after a failed reload.
ReloadFailIgnored ==
    /\ fpc = "read"
    /\ failures < MaxFailures
    /\ failures' = failures + 1
    /\ fpc' = "remove"
    /\ UNCHANGED <<now, inner, write_lock, files, ip_ban_list, worker, banned,
                   pending, kept, loaded, signaller, crashes>>

\* The reload fails: the records stay in memory.
ReloadFail ==
    /\ fpc = "read"
    /\ failures < MaxFailures
    /\ failures' = failures + 1
    /\ fpc' = "cleanup"
    /\ banned' = {}
    /\ UNCHANGED <<now, inner, write_lock, files, ip_ban_list, worker, pending,
                   kept, loaded, signaller, crashes>>

ReloadStore ==
    /\ fpc = "store"
    /\ ip_ban_list' = loaded
    /\ loaded' = {}
    /\ fpc' = "remove"
    /\ UNCHANGED <<now, inner, write_lock, files, worker, banned, pending, kept,
                   signaller, bounds>>

remove_ips ==
    /\ fpc = "remove"
    /\ records' = [ip \in Ips |-> IF ip \in banned THEN NoRecord ELSE records[ip]]
    /\ banned' = {}
    /\ fpc' = "cleanup"
    /\ UNCHANGED <<now, max_records, last_capacity_cleanup, last_client_cleanup,
                   write_lock, files, ip_ban_list, worker, pending, kept, loaded,
                   signaller, bounds>>

cleanup ==
    /\ fpc = "cleanup"
    /\ records' = retain(records)
    /\ fpc' = "sleep"
    /\ UNCHANGED <<now, max_records, last_capacity_cleanup, last_client_cleanup,
                   write_lock, files, ip_ban_list, worker, banned, pending, kept,
                   loaded, signaller, bounds>>

----------------------------------------------------------------------------
(***************************************************************************)
(* The signal thread: SIGUSR2 runs the same read-then-store reload.        *)
(***************************************************************************)
SignalRead ==
    /\ reload_signals
    /\ spc = "wait"
    /\ sloaded' = ban_file
    /\ spc' = "store"
    /\ UNCHANGED <<now, inner, write_lock, files, ip_ban_list, worker, flusher,
                   bounds>>

SignalStore ==
    /\ spc = "store"
    /\ ip_ban_list' = sloaded
    /\ sloaded' = {}
    /\ spc' = "wait"
    /\ UNCHANGED <<now, inner, write_lock, files, worker, flusher, bounds>>

----------------------------------------------------------------------------
(***************************************************************************)
(* The environment                                                         *)
(***************************************************************************)
Tick ==
    /\ now < MaxNow
    /\ now' = now + 1
    /\ UNCHANGED <<inner, write_lock, files, ip_ban_list, worker, flusher,
                   signaller, bounds>>

\* Startup: new tracker, list read from the file, client bans restored.
load_client_bans ==
    LET parsed == parse_client_ban_lines(client_file)
        expiry(ip) == CHOOSE e \in {l.expire : l \in {m \in parsed : m.ip = ip}} : TRUE
        ips == {l.ip : l \in parsed}
    IN
    /\ records' = [ip \in Ips |-> IF ip \in ips
                      THEN [FreshRecord(now) EXCEPT !.banned_until = expiry(ip)]
                      ELSE NoRecord]
    /\ max_records' = IF ips = {} THEN initial_max_records
                      ELSE record_headroom +
                           (IF Cardinality(ips) > initial_max_records
                            THEN Cardinality(ips) ELSE initial_max_records)

\* Lines being written by the process that dies.
InFlight ==
    {req[w] : w \in {v \in Workers : pc[v] = "append"}}
        \cup (IF fpc = "write" THEN pending ELSE {})

Crash ==
    /\ crashes < MaxCrashes
    /\ crashes' = crashes + 1
    /\ IF InFlight = {} THEN UNCHANGED <<ban_file, tail_newline>>
       ELSE torn_append(InFlight)
    /\ load_client_bans
    /\ ip_ban_list' = ban_file'
    /\ last_capacity_cleanup' = None
    /\ last_client_cleanup' = None
    /\ write_lock' = Free
    /\ pc' = [w \in Workers |-> "idle"]
    /\ req' = [w \in Workers |-> NoIp]
    /\ expire' = [w \in Workers |-> 0]
    /\ barred' = [w \in Workers |-> FALSE]
    /\ fpc' = "sleep" /\ banned' = {} /\ pending' = {}
    /\ kept' = {} /\ loaded' = {}
    /\ spc' = "wait" /\ sloaded' = {}
    /\ UNCHANGED <<now, client_file, failures>>

----------------------------------------------------------------------------
Init ==
    /\ now = 0
    /\ records = [ip \in Ips |-> NoRecord]
    /\ max_records = initial_max_records
    /\ last_capacity_cleanup = None
    /\ last_client_cleanup = None
    /\ write_lock = Free
    /\ ban_file = {} /\ tail_newline = TRUE /\ client_file = {}
    /\ ip_ban_list = {}
    /\ pc = [w \in Workers |-> "idle"]
    /\ req = [w \in Workers |-> NoIp]
    /\ expire = [w \in Workers |-> 0]
    /\ barred = [w \in Workers |-> FALSE]
    /\ fpc = "sleep" /\ banned = {} /\ pending = {} /\ kept = {} /\ loaded = {}
    /\ spc = "wait" /\ sloaded = {}
    /\ crashes = 0 /\ failures = 0

Persist(w) == PersistLock(w) \/ PersistAppend(w) \/ PersistMark(w) \/ Return(w)
                \/ ClientExpiry(w) \/ ClientAppend(w)

WorkerStep(w) ==
    \/ \E ip \in Ips : Arrive(w, ip)
    \/ Lookup(w) \/ Serve(w)
    \/ \E reason \in Reasons : record_violation(w, reason)
    \/ Persist(w)
    \/ PersistFail(w) \/ ClientAppendFail(w)

FlushProgress ==
    \/ maybe_cleanup_client_bans \/ CleanupRename
    \/ FlushSnapshot \/ FlushLock \/ FlushWrite \/ FlushMark
    \/ ReloadRead \/ ReloadStore \/ remove_ips \/ cleanup

FlushStep == FlushProgress \/ CleanupRenameFail \/ FlushFail \/ ReloadFail

SignalStep == SignalRead \/ SignalStore

Next ==
    \/ \E w \in Workers : WorkerStep(w)
    \/ FlushStep
    \/ SignalStep
    \/ Tick
    \/ Crash

Spec == Init /\ [][Next]_vars

\* The threads run: a ban under way is finished and the flush loop never stops.
Fairness == /\ \A w \in Workers : WF_vars(Persist(w))
            /\ WF_vars(FlushProgress)

FairSpec == Spec /\ Fairness
----------------------------------------------------------------------------
(***************************************************************************)
(* Properties                                                              *)
(***************************************************************************)
\* A record marked persisted really has its line in the ban list file
\* (persist_ip and flush_to_file set `persisted' only after write_all, and an
\* append never glues an address to an unterminated last line).
PersistedIsOnDisk ==
    \A ip \in PermanentIn(records) : records[ip].persisted => ip \in ban_file

\* The recheck that persist_ip and flush_to_file make under write_lock is
\* still true when the line is written, so no ban is appended twice by two
\* threads that both saw it unwritten.
AppendNotStale ==
    /\ \A w \in Workers : pc[w] = "append" => Unpersisted(req[w])
    /\ fpc = "write" => \A ip \in pending : Unpersisted(ip)

\* When record_violation returns true for a permanent ban and its write did
\* not fail, the ban is in the file: a restart cannot lose it.
DurableOnReturn == \A w \in Workers : pc[w] = "durable" => req[w] \in ban_file

\* An address that the ban list file names is refused by the tracker or by
\* the loaded list: remove_ips leaves no gap between the two.
NoGap == ban_file \subseteq ip_ban_list \cup PermanentIn(records)

InForce(recs, list, time) ==
    {ip \in Ips : \/ ip \in list
                  \/ recs[ip] # NoRecord /\ is_banned(recs[ip], time)}

\* A ban in force stays in force through every step: no violation, capacity
\* cleanup, flush, reload, hand-over or periodic cleanup lifts it early.  Only
\* a crash may, and only for a ban that is not in the ban list file.
BanStaysInForce ==
    [][\A ip \in InForce(records, ip_ban_list, now') :
          \/ ip \in InForce(records', ip_ban_list', now')
          \/ crashes' # crashes /\ ip \notin ban_file]_vars

\* A request from an address whose permanent ban was in force when the request
\* arrived never passes both lookups, however the two lookups interleave with
\* the hand-over from the tracker to the list.
BarredNotServed == \A w \in Workers : pc[w] = "checked" => ~barred[w]

\* An address that reached the threshold within the window was banned for it:
\* no tracked record stays at or above the threshold without a ban.
NoOffenderLeftUnbanned ==
    \A ip \in Tracked(records) :
        ~records[ip].permanent /\ records[ip].banned_until = None
            => records[ip].count < threshold

\* The map never outgrows its limit, restored client bans included.
RecordsBounded == Cardinality(Tracked(records)) <= max_records

\* The next three state what comments of the code say and the code does not
\* do (README, known divergences).
\* A violation is dropped only when the limit cannot grow any more: a step
\* that grows the limit also tracks the address that did not fit.
GrowsInsteadOfDropping ==
    [][max_records' > max_records /\ crashes' = crashes
          => Tracked(records') \ Tracked(records) # {}]_vars

\* Offence history is forgotten only offense_decay_secs after the last
\* offence, or with the hand-over of a permanent ban, or in a crash.
HistoryKeptUntilDecay ==
    [][\A ip \in Tracked(records) :
          \/ ip \in Tracked(records')
          \/ records[ip].permanent
          \/ records[ip].last_offense = None
          \/ now - records[ip].last_offense >= offense_decay_secs
          \/ crashes' # crashes]_vars

\* An unexpired line of the client ban file disappears only when a later
\* expiry of the same address remains.
ClientBansKeptOnDisk ==
    [][\A l \in client_file \ client_file' :
          \/ l.expire <= now
          \/ \E m \in client_file' : m.ip = l.ip /\ m.expire >= l.expire]_vars

\* The operator never sends SIGUSR2, or keeps sending it.  In between, a last
\* reload that read the file too early may overwrite the list with an older
\* one for good (README, known divergences).
LastReloadNotStale ==
    [](spc = "wait") \/ ([]<>(spc = "store") /\ []<>(spc = "wait"))

\* Every permanent ban is handed over for good: whatever fails finitely often,
\* its line is written, the list is reloaded with it, and from then on the
\* list and the file name the address while the tracker has forgotten it.
EveryBanHandedOver ==
    LastReloadNotStale =>
        \A ip \in Ips :
            ip \in PermanentIn(records)
                ~> [](/\ ip \in ban_file \cap ip_ban_list
                      /\ ip \notin PermanentIn(records))

----------------------------------------------------------------------------
(***************************************************************************)
(* The inductive invariant behind the safety properties                    *)
(***************************************************************************)
\* A worker that handles a request knows its address.
RequestInv == \A w \in Workers : pc[w] # "idle" => req[w] \in Ips

\* write_lock is held by whoever is between its recheck and its unlock.
LockDiscipline ==
    /\ \A w \in Workers : pc[w] \in Locked => write_lock = w
    /\ fpc \in FlusherLocked => write_lock = Flusher

\* What a worker inside persist_ip knows about its address.
WorkerInv ==
    \A w \in Workers :
        /\ pc[w] = "persist" => req[w] \in PermanentIn(records) \cup ban_file
        /\ pc[w] = "append" => Unpersisted(req[w])
        /\ pc[w] \in {"mark", "durable"} => req[w] \in ban_file

\* What the flush thread knows about the addresses it reports: they stay
\* permanent bans in memory, and each is marked persisted before the reload.
FlushInv ==
    /\ fpc \in {"lock", "write", "markall"} =>
          /\ pending \subseteq banned
          /\ banned \subseteq PermanentIn(records)
          /\ \A ip \in banned \ pending : records[ip].persisted
    /\ fpc = "write" => \A ip \in pending : ~records[ip].persisted
    /\ fpc = "markall" => pending \subseteq ban_file
    /\ fpc \in {"read", "store", "remove"} =>
          \A ip \in banned : ip \in PermanentIn(records) /\ records[ip].persisted

DiskInv == LockDiscipline /\ WorkerInv /\ FlushInv /\ PersistedIsOnDisk

\* Without SIGUSR2 the list only grows towards the file, and the flush thread
\* removes from the tracker only what the list already holds.
ListInv ==
    /\ spc = "wait"
    /\ NoGap
    /\ ip_ban_list \subseteq ban_file
    /\ fpc = "store" => /\ ban_file \subseteq loaded \cup PermanentIn(records)
                        /\ ip_ban_list \cup banned \subseteq loaded
                        /\ loaded \subseteq ban_file
    /\ fpc = "remove" => banned \subseteq ip_ban_list

\* A barred request is stopped by whichever source is asked next.
BarredInv ==
    \A w \in Workers : barred[w] =>
        /\ pc[w] = "first" => req[w] \in PermanentIn(records) \cup ip_ban_list
        /\ pc[w] = "second" => req[w] \in ip_ban_list
        /\ pc[w] # "checked"

============================================================================
