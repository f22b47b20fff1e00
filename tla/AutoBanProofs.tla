--------------------------- MODULE AutoBanProofs ---------------------------
(***************************************************************************)
(* Proofs about AutoBan: the type invariant, what the ban list file and    *)
(* the list in memory guarantee about permanent bans, and that a ban in    *)
(* force is not lifted by the hand-over.                                   *)
(***************************************************************************)
EXTENDS AutoBan, TLAPS, FiniteSetTheorems

----------------------------------------------------------------------------
(***************************************************************************)
(* The policy                                                              *)
(***************************************************************************)
\* Every ban duration is a natural number, 0 standing for a permanent ban.
LEMMA BanKindType ==
    ASSUME NEW reason \in Reason, NEW ip \in Ips, NEW offenses \in Nat \ {0}
    PROVE  ban_kind(reason, ip, offenses) \in Nat
<1>1. client_ban_secs(ip) \in Nat
  <2>1. client_jitter(ip) \in Int
    BY ConfigAssumption DEF client_jitter
  <2> QED BY <2>1, ConfigAssumption DEF client_ban_secs
<1>2. offenses <= Len(escalation_steps) => escalation_steps[offenses] \in Nat
  BY ConfigAssumption
<1> QED BY <1>1, <1>2, ConfigAssumption DEF ban_kind, Permanent, tier, Reason

\* What register_offense, apply_ban and a new violation within or after the
\* window make of a record is a record again.
LEMMA OffenseRecord ==
    ASSUME NEW record \in IpRecord, NEW time \in Nat
    PROVE  /\ register_offense(record, time) \in IpRecord
           /\ register_offense(record, time).offenses \in Nat \ {0}
<1> DEFINE decayed == \/ record.last_offense = None
                      \/ time - record.last_offense >= offense_decay_secs
           o == IF decayed THEN 1 ELSE record.offenses + 1
<1>1. o \in Nat \ {0}
  BY DEF IpRecord
<1>2. register_offense(record, time) =
         [record EXCEPT !.offenses = o, !.last_offense = time]
  BY DEF register_offense
<1> HIDE DEF o
<1> QED BY <1>1, <1>2 DEF IpRecord

\* apply_ban turns a record into a record.
LEMMA BanRecord ==
    ASSUME NEW record \in IpRecord, NEW time \in Nat, NEW kind \in Nat
    PROVE  /\ apply_ban(record, kind, time) \in IpRecord
           /\ ~apply_ban(record, kind, time).persisted
<1> DEFINE b == IF kind = Permanent THEN None ELSE time + kind
           p == kind = Permanent
<1>1. b \in Nat \cup {None} /\ p \in BOOLEAN
  OBVIOUS
<1>2. apply_ban(record, kind, time) =
         [record EXCEPT !.banned_until = b, !.permanent = p, !.persisted = FALSE]
  BY DEF apply_ban
<1> HIDE DEF b, p
<1> QED BY <1>1, <1>2 DEF IpRecord

\* The count restart of record_violation turns a record into a record.
LEMMA RenewedRecord ==
    ASSUME NEW record \in IpRecord, NEW time \in Nat
    PROVE  /\ Renewed(record, time) \in IpRecord
           /\ Renewed(record, time).permanent = record.permanent
<1> DEFINE expired == /\ ~record.permanent
                      /\ record.banned_until # None
                      /\ time >= record.banned_until
           outside == time - record.first_violation >= window_secs
           c == IF outside \/ expired THEN 1 ELSE record.count + 1
           f == IF outside \/ expired THEN time ELSE record.first_violation
           b == IF expired THEN None ELSE record.banned_until
           p == IF expired THEN FALSE ELSE record.persisted
<1>1. c \in Nat /\ f \in Nat /\ b \in Nat \cup {None} /\ p \in BOOLEAN
  <2> HIDE DEF expired, outside
  <2>1. c \in Nat /\ f \in Nat
    BY DEF IpRecord
  <2>2. b \in Nat \cup {None}
    BY DEF IpRecord
  <2>3. p \in BOOLEAN
    BY DEF IpRecord
  <2> QED BY <2>1, <2>2, <2>3
<1>2. Renewed(record, time) =
         [record EXCEPT !.count = c, !.first_violation = f,
                        !.banned_until = b, !.persisted = p]
  BY DEF Renewed
<1> HIDE DEF c, f, b, p
<1> QED BY <1>1, <1>2 DEF IpRecord

\* Setting `persisted' turns a record into a record.
LEMMA MarkedRecord ==
    ASSUME NEW record \in IpRecord
    PROVE  /\ [record EXCEPT !.persisted = TRUE] \in IpRecord
           /\ [record EXCEPT !.persisted = TRUE].persisted
           /\ [record EXCEPT !.persisted = TRUE].permanent = record.permanent
BY DEF IpRecord

\* A violation keeps the record well formed, and a permanent ban it issues is
\* not marked persisted yet.
LEMMA ViolatedRecord ==
    ASSUME NEW record \in IpRecord \cup {NoRecord}, NEW reason \in Reason,
           NEW ip \in Ips, NEW time \in Nat,
           record # NoRecord => ~record.permanent
    PROVE  /\ Violated(record, reason, ip, time) \in IpRecord
           /\ Violated(record, reason, ip, time).permanent =>
                 /\ Triggered(record, reason, time)
                 /\ ~Violated(record, reason, ip, time).persisted
<1> DEFINE counted == Counted(record, time)
           offended == register_offense(counted, time)
           kind == ban_kind(reason, ip, offended.offenses)
<1>1. counted \in IpRecord /\ ~counted.permanent
  <2>1. CASE record = NoRecord
    BY <2>1 DEF Counted, FreshRecord, IpRecord, None
  <2>2. CASE record # NoRecord
    BY <2>2, RenewedRecord DEF Counted
  <2> QED BY <2>1, <2>2
<1>2. offended \in IpRecord /\ offended.offenses \in Nat \ {0}
  BY <1>1, OffenseRecord
<1>3. kind \in Nat
  BY <1>2, BanKindType
<1>4. /\ apply_ban(offended, kind, time) \in IpRecord
      /\ ~apply_ban(offended, kind, time).persisted
  BY <1>2, <1>3, BanRecord
<1>5. CASE Triggered(record, reason, time)
  BY <1>4, <1>5 DEF Violated, Punish
<1>6. CASE ~Triggered(record, reason, time)
  BY <1>1, <1>6 DEF Violated
<1> QED BY <1>5, <1>6

----------------------------------------------------------------------------
(***************************************************************************)
(* Type correctness                                                        *)
(***************************************************************************)
TypeInv == TypeOK /\ RequestInv

\* Moving a worker on keeps the worker's variables well typed.
LEMMA GotoType ==
    ASSUME TypeInv, NEW w \in Workers, NEW label \in WorkerPc,
           label # "idle" => req[w] \in Ips, Goto(w, label)
    PROVE  /\ pc' \in [Workers -> WorkerPc]
           /\ req' \in [Workers -> Ips \cup {NoIp}]
           /\ expire' \in [Workers -> Nat]
           /\ barred' \in [Workers -> BOOLEAN]
           /\ RequestInv'
BY DEF TypeInv, TypeOK, RequestInv, Goto, WorkerPc

\* Pruning keeps records well typed and every permanent ban as it is.
LEMMA RetainRecords ==
    ASSUME NEW recs \in [Ips -> IpRecord \cup {NoRecord}]
    PROVE  /\ retain(recs) \in [Ips -> IpRecord \cup {NoRecord}]
           /\ \A ip \in PermanentIn(recs) : retain(recs)[ip] = recs[ip]
           /\ PermanentIn(retain(recs)) = PermanentIn(recs)
BY DEF retain, PermanentIn, Retainable, is_banned

\* A violation changes only what is not a permanent ban, and a permanent ban
\* it issues is still to be written.
LEMMA ViolationRecords ==
    ASSUME TypeInv, NEW w \in Workers, NEW reason \in Reasons,
           record_violation(w, reason)
    PROVE  /\ records' \in [Ips -> IpRecord \cup {NoRecord}]
           /\ \A ip \in PermanentIn(records) : records'[ip] = records[ip]
           /\ \A ip \in PermanentIn(records') \ PermanentIn(records) :
                 ~records'[ip].persisted
           /\ pc'[w] \in {"idle", "persist", "client"}
           /\ pc'[w] = "persist" => req[w] \in PermanentIn(records')
           /\ \E label \in {"idle", "persist", "client"} : Goto(w, label)
<1> DEFINE ip == req[w]
<1>1. ip \in Ips /\ records \in [Ips -> IpRecord \cup {NoRecord}] /\ now \in Nat
      /\ pc \in [Workers -> WorkerPc] /\ reason \in Reason
  BY TrackerAssumption DEF TypeInv, TypeOK, RequestInv, record_violation
<1>2. CASE is_auto_banned(ip) /\ Goto(w, "idle") /\ UNCHANGED inner
  BY <1>1, <1>2 DEF inner, Goto, PermanentIn
<1>3. /\ RoomMade(ip) \in [Ips -> IpRecord \cup {NoRecord}]
      /\ \A i \in PermanentIn(records) : RoomMade(ip)[i] = records[i]
      /\ PermanentIn(RoomMade(ip)) = PermanentIn(records)
  BY <1>1, RetainRecords DEF RoomMade
<1>4. CASE GrowLimit(ip) /\ Goto(w, "idle")
  BY <1>1, <1>3, <1>4 DEF GrowLimit, Goto
<1>5. CASE /\ ~is_auto_banned(ip)
           /\ Count(ip, reason)
           /\ Goto(w, AfterViolation(ip, reason))
  <2> DEFINE old == RoomMade(ip)[ip]
             new == Violated(old, reason, ip, now)
  <2>1. ip \notin PermanentIn(records)
    BY <1>5 DEF is_auto_banned, PermanentIn, is_banned
  <2>2. old \in IpRecord \cup {NoRecord} /\ (old # NoRecord => ~old.permanent)
    BY <1>1, <1>3, <2>1 DEF PermanentIn
  <2>3. new \in IpRecord /\ (new.permanent => ~new.persisted)
    BY <1>1, <2>2, ViolatedRecord
  <2>4. records' = [RoomMade(ip) EXCEPT ![ip] = new]
    BY <1>5 DEF Count
  <2> HIDE DEF old, new
  <2>5. /\ records' \in [Ips -> IpRecord \cup {NoRecord}]
        /\ \A i \in PermanentIn(records) : records'[i] = records[i]
        /\ \A i \in PermanentIn(records') \ PermanentIn(records) :
              ~records'[i].persisted
    BY <1>1, <1>3, <2>1, <2>3, <2>4 DEF PermanentIn
  <2>6. /\ AfterViolation(ip, reason) \in {"idle", "persist", "client"}
        /\ AfterViolation(ip, reason) = "persist" => records'[ip].permanent
    BY DEF AfterViolation
  <2>7. records'[ip] # NoRecord
    BY <1>1, <1>3, <2>3, <2>4, ConfigAssumption
  <2>8. pc'[w] = AfterViolation(ip, reason)
    BY <1>1, <1>5 DEF Goto
  <2> QED BY <1>1, <1>5, <2>5, <2>6, <2>7, <2>8 DEF PermanentIn
<1> QED BY <1>2, <1>4, <1>5 DEF record_violation

\* A torn or complete append leaves addresses on complete lines, and a
\* complete one leaves all of its own: the separator is written when needed.
LEMMA AppendWrites ==
    ASSUME TypeInv, NEW ips \in SUBSET Ips, append_lines(ips)
    PROVE  ban_file' = ban_file \cup ips /\ tail_newline' = TRUE
<1>1. tail_newline \/ Separator
  BY DEF TypeInv, TypeOK, Separator, file_ends_with_newline
<1> QED BY <1>1 DEF append_lines

\* Every step of a socket worker preserves the types.
LEMMA WorkerType ==
    ASSUME TypeInv, NEW w \in Workers, WorkerStep(w)
    PROVE  TypeInv'
<1> USE DEF TypeInv
<1>1. ASSUME NEW ip \in Ips, Arrive(w, ip) PROVE TypeInv'
  BY <1>1 DEF TypeOK, RequestInv, Arrive, inner, files, flusher, signaller,
              bounds, WorkerPc
<1>2. ASSUME Lookup(w) PROVE TypeInv'
  <2> DEFINE label == IF SourceBans(w, pc[w]) THEN "idle"
                      ELSE IF pc[w] = "first" THEN "second" ELSE "checked"
  <2>1. label \in WorkerPc /\ req[w] \in Ips /\ Goto(w, label)
    BY <1>2 DEF Lookup, RequestInv, WorkerPc
  <2> HIDE DEF label
  <2>2. UNCHANGED <<now, inner, write_lock, files, ip_ban_list, flusher,
                    signaller, bounds>>
    BY <1>2 DEF Lookup
  <2> QED BY <2>1, <2>2, GotoType DEF TypeOK, inner, files, flusher, signaller, bounds
<1>3. ASSUME Serve(w) \/ Return(w) PROVE TypeInv'
  <2>1. Goto(w, "idle") /\ "idle" \in WorkerPc
    BY <1>3 DEF Serve, Return, WorkerPc
  <2> QED BY <1>3, <2>1, GotoType
          DEF TypeOK, Serve, Return, inner, files, flusher, signaller, bounds
<1>4. ASSUME NEW reason \in Reasons, record_violation(w, reason) PROVE TypeInv'
  <2>1. PICK label \in {"idle", "persist", "client"} : Goto(w, label)
    BY <1>4, ViolationRecords
  <2>2. label \in WorkerPc /\ req[w] \in Ips
    BY <1>4 DEF record_violation, RequestInv, WorkerPc
  <2>3. /\ max_records' \in Nat
        /\ last_capacity_cleanup' \in Nat \cup {None}
        /\ last_client_cleanup' = last_client_cleanup
    BY <1>4, TrackerAssumption
       DEF record_violation, GrowLimit, Count, Grown, inner, TypeOK
  <2>4. records' \in [Ips -> IpRecord \cup {NoRecord}]
    BY <1>4, ViolationRecords
  <2> QED BY <1>4, <2>1, <2>2, <2>3, <2>4, GotoType
          DEF record_violation, TypeOK, files, flusher, signaller, bounds
<1>5. ASSUME PersistLock(w) PROVE TypeInv'
  <2>1. PICK label \in {"append", "durable"} : Goto(w, label)
    BY <1>5 DEF PersistLock
  <2>2. label \in WorkerPc /\ req[w] \in Ips
    BY <1>5 DEF PersistLock, RequestInv, WorkerPc
  <2> QED BY <1>5, <2>1, <2>2, GotoType
          DEF PersistLock, TypeOK, inner, files, flusher, signaller, bounds
<1>6. ASSUME PersistAppend(w) PROVE TypeInv'
  <2>1. req[w] \in Ips /\ "mark" \in WorkerPc /\ Goto(w, "mark")
    BY <1>6 DEF PersistAppend, RequestInv, WorkerPc
  <2>2. ban_file' = ban_file \cup {req[w]} /\ tail_newline' = TRUE
    BY <1>6, <2>1, AppendWrites DEF PersistAppend
  <2> QED BY <1>6, <2>1, <2>2, GotoType
          DEF PersistAppend, TypeOK, inner, flusher, signaller, bounds
<1>7. ASSUME PersistFail(w) PROVE TypeInv'
  <2>1. req[w] \in Ips /\ "idle" \in WorkerPc /\ Goto(w, "idle")
    BY <1>7 DEF PersistFail, RequestInv, WorkerPc
  <2>2. ban_file' \subseteq Ips /\ tail_newline' \in BOOLEAN
    BY <1>7, <2>1 DEF PersistFail, torn_append, TypeOK
  <2> QED BY <1>7, <2>1, <2>2, GotoType
          DEF PersistFail, TypeOK, inner, flusher, signaller
<1>8. ASSUME PersistMark(w) PROVE TypeInv'
  <2>1. req[w] \in Ips /\ "durable" \in WorkerPc /\ Goto(w, "durable")
    BY <1>8 DEF PersistMark, RequestInv, WorkerPc
  <2>2. records' \in [Ips -> IpRecord \cup {NoRecord}]
    BY <1>8, <2>1, MarkedRecord DEF PersistMark, TypeOK, PermanentIn
  <2> QED BY <1>8, <2>1, <2>2, GotoType
          DEF PersistMark, TypeOK, files, flusher, signaller, bounds
<1>9. ASSUME ClientExpiry(w) PROVE TypeInv'
  <2>1. req[w] \in Ips /\ "idle" \in WorkerPc /\ "clientline" \in WorkerPc
    BY <1>9 DEF ClientExpiry, RequestInv, WorkerPc
  <2> DEFINE record == records[req[w]]
             e == IF record.banned_until < now THEN now ELSE record.banned_until
  <2>2. CASE /\ record # NoRecord /\ record.banned_until # None
             /\ pc' = [pc EXCEPT ![w] = "clientline"]
             /\ expire' = [expire EXCEPT ![w] = e]
             /\ UNCHANGED <<req, barred>>
    <3>1. e \in Nat
      BY <2>1, <2>2 DEF TypeOK, IpRecord
    <3> HIDE DEF e
    <3> QED BY <1>9, <2>1, <2>2, <3>1
            DEF ClientExpiry, TypeOK, RequestInv, inner, files, flusher,
                signaller, bounds
  <2>3. CASE Goto(w, "idle")
    BY <1>9, <2>1, <2>3, GotoType
       DEF ClientExpiry, TypeOK, inner, files, flusher, signaller, bounds
  <2> QED BY <1>9, <2>2, <2>3 DEF ClientExpiry
<1>10. ASSUME ClientAppend(w) \/ ClientAppendFail(w) PROVE TypeInv'
  <2>1. req[w] \in Ips /\ "idle" \in WorkerPc /\ Goto(w, "idle")
    BY <1>10 DEF ClientAppend, ClientAppendFail, RequestInv, WorkerPc
  <2>2. client_file' \subseteq ClientLine
    BY <1>10, <2>1 DEF ClientAppend, ClientAppendFail, TypeOK, ClientLine, files
  <2> QED BY <1>10, <2>1, <2>2, GotoType
          DEF ClientAppend, ClientAppendFail, TypeOK, inner, files, flusher,
              signaller, bounds
<1> QED BY <1>1, <1>2, <1>3, <1>4, <1>5, <1>6, <1>7, <1>8, <1>9, <1>10
        DEF WorkerStep, Persist

\* Every step of the auto-ban-flush thread preserves the types.
LEMMA FlushType ==
    ASSUME TypeInv, FlushStep
    PROVE  TypeInv'
<1> USE DEF TypeInv
<1>1. CASE maybe_cleanup_client_bans
  BY <1>1 DEF maybe_cleanup_client_bans, parse_client_ban_lines, TypeOK,
              RequestInv, files, worker, signaller, bounds, FlusherPc
<1>2. CASE CleanupRename \/ CleanupRenameFail
  BY <1>2 DEF CleanupRename, CleanupRenameFail, TypeOK, RequestInv, inner,
              files, worker, signaller, bounds, FlusherPc
<1>3. CASE FlushSnapshot
  BY <1>3 DEF FlushSnapshot, PermanentIn, TypeOK, RequestInv, inner, files,
              worker, signaller, bounds, FlusherPc
<1>4. CASE FlushLock
  BY <1>4 DEF FlushLock, TypeOK, RequestInv, inner, files, worker, signaller,
              bounds, FlusherPc
<1>5. CASE FlushWrite
  <2>1. ban_file' = ban_file \cup pending /\ tail_newline' = TRUE
    BY <1>5, AppendWrites DEF FlushWrite, TypeOK
  <2> QED BY <1>5, <2>1 DEF FlushWrite, TypeOK, RequestInv, inner, worker,
                            signaller, bounds, FlusherPc
<1>6. CASE FlushFail
  <2>1. ban_file' \subseteq Ips /\ tail_newline' \in BOOLEAN
    BY <1>6 DEF FlushFail, torn_append, TypeOK
  <2> QED BY <1>6, <2>1 DEF FlushFail, TypeOK, RequestInv, inner, worker,
                            signaller, FlusherPc
<1>7. CASE FlushMark
  <2>1. records' \in [Ips -> IpRecord \cup {NoRecord}]
    BY <1>7, MarkedRecord DEF FlushMark, TypeOK
  <2> QED BY <1>7, <2>1 DEF FlushMark, TypeOK, RequestInv, files, worker,
                            signaller, bounds, FlusherPc
<1>8. CASE ReloadRead \/ ReloadFail \/ ReloadStore
  BY <1>8 DEF ReloadRead, ReloadFail, ReloadStore, TypeOK, RequestInv, inner,
              files, worker, signaller, bounds, FlusherPc
<1>9. CASE remove_ips
  BY <1>9 DEF remove_ips, TypeOK, RequestInv, files, worker, signaller, bounds,
              FlusherPc
<1>10. CASE cleanup
  <2>1. records' \in [Ips -> IpRecord \cup {NoRecord}]
    BY <1>10, RetainRecords DEF cleanup, TypeOK
  <2> QED BY <1>10, <2>1 DEF cleanup, TypeOK, RequestInv, files, worker,
                             signaller, bounds, FlusherPc
<1> QED BY <1>1, <1>2, <1>3, <1>4, <1>5, <1>6, <1>7, <1>8, <1>9, <1>10
        DEF FlushStep, FlushProgress

\* After a restart the tracker holds the restored client bans and nothing else.
LEMMA RestartRecords ==
    ASSUME TypeInv, load_client_bans
    PROVE  /\ records' \in [Ips -> IpRecord \cup {NoRecord}]
           /\ PermanentIn(records') = {}
           /\ max_records' \in Nat
<1> DEFINE parsed == parse_client_ban_lines(client_file)
           expiries(ip) == {l.expire : l \in {m \in parsed : m.ip = ip}}
           expiry(ip) == CHOOSE e \in expiries(ip) : TRUE
           ips == {l.ip : l \in parsed}
           restored(ip) == [FreshRecord(now) EXCEPT !.banned_until = expiry(ip)]
<1>1. parsed \subseteq ClientLine /\ now \in Nat
  BY DEF parse_client_ban_lines, TypeInv, TypeOK
<1>2. \A ip \in ips : expiry(ip) \in Nat
  <2> SUFFICES ASSUME NEW ip \in ips PROVE expiry(ip) \in Nat
    OBVIOUS
  <2>1. expiries(ip) # {} /\ expiries(ip) \subseteq Nat
    BY <1>1 DEF ClientLine
  <2> QED BY <2>1
<1>3. ips \subseteq Ips /\ Cardinality(ips) \in Nat
  <2>1. ips \subseteq Ips
    BY <1>1 DEF ClientLine
  <2> QED BY <2>1, TrackerAssumption, FS_Subset, FS_CardinalityType
<1>4. \A ip \in ips : restored(ip) \in IpRecord /\ ~restored(ip).permanent
  BY <1>1, <1>2 DEF FreshRecord, IpRecord, None
<1>5. records' = [ip \in Ips |-> IF ip \in ips THEN restored(ip) ELSE NoRecord]
  BY DEF load_client_bans
<1>6. max_records' \in Nat
  BY <1>3, TrackerAssumption DEF load_client_bans
<1> HIDE DEF ips, restored
<1> QED BY <1>3, <1>4, <1>5, <1>6 DEF PermanentIn

\* TypeOK and RequestInv hold in every reachable state.
LEMMA TypeInvariant == Spec => []TypeInv
<1>1. Init => TypeInv
  BY TrackerAssumption
     DEF Init, TypeInv, TypeOK, RequestInv, WorkerPc, FlusherPc
<1>2. TypeInv /\ [Next]_vars => TypeInv'
  <2> SUFFICES ASSUME TypeInv, [Next]_vars PROVE TypeInv'
    OBVIOUS
  <2>1. ASSUME NEW w \in Workers, WorkerStep(w) PROVE TypeInv'
    BY <2>1, WorkerType
  <2>2. CASE FlushStep
    BY <2>2, FlushType
  <2>3. CASE SignalStep
    BY <2>3 DEF SignalStep, SignalRead, SignalStore, TypeInv, TypeOK, RequestInv,
                inner, files, worker, flusher, bounds
  <2>4. CASE Tick
    BY <2>4 DEF Tick, TypeInv, TypeOK, RequestInv, inner, files, worker, flusher,
                signaller, bounds
  <2>5. CASE Crash
    <3>1. InFlight \subseteq Ips
      BY DEF InFlight, TypeInv, TypeOK, RequestInv
    <3>2. ban_file' \subseteq Ips /\ tail_newline' \in BOOLEAN
      BY <2>5, <3>1 DEF Crash, torn_append, TypeInv, TypeOK
    <3> QED BY <2>5, <3>2, RestartRecords
            DEF Crash, TypeInv, TypeOK, RequestInv, WorkerPc, FlusherPc
  <2>6. CASE UNCHANGED vars
    BY <2>6 DEF vars, TypeInv, TypeOK, RequestInv, inner, files, worker, flusher,
                signaller, bounds
  <2> QED BY <2>1, <2>2, <2>3, <2>4, <2>5, <2>6 DEF Next
<1> QED BY <1>1, <1>2, PTL DEF Spec

\* Type correctness: every step of every thread, and a crash with restart,
\* keeps the state well typed.
THEOREM TypeCorrect == Spec => []TypeOK
<1>1. TypeInv => TypeOK
  BY DEF TypeInv
<1> QED BY <1>1, TypeInvariant, PTL

----------------------------------------------------------------------------
(***************************************************************************)
(* The ban list file: DiskInv is preserved by every step                   *)
(***************************************************************************)
\* A step that leaves the file, the lock, the flush thread and the permanent
\* bans alone, and moves worker w to a place outside persist_ip.
LEMMA DiskInvGoto ==
    ASSUME TypeInv, DiskInv, NEW w \in Workers,
           NEW label \in {"idle", "second", "checked", "client"}, Goto(w, label),
           UNCHANGED <<records, write_lock, ban_file, fpc, banned, pending>>
    PROVE  DiskInv'
<1>1. \A v \in Workers : /\ v # w => pc'[v] = pc[v] /\ req'[v] = req[v]
                         /\ pc'[w] = label
  BY DEF Goto, TypeInv, TypeOK
<1>2. LockDiscipline'
  BY <1>1 DEF DiskInv, LockDiscipline, Locked
<1>3. WorkerInv'
  BY <1>1 DEF DiskInv, WorkerInv, Unpersisted
<1>4. FlushInv' /\ PersistedIsOnDisk'
  BY DEF DiskInv, FlushInv, PersistedIsOnDisk
<1> QED BY <1>2, <1>3, <1>4 DEF DiskInv

\* record_violation preserves DiskInv: it never touches a permanent record.
LEMMA DiskInvViolation ==
    ASSUME TypeInv, DiskInv, NEW w \in Workers, NEW reason \in Reasons,
           record_violation(w, reason)
    PROVE  DiskInv'
<1>1. /\ \A ip \in PermanentIn(records) : records'[ip] = records[ip]
      /\ \A ip \in PermanentIn(records') \ PermanentIn(records) :
            ~records'[ip].persisted
      /\ pc'[w] \in {"idle", "persist", "client"}
      /\ pc'[w] = "persist" => req[w] \in PermanentIn(records')
      /\ \E label \in {"idle", "persist", "client"} : Goto(w, label)
  BY ViolationRecords
<1>2. UNCHANGED <<write_lock, ban_file, fpc, banned, pending>>
  BY DEF record_violation, files, flusher
<1>3. /\ \A v \in Workers : v # w => pc'[v] = pc[v] /\ req'[v] = req[v]
      /\ pc'[w] # "idle" => req'[w] = req[w]
  BY <1>1 DEF Goto, TypeInv, TypeOK
<1>4. PermanentIn(records) \subseteq PermanentIn(records')
  BY <1>1 DEF PermanentIn
<1>5. LockDiscipline'
  BY <1>1, <1>2, <1>3 DEF DiskInv, LockDiscipline, Locked
<1>6. WorkerInv'
  BY <1>1, <1>2, <1>3, <1>4 DEF DiskInv, WorkerInv, Unpersisted
<1>7. FlushInv'
  <2>1. banned \subseteq PermanentIn(records) =>
           \A ip \in banned : records'[ip] = records[ip]
    BY <1>1
  <2> QED BY <1>2, <1>4, <2>1 DEF DiskInv, FlushInv
<1>8. PersistedIsOnDisk'
  BY <1>1, <1>2 DEF DiskInv, PersistedIsOnDisk
<1> QED BY <1>5, <1>6, <1>7, <1>8 DEF DiskInv

\* persist_ip preserves DiskInv: what was rechecked under write_lock is still
\* true at the append, and what is marked has been written.
LEMMA DiskInvPersist ==
    ASSUME TypeInv, DiskInv, NEW w \in Workers,
           PersistLock(w) \/ PersistAppend(w) \/ PersistFail(w) \/ PersistMark(w)
    PROVE  DiskInv'
<1>0. /\ pc \in [Workers -> WorkerPc] /\ req \in [Workers -> Ips \cup {NoIp}]
      /\ records \in [Ips -> IpRecord \cup {NoRecord}]
      /\ pc[w] # "idle" /\ req[w] \in Ips
  BY DEF TypeInv, TypeOK, RequestInv, PersistLock, PersistAppend, PersistFail,
         PersistMark
<1>1. CASE PersistLock(w) /\ Unpersisted(req[w])
  <2>1. /\ pc' = [pc EXCEPT ![w] = "append"] /\ req' = req
        /\ write_lock = Free /\ write_lock' = w
        /\ UNCHANGED <<records, ban_file, fpc, banned, pending>>
    BY <1>1 DEF PersistLock, Goto, inner, files, flusher
  <2>2. LockDiscipline'
    BY <1>0, <2>1, TrackerAssumption DEF DiskInv, LockDiscipline
  <2>3. WorkerInv'
    BY <1>0, <1>1, <2>1 DEF DiskInv, WorkerInv, Unpersisted
  <2>4. FlushInv' /\ PersistedIsOnDisk'
    BY <2>1 DEF DiskInv, FlushInv, PersistedIsOnDisk
  <2> QED BY <2>2, <2>3, <2>4 DEF DiskInv
<1>2. CASE PersistLock(w) /\ ~Unpersisted(req[w])
  <2>1. /\ pc' = [pc EXCEPT ![w] = "durable"] /\ req' = req
        /\ UNCHANGED <<write_lock, records, ban_file, fpc, banned, pending>>
    BY <1>2 DEF PersistLock, Goto, inner, files, flusher
  <2>2. req[w] \in ban_file
    BY <1>0, <1>2
       DEF DiskInv, WorkerInv, Unpersisted, PersistedIsOnDisk, PersistLock
  <2>3. LockDiscipline'
    BY <1>0, <2>1 DEF DiskInv, LockDiscipline, Locked
  <2>4. WorkerInv'
    BY <1>0, <2>1, <2>2 DEF DiskInv, WorkerInv, Unpersisted
  <2>5. FlushInv' /\ PersistedIsOnDisk'
    BY <2>1 DEF DiskInv, FlushInv, PersistedIsOnDisk
  <2> QED BY <2>3, <2>4, <2>5 DEF DiskInv
<1>3. CASE PersistAppend(w)
  <2>1. /\ pc[w] = "append" /\ pc' = [pc EXCEPT ![w] = "mark"] /\ req' = req
        /\ UNCHANGED <<write_lock, records, fpc, banned, pending>>
    BY <1>3 DEF PersistAppend, Goto, inner, flusher
  <2>2. ban_file' = ban_file \cup {req[w]}
    BY <1>0, <1>3, AppendWrites DEF PersistAppend
  <2>3. LockDiscipline'
    BY <1>0, <2>1 DEF DiskInv, LockDiscipline, Locked
  <2>4. WorkerInv'
    BY <1>0, <2>1, <2>2 DEF DiskInv, WorkerInv, Unpersisted
  <2>5. FlushInv' /\ PersistedIsOnDisk'
    BY <2>1, <2>2 DEF DiskInv, FlushInv, PersistedIsOnDisk
  <2> QED BY <2>3, <2>4, <2>5 DEF DiskInv
<1>4. CASE PersistFail(w)
  <2>1. /\ pc[w] = "append" /\ pc' = [pc EXCEPT ![w] = "idle"]
        /\ \A v \in Workers : v # w => req'[v] = req[v]
        /\ write_lock' = Free
        /\ UNCHANGED <<records, fpc, banned, pending>>
    BY <1>0, <1>4 DEF PersistFail, Goto, inner, flusher
  <2>2. ban_file \subseteq ban_file'
    BY <1>4 DEF PersistFail, torn_append
  <2>3. LockDiscipline'
    BY <1>0, <2>1, TrackerAssumption DEF DiskInv, LockDiscipline, Locked
  <2>4. WorkerInv'
    BY <1>0, <2>1, <2>2 DEF DiskInv, WorkerInv, Unpersisted
  <2>5. FlushInv' /\ PersistedIsOnDisk'
    BY <2>1, <2>2 DEF DiskInv, FlushInv, PersistedIsOnDisk
  <2> QED BY <2>3, <2>4, <2>5 DEF DiskInv
<1>5. CASE PersistMark(w)
  <2>1. /\ pc[w] = "mark" /\ pc' = [pc EXCEPT ![w] = "durable"] /\ req' = req
        /\ write_lock = w /\ write_lock' = Free
        /\ UNCHANGED <<ban_file, fpc, banned, pending>>
    BY <1>5 DEF PersistMark, Goto, files, flusher, DiskInv, LockDiscipline, Locked
  <2>2. req[w] \in ban_file
    BY <2>1 DEF DiskInv, WorkerInv
  <2>3. /\ PermanentIn(records') = PermanentIn(records)
        /\ \A ip \in PermanentIn(records) :
              /\ records[ip].persisted => records'[ip].persisted
              /\ ip # req[w] => records'[ip] = records[ip]
    BY <1>0, <1>5, MarkedRecord, ConfigAssumption DEF PersistMark, PermanentIn
  <2>4. /\ \A v \in Workers : v # w => pc[v] \notin Locked
        /\ fpc \notin FlusherLocked
    BY <2>1, TrackerAssumption DEF DiskInv, LockDiscipline
  <2>5. LockDiscipline'
    BY <1>0, <2>1, <2>4 DEF LockDiscipline, Locked
  <2>6. WorkerInv'
    BY <1>0, <2>1, <2>2, <2>3, <2>4 DEF DiskInv, WorkerInv, Unpersisted, Locked
  <2>7. FlushInv'
    BY <2>1, <2>3, <2>4 DEF DiskInv, FlushInv, FlusherLocked
  <2>8. PersistedIsOnDisk'
    BY <2>1, <2>2, <2>3 DEF DiskInv, PersistedIsOnDisk
  <2> QED BY <2>5, <2>6, <2>7, <2>8 DEF DiskInv
<1> QED BY <1>1, <1>2, <1>3, <1>4, <1>5

\* The remaining steps of a worker: requests, lookups and client bans.
LEMMA DiskInvWorker ==
    ASSUME TypeInv, DiskInv, NEW w \in Workers, WorkerStep(w)
    PROVE  DiskInv'
<1>1. ASSUME NEW ip \in Ips, Arrive(w, ip) PROVE DiskInv'
  <2>1. /\ pc' = [pc EXCEPT ![w] = "first"] /\ req' = [req EXCEPT ![w] = ip]
        /\ UNCHANGED <<records, write_lock, ban_file, fpc, banned, pending>>
    BY <1>1 DEF Arrive, inner, files, flusher
  <2>2. pc \in [Workers -> WorkerPc] /\ req \in [Workers -> Ips \cup {NoIp}]
    BY DEF TypeInv, TypeOK
  <2>3. LockDiscipline' /\ WorkerInv'
    BY <2>1, <2>2 DEF DiskInv, LockDiscipline, Locked, WorkerInv, Unpersisted
  <2>4. FlushInv' /\ PersistedIsOnDisk'
    BY <2>1 DEF DiskInv, FlushInv, PersistedIsOnDisk
  <2> QED BY <2>3, <2>4 DEF DiskInv
<1>2. ASSUME Lookup(w) PROVE DiskInv'
  <2>1. \E label \in {"idle", "second", "checked", "client"} : Goto(w, label)
    BY <1>2 DEF Lookup
  <2> QED BY <1>2, <2>1, DiskInvGoto DEF Lookup, inner, files, flusher
<1>3. ASSUME \/ Serve(w) \/ Return(w)
             \/ ClientAppend(w) \/ ClientAppendFail(w)
      PROVE  DiskInv'
  <2>1. Goto(w, "idle")
    BY <1>3 DEF Serve, Return, ClientAppend, ClientAppendFail
  <2> QED BY <1>3, <2>1, DiskInvGoto
          DEF Serve, Return, ClientAppend, ClientAppendFail, inner, files, flusher
<1>4. ASSUME ClientExpiry(w) PROVE DiskInv'
  <2>1. UNCHANGED <<records, write_lock, ban_file, fpc, banned, pending>>
    BY <1>4 DEF ClientExpiry, inner, files, flusher
  <2>2. CASE Goto(w, "idle")
    BY <2>1, <2>2, DiskInvGoto
  <2>3. CASE pc' = [pc EXCEPT ![w] = "clientline"] /\ req' = req
    <3>1. pc \in [Workers -> WorkerPc]
      BY DEF TypeInv, TypeOK
    <3>2. LockDiscipline' /\ WorkerInv'
      BY <2>1, <2>3, <3>1
         DEF DiskInv, LockDiscipline, Locked, WorkerInv, Unpersisted
    <3>3. FlushInv' /\ PersistedIsOnDisk'
      BY <2>1 DEF DiskInv, FlushInv, PersistedIsOnDisk
    <3> QED BY <3>2, <3>3 DEF DiskInv
  <2> QED BY <1>4, <2>2, <2>3 DEF ClientExpiry
<1> QED BY <1>1, <1>2, <1>3, <1>4, DiskInvViolation, DiskInvPersist
        DEF WorkerStep, Persist

\* Every step of the flush thread preserves DiskInv.
LEMMA DiskInvFlush ==
    ASSUME TypeInv, DiskInv, FlushStep
    PROVE  DiskInv'
<1>0. /\ records \in [Ips -> IpRecord \cup {NoRecord}] /\ pending \subseteq Ips
      /\ pc \in [Workers -> WorkerPc] /\ req \in [Workers -> Ips \cup {NoIp}]
      /\ RequestInv
  BY DEF TypeInv, TypeOK
<1> USE DEF DiskInv
<1>1. CASE \/ maybe_cleanup_client_bans \/ CleanupRename \/ CleanupRenameFail
  BY <1>1 DEF maybe_cleanup_client_bans, CleanupRename, CleanupRenameFail,
              LockDiscipline, FlusherLocked, WorkerInv, Unpersisted, FlushInv,
              PersistedIsOnDisk, inner, files, worker
<1>2. CASE FlushSnapshot
  BY <1>2 DEF FlushSnapshot, LockDiscipline, FlusherLocked, WorkerInv,
              Unpersisted, FlushInv, PersistedIsOnDisk, PermanentIn,
              inner, files, worker
<1>3. CASE FlushLock
  <2>1. LockDiscipline'
    BY <1>3, TrackerAssumption
       DEF FlushLock, LockDiscipline, FlusherLocked, Locked, worker
  <2>2. WorkerInv' /\ PersistedIsOnDisk'
    BY <1>3 DEF FlushLock, WorkerInv, Unpersisted, PersistedIsOnDisk,
                inner, files, worker
  <2>3. FlushInv'
    BY <1>3 DEF FlushLock, FlushInv, inner, PermanentIn
  <2> QED BY <2>1, <2>2, <2>3
<1>4. CASE FlushWrite
  <2>1. ban_file' = ban_file \cup pending
    BY <1>0, <1>4, AppendWrites DEF FlushWrite
  <2> QED BY <1>4, <2>1 DEF FlushWrite, LockDiscipline, FlusherLocked, WorkerInv,
              Unpersisted, FlushInv, PersistedIsOnDisk, inner, worker
<1>5. CASE FlushFail
  <2>1. ban_file \subseteq ban_file'
    BY <1>5 DEF FlushFail, torn_append
  <2>2. LockDiscipline'
    BY <1>5, TrackerAssumption
       DEF FlushFail, LockDiscipline, FlusherLocked, Locked, worker
  <2> QED BY <1>5, <2>1, <2>2 DEF FlushFail, WorkerInv, Unpersisted, FlushInv,
              PersistedIsOnDisk, inner, worker
<1>6. CASE FlushMark
  <2>1. /\ fpc = "markall" /\ fpc' = "read" /\ write_lock = Flusher
        /\ write_lock' = Free
        /\ UNCHANGED <<ban_file, pc, req, banned>>
    BY <1>6 DEF FlushMark, LockDiscipline, FlusherLocked, files, worker
  <2>2. /\ PermanentIn(records') = PermanentIn(records)
        /\ \A ip \in PermanentIn(records) :
              /\ ip \in pending => records'[ip].persisted
              /\ ip \notin pending => records'[ip] = records[ip]
    BY <1>0, <1>6, MarkedRecord, ConfigAssumption DEF FlushMark, PermanentIn
  <2>3. \A w \in Workers : pc[w] \notin Locked
    BY <2>1, TrackerAssumption DEF LockDiscipline
  <2>4. LockDiscipline'
    BY <2>1, <2>3 DEF LockDiscipline, FlusherLocked
  <2>5. WorkerInv'
    BY <2>1, <2>2, <2>3 DEF WorkerInv, Locked
  <2>6. FlushInv'
    BY <2>1, <2>2 DEF FlushInv
  <2>7. PersistedIsOnDisk'
    BY <2>1, <2>2 DEF PersistedIsOnDisk, FlushInv
  <2> QED BY <2>4, <2>5, <2>6, <2>7
<1>7. CASE ReloadRead \/ ReloadFail \/ ReloadStore
  BY <1>7 DEF ReloadRead, ReloadFail, ReloadStore, LockDiscipline, FlusherLocked,
              WorkerInv, Unpersisted, FlushInv, PersistedIsOnDisk, inner, files,
              worker
<1>8. CASE remove_ips
  <2>1. /\ fpc = "remove" /\ fpc' = "cleanup"
        /\ UNCHANGED <<write_lock, ban_file, pc, req>>
    BY <1>8 DEF remove_ips, files, worker
  <2>2. /\ PermanentIn(records') = PermanentIn(records) \ banned
        /\ \A ip \in PermanentIn(records') : records'[ip] = records[ip]
    BY <1>0, <1>8 DEF remove_ips, PermanentIn
  <2>3. \A ip \in banned : ip \in PermanentIn(records) /\ records[ip].persisted
    BY <2>1 DEF FlushInv
  <2>4. banned \subseteq ban_file
    BY <2>3 DEF PersistedIsOnDisk
  <2>5. LockDiscipline' /\ FlushInv'
    BY <2>1 DEF LockDiscipline, FlusherLocked, FlushInv
  <2>6. WorkerInv'
    BY <2>1, <2>2, <2>3, <2>4 DEF WorkerInv, Unpersisted
  <2>7. PersistedIsOnDisk'
    BY <2>1, <2>2 DEF PersistedIsOnDisk
  <2> QED BY <2>5, <2>6, <2>7
<1>9. CASE cleanup
  <2>1. /\ fpc = "cleanup" /\ fpc' = "sleep"
        /\ UNCHANGED <<write_lock, ban_file, pc, req>>
    BY <1>9 DEF cleanup, files, worker
  <2>2. /\ PermanentIn(records') = PermanentIn(records)
        /\ \A ip \in PermanentIn(records) : records'[ip] = records[ip]
    BY <1>0, <1>9, RetainRecords DEF cleanup
  <2>3. LockDiscipline' /\ FlushInv'
    BY <2>1 DEF LockDiscipline, FlusherLocked, FlushInv
  <2>4. WorkerInv' /\ PersistedIsOnDisk'
    BY <2>1, <2>2 DEF WorkerInv, Unpersisted, PersistedIsOnDisk
  <2> QED BY <2>3, <2>4
<1> QED BY <1>1, <1>2, <1>3, <1>4, <1>5, <1>6, <1>7, <1>8, <1>9
        DEF FlushStep, FlushProgress

\* Every step preserves DiskInv.
LEMMA DiskInvStep ==
    ASSUME TypeInv, DiskInv, [Next]_vars
    PROVE  DiskInv'
<1>1. CASE SignalStep \/ Tick \/ UNCHANGED vars
  <2>1. UNCHANGED <<records, write_lock, ban_file, pc, req, fpc, banned, pending>>
    BY <1>1 DEF SignalStep, SignalRead, SignalStore, Tick, vars, inner, files,
                worker, flusher
  <2> QED BY <2>1 DEF DiskInv, LockDiscipline, WorkerInv, Unpersisted, FlushInv,
                      PersistedIsOnDisk
<1>2. CASE Crash
  <2>1. PermanentIn(records') = {}
    BY <1>2, RestartRecords DEF Crash
  <2> QED BY <1>2, <2>1 DEF Crash, DiskInv, LockDiscipline, Locked, FlusherLocked,
                            WorkerInv, FlushInv, PersistedIsOnDisk
<1> QED BY <1>1, <1>2, DiskInvWorker, DiskInvFlush DEF Next

\* DiskInv holds in every reachable state.
LEMMA DiskInvariant == Spec => []DiskInv
<1>1. Init => DiskInv
  BY DEF Init, DiskInv, LockDiscipline, Locked, FlusherLocked, WorkerInv,
         FlushInv, PersistedIsOnDisk, PermanentIn
<1>2. TypeInv /\ DiskInv /\ [Next]_vars => DiskInv'
  BY DiskInvStep
<1> QED BY <1>1, <1>2, TypeInvariant, PTL DEF Spec

\* A record marked persisted has its line in the ban list file, whatever
\* writes fail or are torn by a crash, and whoever else appends.
THEOREM PersistedBansOnDisk == Spec => []PersistedIsOnDisk
<1>1. DiskInv => PersistedIsOnDisk
  BY DEF DiskInv
<1> QED BY <1>1, DiskInvariant, PTL

\* persist_ip and flush_to_file append only bans that are still unwritten.
THEOREM AppendsNeverStale == Spec => []AppendNotStale
<1>1. DiskInv => AppendNotStale
  BY DEF DiskInv, WorkerInv, FlushInv, AppendNotStale, Unpersisted
<1> QED BY <1>1, DiskInvariant, PTL

\* record_violation returns for a permanent ban only once the ban is in the
\* file, unless its write failed.
THEOREM BansDurableOnReturn == Spec => []DurableOnReturn
<1>1. DiskInv => DurableOnReturn
  BY DEF DiskInv, WorkerInv, DurableOnReturn
<1> QED BY <1>1, DiskInvariant, PTL

----------------------------------------------------------------------------
(***************************************************************************)
(* The hand-over, when the operator sends no SIGUSR2                       *)
(***************************************************************************)
\* No worker step lifts a permanent ban, touches the list or the flush thread,
\* or writes a line for anything but a permanent ban.
LEMMA WorkerKeepsBans ==
    ASSUME TypeInv, DiskInv, NEW w \in Workers, WorkerStep(w)
    PROVE  /\ PermanentIn(records) \subseteq PermanentIn(records')
           /\ ban_file \subseteq ban_file'
           /\ ban_file' \subseteq ban_file \cup PermanentIn(records)
           /\ UNCHANGED <<ip_ban_list, fpc, banned, loaded, spc, now, crashes>>
<1>1. ASSUME NEW ip \in Ips, Arrive(w, ip)
      PROVE  UNCHANGED <<records, ban_file, ip_ban_list, fpc, banned, loaded,
                         spc, now, crashes>>
  BY <1>1 DEF Arrive, inner, files, flusher, signaller, bounds
<1>2. ASSUME \/ Lookup(w) \/ Serve(w) \/ PersistLock(w) \/ Return(w)
             \/ ClientExpiry(w) \/ ClientAppend(w) \/ ClientAppendFail(w)
      PROVE  UNCHANGED <<records, ban_file, ip_ban_list, fpc, banned, loaded,
                         spc, now, crashes>>
  BY <1>2 DEF Lookup, Serve, PersistLock, Return, ClientExpiry, ClientAppend,
              ClientAppendFail, inner, files, flusher, signaller, bounds
<1>3. ASSUME NEW reason \in Reasons, record_violation(w, reason)
      PROVE  /\ PermanentIn(records) \subseteq PermanentIn(records')
             /\ UNCHANGED <<ban_file, ip_ban_list, fpc, banned, loaded, spc,
                            now, crashes>>
  <2>1. \A ip \in PermanentIn(records) : records'[ip] = records[ip]
    BY <1>3, ViolationRecords
  <2> QED BY <1>3, <2>1 DEF record_violation, PermanentIn, files, flusher,
                            signaller, bounds
<1>4. ASSUME PersistAppend(w) \/ PersistFail(w)
      PROVE  /\ ban_file \subseteq ban_file'
             /\ ban_file' \subseteq ban_file \cup PermanentIn(records)
             /\ UNCHANGED <<records, ip_ban_list, fpc, banned, loaded, spc,
                            now, crashes>>
  <2>1. req[w] \in PermanentIn(records)
    BY <1>4 DEF PersistAppend, PersistFail, DiskInv, WorkerInv, Unpersisted
  <2>2. \E part \in SUBSET {req[w]} : ban_file' = ban_file \cup part
    BY <1>4 DEF PersistAppend, PersistFail, append_lines, torn_append
  <2> QED BY <1>4, <2>1, <2>2 DEF PersistAppend, PersistFail, inner, flusher,
                                  signaller, bounds
<1>5. ASSUME PersistMark(w)
      PROVE  /\ PermanentIn(records) \subseteq PermanentIn(records')
             /\ UNCHANGED <<ban_file, ip_ban_list, fpc, banned, loaded, spc,
                            now, crashes>>
  BY <1>5, MarkedRecord, ConfigAssumption
     DEF PersistMark, PermanentIn, TypeInv, TypeOK, files, flusher, signaller, bounds
<1> QED BY <1>1, <1>2, <1>3, <1>4, <1>5 DEF WorkerStep, Persist

\* Without SIGUSR2 every step preserves ListInv.
LEMMA ListInvStep ==
    ASSUME ~reload_signals, TypeInv, DiskInv, ListInv, [Next]_vars
    PROVE  ListInv'
<1> USE DEF ListInv, NoGap
<1>0. records \in [Ips -> IpRecord \cup {NoRecord}] /\ pending \subseteq Ips
  BY DEF TypeInv, TypeOK
<1>1. ASSUME NEW w \in Workers, WorkerStep(w) PROVE ListInv'
  BY <1>1, WorkerKeepsBans
<1>2. CASE \/ maybe_cleanup_client_bans \/ CleanupRename \/ CleanupRenameFail
           \/ FlushSnapshot \/ FlushLock \/ ReloadFail
  BY <1>2 DEF maybe_cleanup_client_bans, CleanupRename, CleanupRenameFail,
              FlushSnapshot, FlushLock, ReloadFail, inner, files, signaller
<1>3. CASE FlushWrite \/ FlushFail
  <2>1. pending \subseteq PermanentIn(records)
    BY <1>3 DEF FlushWrite, FlushFail, DiskInv, FlushInv
  <2>2. \E part \in SUBSET pending : ban_file' = ban_file \cup part
    BY <1>3 DEF FlushWrite, FlushFail, append_lines, torn_append
  <2> QED BY <1>3, <2>1, <2>2 DEF FlushWrite, FlushFail, inner, signaller
<1>4. CASE FlushMark
  <2>1. PermanentIn(records') = PermanentIn(records)
    BY <1>0, <1>4, MarkedRecord, ConfigAssumption DEF FlushMark, PermanentIn
  <2> QED BY <1>4, <2>1 DEF FlushMark, files, signaller
<1>5. CASE ReloadRead
  <2>1. banned \subseteq ban_file
    BY <1>5 DEF ReloadRead, DiskInv, FlushInv, PersistedIsOnDisk
  <2> QED BY <1>5, <2>1 DEF ReloadRead, inner, files, signaller
<1>6. CASE ReloadStore
  <2>1. loaded \subseteq ban_file'
    BY <1>6 DEF ReloadStore, files
  <2> QED BY <1>6, <2>1 DEF ReloadStore, inner, files, signaller
<1>7. CASE remove_ips
  <2>1. PermanentIn(records) \subseteq PermanentIn(records') \cup banned
    BY <1>0, <1>7 DEF remove_ips, PermanentIn
  <2> QED BY <1>7, <2>1 DEF remove_ips, files, signaller
<1>8. CASE cleanup
  <2>1. PermanentIn(records') = PermanentIn(records)
    BY <1>0, <1>8, RetainRecords DEF cleanup
  <2> QED BY <1>8, <2>1 DEF cleanup, files, signaller
<1>9. CASE SignalStep \/ Tick \/ UNCHANGED vars
  BY <1>9 DEF SignalStep, SignalRead, SignalStore, Tick, vars, inner, files,
              flusher, signaller
<1>10. CASE Crash
  BY <1>10 DEF Crash
<1> QED BY <1>1, <1>2, <1>3, <1>4, <1>5, <1>6, <1>7, <1>8, <1>9, <1>10
        DEF Next, FlushStep, FlushProgress

\* Without SIGUSR2 ListInv holds in every reachable state.
LEMMA ListInvariant ==
    ASSUME ~reload_signals
    PROVE  Spec => []ListInv
<1>1. Init => ListInv
  BY DEF Init, ListInv, NoGap
<1>2. TypeInv /\ DiskInv /\ ListInv /\ [Next]_vars => ListInv'
  BY ListInvStep
<1> QED BY <1>1, <1>2, TypeInvariant, DiskInvariant, PTL DEF Spec

\* An address on the ban list file is refused by the tracker or by the loaded
\* list at every moment of the hand-over.
THEOREM HandoverLeavesNoGap ==
    ASSUME ~reload_signals
    PROVE  Spec => []NoGap
<1>1. ListInv => NoGap
  BY DEF ListInv
<1> QED BY <1>1, ListInvariant, PTL

\* A violation lifts no ban that is still in force, temporary or permanent.
LEMMA ViolationKeepsBans ==
    ASSUME TypeInv, NEW w \in Workers, NEW reason \in Reasons,
           record_violation(w, reason),
           NEW i \in Ips, records[i] # NoRecord, is_banned(records[i], now)
    PROVE  records'[i] = records[i]
<1> DEFINE ip == req[w]
<1>1. records \in [Ips -> IpRecord \cup {NoRecord}] /\ ip \in Ips
  BY DEF TypeInv, TypeOK, RequestInv, record_violation
<1>2. RoomMade(ip)[i] = records[i]
  BY <1>1 DEF RoomMade, retain, Retainable
<1>3. i = ip => is_auto_banned(ip)
  BY DEF is_auto_banned
<1>4. CASE is_auto_banned(ip) /\ UNCHANGED inner
  BY <1>4 DEF inner
<1>5. CASE GrowLimit(ip)
  BY <1>2, <1>5 DEF GrowLimit
<1>6. CASE ~is_auto_banned(ip) /\ Count(ip, reason)
  <2>1. DOMAIN RoomMade(ip) = Ips
    BY <1>1 DEF RoomMade, retain
  <2> QED BY <1>2, <1>3, <1>6, <2>1 DEF Count
<1> QED BY <1>4, <1>5, <1>6 DEF record_violation

\* A ban in force outlives every step: violations, capacity cleanup, flush,
\* reload, hand-over, cleanup, and a crash if it was in the file.
THEOREM BansStayInForce ==
    ASSUME ~reload_signals
    PROVE  Spec => BanStaysInForce
<1> DEFINE Kept == \A ip \in InForce(records, ip_ban_list, now') :
                      \/ ip \in InForce(records', ip_ban_list', now')
                      \/ crashes' # crashes /\ ip \notin ban_file
<1>1. TypeInv /\ DiskInv /\ ListInv /\ [Next]_vars => Kept
  <2> SUFFICES ASSUME TypeInv, DiskInv, ListInv, [Next]_vars,
                      NEW ip \in InForce(records, ip_ban_list, now')
               PROVE  \/ ip \in InForce(records', ip_ban_list', now')
                      \/ crashes' # crashes /\ ip \notin ban_file
    OBVIOUS
  <2>0. /\ ip \in Ips
        /\ ip \in ip_ban_list \/ (records[ip] # NoRecord /\ is_banned(records[ip], now'))
        /\ records \in [Ips -> IpRecord \cup {NoRecord}]
    BY DEF InForce, TypeInv, TypeOK
  <2> SUFFICES ASSUME ~(crashes' # crashes /\ ip \notin ban_file)
               PROVE  \/ ip \in ip_ban_list'
                      \/ records'[ip] # NoRecord /\ is_banned(records'[ip], now')
    BY <2>0 DEF InForce
  <2>1. ASSUME NEW w \in Workers, NEW reason \in Reasons, record_violation(w, reason)
        PROVE  \/ ip \in ip_ban_list'
               \/ records'[ip] # NoRecord /\ is_banned(records'[ip], now')
    <3>1. now' = now /\ ip_ban_list' = ip_ban_list
      BY <2>1 DEF record_violation
    <3> QED BY <2>0, <2>1, <3>1, ViolationKeepsBans
  <2>2. ASSUME NEW w \in Workers, PersistMark(w)
        PROVE  \/ ip \in ip_ban_list'
               \/ records'[ip] # NoRecord /\ is_banned(records'[ip], now')
    <3>1. ip_ban_list' = ip_ban_list
      BY <2>2 DEF PersistMark
    <3>2. records[ip] # NoRecord =>
             /\ records'[ip] # NoRecord
             /\ records'[ip].permanent = records[ip].permanent
             /\ records'[ip].banned_until = records[ip].banned_until
      BY <2>0, <2>2, ConfigAssumption DEF PersistMark, PermanentIn, IpRecord
    <3> QED BY <2>0, <3>1, <3>2 DEF is_banned
  <2>3. CASE records' = records /\ ip_ban_list' = ip_ban_list
    BY <2>0, <2>3
  <2>4. CASE FlushMark
    <3>1. ip_ban_list' = ip_ban_list
      BY <2>4 DEF FlushMark
    <3>2. records[ip] # NoRecord =>
             /\ records'[ip] # NoRecord
             /\ records'[ip].permanent = records[ip].permanent
             /\ records'[ip].banned_until = records[ip].banned_until
      BY <2>0, <2>4, ConfigAssumption DEF FlushMark, IpRecord
    <3> QED BY <2>0, <3>1, <3>2 DEF is_banned
  <2>5. CASE ReloadStore
    BY <2>0, <2>5 DEF ReloadStore, ListInv, inner
  <2>6. CASE remove_ips
    <3>1. ip \in banned => ip \in ip_ban_list
      BY <2>6 DEF remove_ips, ListInv
    <3> QED BY <2>0, <2>6, <3>1 DEF remove_ips
  <2>7. CASE cleanup
    BY <2>0, <2>7 DEF cleanup, retain, Retainable
  <2>8. CASE Crash
    <3>1. crashes' # crashes
      BY <2>8 DEF Crash, TypeInv, TypeOK
    <3>2. ban_file \subseteq ban_file'
      BY <2>8 DEF Crash, torn_append
    <3> QED BY <2>8, <3>1, <3>2 DEF Crash
  <2>9. CASE SignalStep
    BY <2>0, <2>9 DEF SignalStep, SignalRead, SignalStore, ListInv, inner
  <2> QED BY <2>1, <2>2, <2>3, <2>4, <2>5, <2>6, <2>7, <2>8, <2>9
          DEF Next, WorkerStep, Persist, FlushStep, FlushProgress, Arrive, Lookup,
              Serve, PersistLock, PersistAppend, PersistFail, Return,
              ClientExpiry, ClientAppend, ClientAppendFail,
              maybe_cleanup_client_bans, CleanupRename, CleanupRenameFail,
              FlushSnapshot, FlushLock, FlushWrite, FlushFail, ReloadRead,
              ReloadFail, Tick, vars, inner
<1>2. BanStaysInForce <=> [][Kept]_vars
  BY DEF BanStaysInForce
<1> QED BY <1>1, <1>2, TypeInvariant, DiskInvariant, ListInvariant, PTL DEF Spec

----------------------------------------------------------------------------
(***************************************************************************)
(* Lookups racing the hand-over                                            *)
(***************************************************************************)
\* What the two sources refuse together only grows, and so does the list.
LEMMA SourcesGrow ==
    ASSUME ~reload_signals, TypeInv, DiskInv, ListInv, [Next]_vars, ~Crash
    PROVE  /\ ip_ban_list \subseteq ip_ban_list'
           /\ PermanentIn(records) \cup ip_ban_list
                 \subseteq PermanentIn(records') \cup ip_ban_list'
<1>0. records \in [Ips -> IpRecord \cup {NoRecord}]
  BY DEF TypeInv, TypeOK
<1>1. ASSUME NEW w \in Workers, WorkerStep(w)
      PROVE  /\ PermanentIn(records) \subseteq PermanentIn(records')
             /\ ip_ban_list' = ip_ban_list
  BY <1>1, WorkerKeepsBans
<1>2. CASE UNCHANGED <<records, ip_ban_list>>
  BY <1>2
<1>3. CASE FlushMark
  <2>1. PermanentIn(records') = PermanentIn(records)
    BY <1>0, <1>3, MarkedRecord, ConfigAssumption DEF FlushMark, PermanentIn
  <2> QED BY <1>3, <2>1 DEF FlushMark
<1>4. CASE ReloadStore
  BY <1>4 DEF ReloadStore, ListInv, inner
<1>5. CASE remove_ips
  <2>1. PermanentIn(records) \subseteq PermanentIn(records') \cup banned
    BY <1>0, <1>5 DEF remove_ips, PermanentIn
  <2> QED BY <1>5, <2>1 DEF remove_ips, ListInv
<1>6. CASE cleanup
  BY <1>0, <1>6, RetainRecords DEF cleanup
<1>7. CASE SignalStep
  BY <1>7 DEF SignalStep, SignalRead, SignalStore, ListInv, inner
<1> QED BY <1>1, <1>2, <1>3, <1>4, <1>5, <1>6, <1>7
        DEF Next, FlushStep, FlushProgress, maybe_cleanup_client_bans,
            CleanupRename, CleanupRenameFail, FlushSnapshot, FlushLock,
            FlushWrite, FlushFail, ReloadRead, ReloadFail, Tick, vars, inner

\* When every worker asks the tracker first, every step preserves BarredInv.
LEMMA BarredInvStep ==
    ASSUME ~reload_signals, \A w \in Workers : check_order[w] = "auto_first",
           TypeInv, DiskInv, ListInv, BarredInv, [Next]_vars
    PROVE  BarredInv'
<1>0. /\ pc \in [Workers -> WorkerPc] /\ req \in [Workers -> Ips \cup {NoIp}]
      /\ barred \in [Workers -> BOOLEAN]
  BY DEF TypeInv, TypeOK
<1>1. CASE Crash
  BY <1>1 DEF Crash, BarredInv
<1>2. CASE ~Crash
  <2>1. /\ ip_ban_list \subseteq ip_ban_list'
        /\ PermanentIn(records) \cup ip_ban_list
              \subseteq PermanentIn(records') \cup ip_ban_list'
    BY <1>2, SourcesGrow
  <2>2. ASSUME NEW w \in Workers, WorkerStep(w) PROVE BarredInv'
    <3>1. \A v \in Workers : v # w => /\ pc'[v] = pc[v]
                                      /\ req'[v] = req[v]
                                      /\ barred'[v] = barred[v]
      BY <1>0, <2>2
         DEF WorkerStep, Persist, Arrive, Lookup, Serve, record_violation,
             PersistLock, PersistAppend, PersistFail, PersistMark, Return,
             ClientExpiry, ClientAppend, ClientAppendFail, Goto
    <3>2. barred'[w] =>
             /\ pc'[w] = "first" => req'[w] \in PermanentIn(records') \cup ip_ban_list'
             /\ pc'[w] = "second" => req'[w] \in ip_ban_list'
             /\ pc'[w] # "checked"
      <4>1. ASSUME NEW ip \in Ips, Arrive(w, ip)
            PROVE  /\ barred'[w] => ip \in PermanentIn(records) \cup ip_ban_list
                   /\ pc'[w] = "first" /\ req'[w] = ip
        BY <1>0, <4>1 DEF Arrive
      <4>2. ASSUME Lookup(w), barred'[w]
            PROVE  /\ pc'[w] = "second" => req'[w] \in ip_ban_list
                   /\ pc'[w] \notin {"first", "checked"}
        <5>1. barred[w] /\ req'[w] = req[w] /\ pc'[w] # "idle"
          BY <1>0, <4>2 DEF Lookup, Goto
        <5>2. CASE pc[w] = "first"
          <6>1. SourceBans(w, pc[w]) <=> is_auto_banned(req[w])
            BY <5>2 DEF SourceBans
          <6>2. req[w] \in PermanentIn(records) => is_auto_banned(req[w])
            BY DEF PermanentIn, is_auto_banned, is_banned
          <6> QED BY <1>0, <4>2, <5>1, <5>2, <6>1, <6>2
                  DEF Lookup, Goto, BarredInv
        <5>3. CASE pc[w] = "second"
          <6>1. SourceBans(w, pc[w]) <=> req[w] \in ip_ban_list
            BY <5>3 DEF SourceBans
          <6> QED BY <1>0, <4>2, <5>1, <5>3, <6>1 DEF Lookup, Goto, BarredInv
        <5> QED BY <4>2, <5>2, <5>3 DEF Lookup
      <4>3. ASSUME ~Lookup(w), \A ip \in Ips : ~Arrive(w, ip)
            PROVE  pc'[w] \notin {"first", "second", "checked"}
        <5>1. ASSUME NEW reason \in Reasons, record_violation(w, reason)
              PROVE  pc'[w] \in {"idle", "persist", "client"}
          BY <5>1, ViolationRecords
        <5> QED BY <1>0, <2>2, <4>3, <5>1
               DEF WorkerStep, Persist, Serve, PersistLock, PersistAppend,
                   PersistFail, PersistMark, Return, ClientExpiry,
                   ClientAppend, ClientAppendFail, Goto
      <4> QED BY <2>1, <4>1, <4>2, <4>3
    <3> QED BY <2>1, <3>1, <3>2 DEF BarredInv
  <2>3. CASE UNCHANGED <<pc, req, barred>>
    BY <2>1, <2>3 DEF BarredInv
  <2> QED BY <1>2, <2>2, <2>3
          DEF Next, FlushStep, FlushProgress, SignalStep, SignalRead, SignalStore,
              maybe_cleanup_client_bans, CleanupRename, CleanupRenameFail,
              FlushSnapshot, FlushLock, FlushWrite, FlushFail, FlushMark,
              ReloadRead, ReloadFail, ReloadStore, remove_ips, cleanup, Tick,
              vars, worker
<1> QED BY <1>1, <1>2

\* With the tracker asked before the list, as the HTTP tracker does, a request
\* from an address that was permanently banned when it arrived is not served.
THEOREM BarredNeverServed ==
    ASSUME ~reload_signals, \A w \in Workers : check_order[w] = "auto_first"
    PROVE  Spec => []BarredNotServed
<1>1. Init => BarredInv
  BY DEF Init, BarredInv
<1>2. TypeInv /\ DiskInv /\ ListInv /\ BarredInv /\ [Next]_vars => BarredInv'
  BY BarredInvStep
<1>3. BarredInv => BarredNotServed
  BY DEF BarredInv, BarredNotServed
<1> QED BY <1>1, <1>2, <1>3, TypeInvariant, DiskInvariant, ListInvariant, PTL DEF Spec

----------------------------------------------------------------------------
(***************************************************************************)
(* Thresholds and the size of the map                                      *)
(***************************************************************************)
Excused(record) ==
    ~record.permanent /\ record.banned_until = None => record.count < threshold

\* A violation either leaves the count below the threshold or issues a ban.
LEMMA ViolatedExcused ==
    ASSUME NEW record \in IpRecord \cup {NoRecord}, NEW reason \in Reason,
           NEW ip \in Ips, NEW time \in Nat
    PROVE  Excused(Violated(record, reason, ip, time))
<1> DEFINE counted == Counted(record, time)
           offended == register_offense(counted, time)
           kind == ban_kind(reason, ip, offended.offenses)
<1>1. counted \in IpRecord
  <2>1. CASE record = NoRecord
    BY <2>1 DEF Counted, FreshRecord, IpRecord, None
  <2>2. CASE record # NoRecord
    BY <2>2, RenewedRecord DEF Counted
  <2> QED BY <2>1, <2>2
<1>2. CASE Triggered(record, reason, time)
  <2>1. offended \in IpRecord /\ offended.offenses \in Nat \ {0}
    BY <1>1, OffenseRecord
  <2>2. kind \in Nat
    BY <2>1, BanKindType
  <2>3. Violated(record, reason, ip, time) = apply_ban(offended, kind, time)
    BY <1>2 DEF Violated, Punish
  <2> HIDE DEF offended, kind
  <2>4. CASE kind = Permanent
    BY <2>1, <2>3, <2>4 DEF apply_ban, IpRecord, Excused
  <2>5. CASE kind # Permanent
    <3>1. apply_ban(offended, kind, time).banned_until = time + kind
      BY <2>1, <2>5 DEF apply_ban, IpRecord
    <3> QED BY <2>2, <2>3, <3>1 DEF Excused, None
  <2> QED BY <2>4, <2>5
<1>3. CASE ~Triggered(record, reason, time)
  BY <1>1, <1>3, ConfigAssumption DEF Triggered, Violated, Excused, IpRecord
<1> QED BY <1>2, <1>3

\* No tracked address stays at or above the threshold without a ban.
THEOREM OffendersBanned == Spec => []NoOffenderLeftUnbanned
<1>1. Init => NoOffenderLeftUnbanned
  BY DEF Init, NoOffenderLeftUnbanned, Tracked
<1>2. TypeInv /\ NoOffenderLeftUnbanned /\ [Next]_vars => NoOffenderLeftUnbanned'
  <2> SUFFICES ASSUME TypeInv, NoOffenderLeftUnbanned, [Next]_vars,
                      NEW i \in Ips, records'[i] # NoRecord
               PROVE  Excused(records'[i])
    BY DEF NoOffenderLeftUnbanned, Tracked, Excused
  <2>0. /\ records \in [Ips -> IpRecord \cup {NoRecord}] /\ now \in Nat
        /\ records[i] # NoRecord => Excused(records[i])
    BY DEF TypeInv, TypeOK, NoOffenderLeftUnbanned, Tracked, Excused
  <2>1. CASE records'[i] = records[i]
    BY <2>0, <2>1
  <2>2. ASSUME NEW w \in Workers, NEW reason \in Reasons, record_violation(w, reason)
        PROVE  Excused(records'[i])
    <3> DEFINE ip == req[w]
    <3>1. ip \in Ips /\ reason \in Reason
      BY <2>2, TrackerAssumption DEF TypeInv, TypeOK, RequestInv, record_violation
    <3>2. /\ RoomMade(ip) \in [Ips -> IpRecord \cup {NoRecord}]
          /\ RoomMade(ip)[i] \in {records[i], NoRecord}
      BY <2>0, RetainRecords DEF RoomMade, retain
    <3>3. CASE UNCHANGED inner \/ GrowLimit(ip)
      BY <2>0, <3>2, <3>3 DEF inner, GrowLimit
    <3>4. CASE Count(ip, reason)
      <4> DEFINE new == Violated(RoomMade(ip)[ip], reason, ip, now)
      <4>1. Excused(new)
        BY <2>0, <3>1, <3>2, ViolatedExcused
      <4>2. records' = [RoomMade(ip) EXCEPT ![ip] = new]
        BY <3>4 DEF Count
      <4> HIDE DEF new
      <4> QED BY <2>0, <3>2, <4>1, <4>2
    <3> QED BY <2>2, <3>3, <3>4 DEF record_violation
  <2>3. CASE (\E w \in Workers : PersistMark(w)) \/ FlushMark
    <3>1. /\ records[i] # NoRecord
          /\ records'[i] \in {records[i], [records[i] EXCEPT !.persisted = TRUE]}
      BY <2>0, <2>3 DEF PersistMark, FlushMark, PermanentIn
    <3> QED BY <2>0, <3>1 DEF IpRecord, Excused
  <2>4. CASE remove_ips \/ cleanup
    BY <2>0, <2>4 DEF remove_ips, cleanup, retain
  <2>5. CASE Crash
    <3>1. records'[i].banned_until # None
      <4> DEFINE parsed == parse_client_ban_lines(client_file)
                 expiries(ip) == {l.expire : l \in {m \in parsed : m.ip = ip}}
                 expiry(ip) == CHOOSE e \in expiries(ip) : TRUE
                 ips == {l.ip : l \in parsed}
      <4>1. parsed \subseteq ClientLine
        BY DEF parse_client_ban_lines, TypeInv, TypeOK
      <4>2. /\ i \in ips
            /\ records'[i] = [FreshRecord(now) EXCEPT !.banned_until = expiry(i)]
        BY <2>5 DEF Crash, load_client_bans
      <4>3. expiries(i) # {} /\ expiries(i) \subseteq Nat
        BY <4>1, <4>2 DEF ClientLine
      <4>4. expiry(i) \in Nat
        BY <4>3
      <4> HIDE DEF expiry
      <4> QED BY <4>2, <4>4 DEF FreshRecord, None
    <3> QED BY <3>1 DEF Excused
  <2> QED BY <2>1, <2>2, <2>3, <2>4, <2>5
          DEF Next, WorkerStep, Persist, FlushStep, FlushProgress, SignalStep,
              SignalRead, SignalStore, Arrive, Lookup, Serve, PersistLock,
              PersistAppend, PersistFail, Return, ClientExpiry, ClientAppend,
              ClientAppendFail, maybe_cleanup_client_bans, CleanupRename,
              CleanupRenameFail, FlushSnapshot, FlushLock, FlushWrite, FlushFail,
              ReloadRead, ReloadFail, ReloadStore, Tick, vars, inner
<1> QED BY <1>1, <1>2, TypeInvariant, PTL DEF Spec

\* The tracked addresses are a finite set.
LEMMA TrackedFinite ==
    ASSUME NEW recs
    PROVE  IsFiniteSet(Tracked(recs)) /\ Cardinality(Tracked(recs)) \in Nat
<1>1. Tracked(recs) \subseteq Ips
  BY DEF Tracked
<1> QED BY <1>1, TrackerAssumption, FS_Subset, FS_CardinalityType

\* The map never outgrows its limit: not by a violation, and not by the client
\* bans that a restart restores.
THEOREM MapBounded == Spec => []RecordsBounded
<1>1. Init => RecordsBounded
  <2> SUFFICES ASSUME Init PROVE RecordsBounded
    OBVIOUS
  <2>1. Tracked(records) = {} /\ max_records \in Nat
    BY TrackerAssumption DEF Init, Tracked
  <2> QED BY <2>1, FS_EmptySet DEF RecordsBounded
<1>2. TypeInv /\ RecordsBounded /\ [Next]_vars => RecordsBounded'
  <2> SUFFICES ASSUME TypeInv, RecordsBounded, [Next]_vars PROVE RecordsBounded'
    OBVIOUS
  <2>0. /\ records \in [Ips -> IpRecord \cup {NoRecord}] /\ max_records \in Nat
        /\ Cardinality(Tracked(records)) <= max_records
    BY DEF TypeInv, TypeOK, RecordsBounded
  <2>1. ASSUME Tracked(records') \subseteq Tracked(records),
               max_records' \in Nat, max_records' >= max_records
        PROVE  RecordsBounded'
    <3>1. Cardinality(Tracked(records')) <= Cardinality(Tracked(records))
      BY <2>1, TrackedFinite, FS_Subset
    <3> QED BY <2>0, <2>1, <3>1, TrackedFinite DEF RecordsBounded
  <2>2. ASSUME NEW w \in Workers, NEW reason \in Reasons, record_violation(w, reason)
        PROVE  RecordsBounded'
    <3> DEFINE ip == req[w]
    <3>1. ip \in Ips
      BY <2>2 DEF TypeInv, TypeOK, RequestInv, record_violation
    <3>2. /\ RoomMade(ip) \in [Ips -> IpRecord \cup {NoRecord}]
          /\ Tracked(RoomMade(ip)) \subseteq Tracked(records)
      BY <2>0, RetainRecords DEF RoomMade, retain, Tracked
    <3>3. CASE UNCHANGED inner \/ GrowLimit(ip)
      <4>1. max_records' \in Nat /\ max_records' >= max_records
        BY <2>0, <3>3, TrackerAssumption DEF inner, GrowLimit, Grown
      <4>2. Tracked(records') \subseteq Tracked(records)
        BY <3>2, <3>3 DEF inner, GrowLimit
      <4> QED BY <2>1, <4>1, <4>2
    <3>4. CASE Count(ip, reason) /\ ~Dropped(ip)
      <4>1. /\ max_records' = max_records
            /\ Tracked(records') \subseteq Tracked(RoomMade(ip)) \cup {ip}
        BY <3>2, <3>4 DEF Count, Tracked
      <4>2. CASE records[ip] # NoRecord
        <5>1. Tracked(records') \subseteq Tracked(records)
          BY <3>1, <3>2, <4>1, <4>2 DEF Tracked
        <5> QED BY <2>0, <2>1, <4>1, <5>1
      <4>3. CASE records[ip] = NoRecord
        <5>1. Cardinality(Tracked(RoomMade(ip))) < max_records
          BY <2>0, <3>4, <4>3, TrackedFinite
             DEF Dropped, CapacityGuard, MapFull, RoomMade
        <5>2. /\ IsFiniteSet(Tracked(RoomMade(ip)) \cup {ip})
              /\ Cardinality(Tracked(RoomMade(ip)) \cup {ip})
                    <= Cardinality(Tracked(RoomMade(ip))) + 1
          <6> DEFINE tracked == Tracked(RoomMade(ip))
          <6>1. IsFiniteSet(tracked) /\ Cardinality(tracked) \in Nat
            BY TrackedFinite
          <6>2. /\ IsFiniteSet(tracked \cup {ip})
                /\ Cardinality(tracked \cup {ip}) =
                      IF ip \in tracked THEN Cardinality(tracked)
                      ELSE Cardinality(tracked) + 1
            BY <6>1, FS_AddElement
          <6> HIDE DEF tracked
          <6> QED BY <6>1, <6>2 DEF tracked
        <5>3. Cardinality(Tracked(records'))
                 <= Cardinality(Tracked(RoomMade(ip)) \cup {ip})
          BY <4>1, <5>2, FS_Subset
        <5>4. Cardinality(Tracked(RoomMade(ip)) \cup {ip}) \in Nat
          BY <5>2, FS_CardinalityType
        <5> QED BY <2>0, <4>1, <5>1, <5>2, <5>3, <5>4, TrackedFinite
                DEF RecordsBounded
      <4> QED BY <4>2, <4>3
    <3> QED BY <2>2, <3>3, <3>4 DEF record_violation
  <2>3. ASSUME NEW w \in Workers, PersistMark(w) PROVE RecordsBounded'
    <3>1. Tracked(records') \subseteq Tracked(records) /\ max_records' = max_records
      BY <2>0, <2>3 DEF PersistMark, Tracked, PermanentIn
    <3> QED BY <2>0, <2>1, <3>1
  <2>4. CASE FlushMark \/ remove_ips \/ cleanup
    <3>1. Tracked(records') \subseteq Tracked(records) /\ max_records' = max_records
      BY <2>0, <2>4 DEF FlushMark, remove_ips, cleanup, retain, Tracked
    <3> QED BY <2>0, <2>1, <3>1
  <2>5. CASE Crash
    <3> DEFINE ips == {l.ip : l \in parse_client_ban_lines(client_file)}
    <3>1. Tracked(records') \subseteq ips
      BY <2>5 DEF Crash, load_client_bans, Tracked
    <3>2. ips \subseteq Ips
      BY DEF parse_client_ban_lines, TypeInv, TypeOK, ClientLine
    <3>3. IsFiniteSet(ips) /\ Cardinality(ips) \in Nat
      BY <3>2, TrackerAssumption, FS_Subset, FS_CardinalityType
    <3>4. Cardinality(Tracked(records')) <= Cardinality(ips)
      BY <3>1, <3>3, FS_Subset
    <3>5. Cardinality(ips) <= max_records'
      <4>1. CASE ips = {}
        <5>1. max_records' = initial_max_records
          BY <2>5, <4>1 DEF Crash, load_client_bans
        <5>2. Cardinality(ips) = 0
          BY <4>1, FS_EmptySet
        <5> QED BY <5>1, <5>2, TrackerAssumption
      <4>2. CASE ips # {}
        <5>1. max_records' = record_headroom +
                 (IF Cardinality(ips) > initial_max_records
                  THEN Cardinality(ips) ELSE initial_max_records)
          BY <2>5, <4>2 DEF Crash, load_client_bans
        <5> HIDE DEF ips
        <5> QED BY <3>3, <5>1, TrackerAssumption
      <4> QED BY <4>1, <4>2
    <3>6. max_records' \in Nat
      BY <2>5, RestartRecords DEF Crash
    <3> QED BY <3>3, <3>4, <3>5, <3>6, TrackedFinite DEF RecordsBounded
  <2>6. CASE UNCHANGED <<records, max_records>>
    BY <2>0, <2>6 DEF RecordsBounded
  <2> QED BY <2>2, <2>3, <2>4, <2>5, <2>6
          DEF Next, WorkerStep, Persist, FlushStep, FlushProgress, SignalStep,
              SignalRead, SignalStore, Arrive, Lookup, Serve, PersistLock,
              PersistAppend, PersistFail, Return, ClientExpiry, ClientAppend,
              ClientAppendFail, maybe_cleanup_client_bans, CleanupRename,
              CleanupRenameFail, FlushSnapshot, FlushLock, FlushWrite, FlushFail,
              ReloadRead, ReloadFail, ReloadStore, Tick, vars, inner
<1> QED BY <1>1, <1>2, TypeInvariant, PTL DEF Spec
============================================================================
