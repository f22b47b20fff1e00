--------------------------- MODULE AutoBanPolicy ---------------------------
(***************************************************************************)
(* The auto-ban policy of crates/common/src/auto_ban.rs as operators on a  *)
(* single IpRecord: severity tiers, ban durations, offence history, and    *)
(* what one violation does to the record of an address.                    *)
(*                                                                         *)
(* Instants and unix seconds are natural numbers of one clock.  A BanKind  *)
(* is represented by its seconds, 0 standing for Permanent, which is the   *)
(* meaning BanKind::from_secs gives to 0.                                  *)
(***************************************************************************)
EXTENDS Integers, Sequences

CONSTANTS
    Ips,                        \* client addresses
    IpHash,                     \* [Ips -> Nat], the hash client_jitter takes
    NoRecord,                   \* value of records[ip] for an untracked ip
    threshold, window_secs, ban_duration_secs, immediate_ban_secs,
    escalation_enabled, escalation_steps, offense_decay_secs,
    client_ban_duration_secs, client_ban_jitter_secs

None == -1                      \* Option::None for an instant

IpRecord == [count: Nat, first_violation: Nat, banned_until: Nat \cup {None},
             permanent: BOOLEAN, persisted: BOOLEAN,
             offenses: Nat, last_offense: Nat \cup {None}]

\* What validate_auto_ban_config lets through, for auto_ban.enabled.
ASSUME ConfigAssumption ==
    /\ IpHash \in [Ips -> Nat]
    /\ NoRecord \notin IpRecord
    /\ threshold \in Nat \ {0}
    /\ window_secs \in Nat \ {0}
    /\ ban_duration_secs \in Nat
    /\ immediate_ban_secs \in Nat
    /\ escalation_enabled \in BOOLEAN
    /\ escalation_steps \in Seq(Nat)
    /\ offense_decay_secs \in Nat
    /\ escalation_enabled => offense_decay_secs > 0
    /\ client_ban_duration_secs \in Nat
    /\ client_ban_jitter_secs \in Nat

Reason == {"SqlInjection", "PathTraversal", "Crawler", "MissingUserAgent",
           "ClientBanned", "PrivateIp", "NonStandardPeerId",
           "PeerIdUserAgentMismatch"}

tier(reason) ==
    CASE reason \in {"SqlInjection", "PathTraversal", "ClientBanned",
                     "Crawler", "MissingUserAgent"} -> "Immediate"
      [] reason = "PrivateIp"                       -> "Suspicious"
      [] OTHER                                      -> "Heuristic"

Permanent == 0

is_banned(record, now) ==
    \/ record.permanent
    \/ record.banned_until # None /\ now < record.banned_until

(***************************************************************************)
(* Durations                                                               *)
(***************************************************************************)
client_jitter(ip) ==
    (IpHash[ip] % (2 * client_ban_jitter_secs + 1)) - client_ban_jitter_secs

client_ban_secs(ip) ==
    LET base == IF client_ban_duration_secs # 0 THEN client_ban_duration_secs
                ELSE IF immediate_ban_secs # 0 THEN immediate_ban_secs
                ELSE ban_duration_secs
        secs == base + client_jitter(ip)
    IN  IF base = 0 THEN 0 ELSE IF secs < 1 THEN 1 ELSE secs

\* The offence counter passed in already includes the present offence.
ban_kind(reason, ip, offenses) ==
    CASE reason = "ClientBanned" -> client_ban_secs(ip)
      [] reason # "ClientBanned" /\ tier(reason) = "Immediate" ->
            IF escalation_enabled /\ offenses >= 2 THEN Permanent
            ELSE IF immediate_ban_secs = 0 THEN ban_duration_secs
            ELSE immediate_ban_secs
      [] tier(reason) = "Suspicious" -> ban_duration_secs
      [] tier(reason) = "Heuristic" ->
            IF ~escalation_enabled THEN ban_duration_secs
            ELSE IF offenses <= Len(escalation_steps)
                 THEN escalation_steps[offenses]
                 ELSE Permanent

(***************************************************************************)
(* One record                                                              *)
(***************************************************************************)
register_offense(record, now) ==
    LET decayed == \/ record.last_offense = None
                   \/ now - record.last_offense >= offense_decay_secs
    IN  [record EXCEPT !.offenses = IF decayed THEN 1 ELSE @ + 1,
                       !.last_offense = now]

\* Durations are at most MAX_BAN_DURATION_SECS, so the checked_add of the
\* code does not overflow.
apply_ban(record, kind, now) ==
    [record EXCEPT !.banned_until = IF kind = Permanent THEN None ELSE now + kind,
                   !.permanent = (kind = Permanent),
                   !.persisted = FALSE]

Punish(record, reason, ip, now) ==
    LET counted == register_offense(record, now)
    IN  apply_ban(counted, ban_kind(reason, ip, counted.offenses), now)

FreshRecord(now) ==
    [count |-> 1, first_violation |-> now, banned_until |-> None,
     permanent |-> FALSE, persisted |-> FALSE, offenses |-> 0,
     last_offense |-> None]

\* A tracked record as a new violation finds it: the count restarts when the
\* window has passed or the last temporary ban has expired.
Renewed(record, now) ==
    LET expired == /\ ~record.permanent
                   /\ record.banned_until # None
                   /\ now >= record.banned_until
        outside == now - record.first_violation >= window_secs
    IN  [record EXCEPT
            !.count = IF outside \/ expired THEN 1 ELSE @ + 1,
            !.first_violation = IF outside \/ expired THEN now ELSE @,
            !.banned_until = IF expired THEN None ELSE @,
            !.persisted = IF expired THEN FALSE ELSE @]

\* The record after a violation that was neither ignored (already banned) nor
\* dropped (map full), and whether it issued a ban.
Counted(record, now) ==
    IF record = NoRecord THEN FreshRecord(now) ELSE Renewed(record, now)

\* Mutant: the threshold has to be exceeded.
TriggeredAbove(record, reason, now) ==
    \/ tier(reason) = "Immediate"
    \/ Counted(record, now).count > threshold

Triggered(record, reason, now) ==
    \/ tier(reason) = "Immediate"
    \/ Counted(record, now).count >= threshold

Violated(record, reason, ip, now) ==
    IF Triggered(record, reason, now)
    THEN Punish(Counted(record, now), reason, ip, now)
    ELSE Counted(record, now)

\* Mutant: banned records are pruned like all others.
RetainableInWindow(record, now) == now - record.first_violation < window_secs

\* The predicate of both retain calls: cleanup and the capacity guard.
Retainable(record, now) ==
    is_banned(record, now) \/ now - record.first_violation < window_secs
============================================================================
