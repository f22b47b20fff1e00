SPECIFICATION Spec
CONSTANTS
    w1 = w1  w2 = w2  a = a  b = b  c = c
    Workers = {w1}
    Ips = {a, b}
    IpHash <- TwoHashes
    NoRecord = NoRecord  NoIp = NoIp  Free = Free  Flusher = Flusher
    threshold = 2  window_secs = 2  ban_duration_secs = 2
    immediate_ban_secs = 1  escalation_enabled = TRUE
    escalation_steps <- OneStep  offense_decay_secs = 3
    client_ban_duration_secs = 1  client_ban_jitter_secs = 3
    Reasons = {"ClientBanned", "NonStandardPeerId"}
    check_order <- AutoFirst
    initial_max_records = 1  HARD_MAX_RECORDS = 2  record_headroom = 1
    client_cleanup_secs = 2
    reload_signals = FALSE
    MaxNow = 2  MaxCrashes = 1  MaxFailures = 0
INVARIANTS NoOffenderLeftUnbanned RecordsBounded
PROPERTY BanStaysInForce
