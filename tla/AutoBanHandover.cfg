SPECIFICATION Spec
CONSTANTS
    w1 = w1  w2 = w2  a = a  b = b  c = c
    Workers = {w1, w2}
    Ips = {a, b}
    IpHash <- TwoHashes
    NoRecord = NoRecord  NoIp = NoIp  Free = Free  Flusher = Flusher
    threshold = 1  window_secs = 2  ban_duration_secs = 0
    immediate_ban_secs = 0  escalation_enabled = FALSE
    escalation_steps <- NoLadder  offense_decay_secs = 1
    client_ban_duration_secs = 1  client_ban_jitter_secs = 0
    Reasons = {"SqlInjection"}
    check_order <- AutoFirst
    initial_max_records = 4  HARD_MAX_RECORDS = 8  record_headroom = 2
    client_cleanup_secs = 3
    reload_signals = FALSE
    MaxNow = 0  MaxCrashes = 2  MaxFailures = 2
SYMMETRY WorkerSymmetry
INVARIANTS NoGap BarredNotServed PersistedIsOnDisk AppendNotStale DurableOnReturn
PROPERTY BanStaysInForce
