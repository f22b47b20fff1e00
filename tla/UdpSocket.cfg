SPECIFICATION Spec
CONSTANTS
    w1 = w1  w2 = w2  a = a  b = b  c = c
    Workers = {w1, w2}
    Ips = {a, b, c}
    V4Ips = {a, c}
    PrivateIps = {c}
    BannedIps = {}
    max_connection_age = 2
    FutureAllowance = 1
    MaxLag = 1
    ElapsedUpdatePeriod = 2
    resend_buffer_max_len = 1
    NoId = NoId
    MaxNow = 3  MaxDatagrams = 3
SYMMETRY WorkerSymmetry
INVARIANTS OnlySendersBlamed StaleIdRefused FreshIdAccepted AnswersWithinRequests
