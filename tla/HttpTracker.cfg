SPECIFICATION FairSpec
CONSTANTS
    c1 = c1  c2 = c2  h1 = h1  h2 = h2  h3 = h3
    a = a  b = b  p = p  q = q
    NoRequest = NoRequest
    Connections = {c1, c2}
    Workers = {1, 2}
    InfoHashes = {h1, h2, h3}
    worker_of <- TwoWorkers
    Clients = {a, b}
    Proxies = {p, q}
    PrivateIps = {p}
    origin <- Origin
    remote <- Remote
    Forged <- ForgedHeaders
    Requests <- RequestsOf
    Configs <- TwoConfigs
    ClientBanLists <- ClientLists
    ProxyLists <- ProxyListsMC
    IpBanLists <- IpListsMC
    AccessLists <- AccessListsMC
    max_connection_idle = 1
    SHARED_CHANNEL_SIZE = 1
    REQUEST_BUFFER_SIZE = 2
    MaxReloads = 1
INVARIANTS NeverForgedAddress NoStall AnswerComplete HandlesMatchTasks
PROPERTIES RefusedConnectionEnds
