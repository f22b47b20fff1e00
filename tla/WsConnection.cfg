SPECIFICATION FairSpec
CONSTANTS
    c1 = c1  h1 = h1  h2 = h2  h3 = h3
    a = a  b = b  p = p
    Absent = Absent
    Connections = {c1}
    Workers = {1, 2}
    InfoHashes = {h1, h2, h3}
    worker_of <- TwoWorkers
    Proxies = {p}
    PrivateIps = {b}
    remote <- Remote
    Handshakes <- Shakes
    Messages <- MessagesOf
    Configs <- TwoConfigs
    ClientBanLists <- ClientLists
    ProxyLists <- ProxyListsMC
    IpBanLists <- IpListsMC
    AccessLists <- AccessListsMC
    close_after_tls_update_grace_period = 2
    LOCAL_CHANNEL_SIZE = 1
    SHARED_IN_CHANNEL_SIZE = 1
    PendingScrapeIds = {0, 1}
    MaxMessages = 2
    MaxOffers = 1
    MaxCertificates = 1
INVARIANT PartsMeetTheirScrape
PROPERTIES ScrapesAnswered OldCertificateEnds SilentConnectionEnds
CHECK_DEADLOCK FALSE
