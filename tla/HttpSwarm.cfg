SPECIFICATION Spec
CONSTANTS
    h1 = h1  a1 = a1  a2 = a2  a3 = a3  a4 = a4  b1 = b1
    NoPeer = NoPeer  NoTorrent = NoTorrent
    InfoHashes = {h1}
    Families = {"ipv4", "ipv6"}
    Keys = {a1, a2, a3, a4, b1}
    family_of <- FamilyOf
    SMALL_PEER_MAP_CAPACITY = 2
    max_peers = 2
    max_scrape_torrents = 1
    max_peer_age = 1
    Wants = {0, 1}
    ScrapeRequests <- Requests
    MaxCompleted = 1
SYMMETRY Symmetry
VIEW WithoutAnswer
INVARIANTS EveryAnnounceAnswered PeerGaugeExact
PROPERTIES LivePeerKept ImplementsSwarm
