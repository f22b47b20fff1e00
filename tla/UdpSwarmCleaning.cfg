SPECIFICATION FairSpec
CONSTANTS
    w1 = w1  w2 = w2  h1 = h1  o1 = o1  o2 = o2
    k1 = k1  k2 = k2  k3 = k3  id1 = id1  id2 = id2
    NoPeer = NoPeer  NoObject = NoObject  NoRequest = NoRequest
    Workers = {w1}
    InfoHashes = {h1}
    Objects = {o1, o2}
    Keys = {k1}
    PeerIds = {id1}
    PeerIdsOf <- SameId
    Events = {"none", "stopped", "completed"}
    SMALL_PEER_MAP_CAPACITY = 1
    max_peer_age = 1
    MaxNow = 1  MaxCompleted = 1  MaxClients = 2  MaxListUpdates = 1
PROPERTIES NonEmptyTorrentKept ExpiredPeerDropped EmptyTorrentUnlinked
