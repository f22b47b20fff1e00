SPECIFICATION Spec
CONSTANTS
    w1 = w1  w2 = w2  h1 = h1  o1 = o1  o2 = o2
    k1 = k1  k2 = k2  k3 = k3  id1 = id1  id2 = id2
    NoPeer = NoPeer  NoObject = NoObject  NoRequest = NoRequest
    Workers = {w1}
    InfoHashes = {h1}
    Objects = {o1, o2}
    Keys = {k1, k2, k3}
    PeerIds = {id1, id2}
    PeerIdsOf <- AnyId
    Events = {"none", "stopped"}
    SMALL_PEER_MAP_CAPACITY = 1
    max_peer_age = 1
    MaxNow = 1  MaxCompleted = 0  MaxClients = 2  MaxListUpdates = 0
SYMMETRY AllSymmetry
INVARIANTS CountsExact SmallMapFits ClientsNeverUndercounted
