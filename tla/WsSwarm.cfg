SPECIFICATION FairSpec
CONSTANTS
    c1 = c1  c2 = c2  s1 = s1  p1 = p1  p2 = p2  o1 = o1
    Connections = {c1, c2}
    Consumers = {s1}
    consumer_id <- OneConsumer
    connection_id <- DistinctIds
    PeerIds = {p1, p2}
    OfferIds = {o1}
    Announces <- ClientAnnounces
    PeerIdsOf <- SharedId
    NoPeer = NoPeer  NoAnnounce = NoAnnounce
    max_peer_age = 1  max_offer_age = 1  max_offers = 1
    SHARED_IN_CHANNEL_SIZE = 1
    MaxReloads = 1
INVARIANTS SeedersExact OnePeerPerConnection
PROPERTIES AnswerOnceToOfferer GhostPeersLeave
