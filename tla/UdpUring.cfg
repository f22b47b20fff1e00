SPECIFICATION FairSpec
CONSTANTS
    a = a  b = b
    Families = {"v6"}
    Ips = {a, b}
    V4Ips = {a}
    ring_entries = 2
    TailModulus = 4
    NoResponse = NoResponse
    MaxDatagrams = 3
INVARIANTS SendsWhatWasQueued BufferIdsConserved
PROPERTY EverythingDrained
