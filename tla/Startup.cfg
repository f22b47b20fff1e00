SPECIFICATION FairSpec
CONSTANTS
    Services = {"udp", "http", "ws"}
    available_parallelism = 1
    MaxWorkers = 2
PROPERTY PrivilegesDropped
CHECK_DEADLOCK FALSE
