SPECIFICATION FairSpec
CONSTANTS
    Window = 2
    Threshold = 1
    Capacity = 1
    Uploads = 2
    Downloads = 2
    Kicks = TRUE
INVARIANTS
    NoTruncation
    PeersBehave
    NoOrphanBackend
PROPERTY
    TunnelEnds
CHECK_DEADLOCK FALSE
