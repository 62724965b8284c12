SPECIFICATION FairLoopSpec
CONSTANTS
    STABLE_SESSION = 2
    READ_TIMEOUT = 2
    PING_INTERVAL = 1
    POLL_TIMEOUT = 1
    WSS_TIMEOUT = 1
    MaxShift = 1
    MaxBackoff = 2
    Addresses = 2
    QueueSize = 1
    Outbound = 2
INVARIANTS
    NeverHot
PROPERTIES
    DeletedStops
    ComesBack
    SilenceNoticed
