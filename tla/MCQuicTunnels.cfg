SPECIFICATION QuicFairSpec
CONSTANTS
    Tunnels = {t1, t2, t3}
    Limit = 2
    CounterSize = 16
    MaxStreams = 1
    Bytes = 1
INVARIANTS
    SlotsExact
    SpliceExact
PROPERTY
    TunnelsClose
