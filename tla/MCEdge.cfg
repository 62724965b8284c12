SPECIFICATION MCEdgeSpec
CONSTANTS
    Requests = {r1, r2}
    Resources <- MCResources
    Clients <- MCClients
    Answers <- MCAnswers
    DNS_CACHE_TTL = 1
    DNS_LOOKUP_TIMEOUT = 1
    Threads = {t1, t2}
    Peers <- MCPeers
    MAX_LIMITER_ENTRIES = 1
    MAX_LIMITER_IDLE = 1
    Burst = 1
INVARIANTS
    SafeDial
    OneResource
    FreshDial
    BudgetHolds
PROPERTY
    EveryRequestEnds
