SPECIFICATION FairSpec
CONSTANTS
    MaxLogins = 4
    Slots = 1
    MaxSessions = 1
    IdleTtl = 1
    AbsoluteTtl = 1
    Threads = 2
INVARIANTS
    SessionsBounded
PROPERTIES
    LoginAnswered
    SessionsEnd
CHECK_DEADLOCK FALSE
