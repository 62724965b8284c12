SPECIFICATION FairSpec
CONSTANTS
    Lifetime = 4
    Threshold = 2
    Horizon = 7
    MaxFaults = 3
INVARIANTS
    NeverStuck
    InService
    ServedInDate
PROPERTY
    ComesUp
