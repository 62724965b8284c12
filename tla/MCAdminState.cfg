SPECIFICATION Spec
CONSTANTS
    Admins = {a1}
    ResourceIds = {r1, r2}
    ConnectorIds = {k1}
    Tokens = {x1, x2}
    Subdomains = {d1, d2}
    Targets = {lan, https}
    Direct = {https}
    Relayed = {lan}
    None = None
    MaxEdits = 1
    MaxFaults = 1
SYMMETRY Symmetric
INVARIANTS
    StatesConsistent
    RoutesMatch
    AnswersHold
CHECK_DEADLOCK FALSE
