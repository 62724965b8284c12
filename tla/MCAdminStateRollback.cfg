SPECIFICATION Spec
CONSTANTS
    Admins = {a1}
    ResourceIds = {r1}
    ConnectorIds = {k1}
    Tokens = {x1}
    Subdomains = {d1}
    Targets = {lan, https}
    Direct = {https}
    Relayed = {lan}
    None = None
    MaxEdits = 1
    MaxFaults = 1
PROPERTY RollbackMatchesDisk
CHECK_DEADLOCK FALSE
