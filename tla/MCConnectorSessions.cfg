SPECIFICATION FairSpec
CONSTANTS
    Connectors = {k1}
    Sessions = {s1, s2, s3}
    NoSession = NoSession
    Permits = 2
    MaxTokens = 2
INVARIANTS
    RegistryExact
    PermitsConserved
PROPERTIES
    ReplacementSurvives
    KickedSessionEnds
