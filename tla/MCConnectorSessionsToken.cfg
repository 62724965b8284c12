SPECIFICATION Spec
CONSTANTS
    Connectors = {k1}
    Sessions = {s1, s2}
    NoSession = NoSession
    Permits = 2
    MaxTokens = 2
INVARIANT OldTokenNeverServes
