SPECIFICATION Spec
CONSTANTS
    Key = {k1}
    Ttl = 1
    ErrorTtl = 0
    MaxTime = 0
    None = None
    MaxSteps = 1
    MaxCalls = 1
PROPERTIES
    RunEnds
