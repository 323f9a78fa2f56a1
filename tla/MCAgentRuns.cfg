SPECIFICATION Spec
CONSTANTS
    Key = {k1}
    Ttl = 2
    ErrorTtl = 1
    MaxTime = 2
    None = None
    MaxSteps = 2
    MaxCalls = 2
INVARIANTS
    TypeOK
    CallsAreAnswered
    StreamIsWellFormed
    ReusedWithinTtl
PROPERTIES
    NoProcessLeft
    RunEndsUnlessHeld
