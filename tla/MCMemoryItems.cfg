SPECIFICATION Spec
CONSTANTS
    Budget = 1000
    WindowLimit = 4
    SummaryTarget = 128
    Turn = {t1}
    Admin = {a1, a2, a3}
    Content = {Short, Long}
    Short = Short
    Long = Long
    LineSize <- MCLineSize
    Expiry <- MCExpiryUtc
    Body <- MCBody
    Payload <- MCPayload
    History <- MCHistory
    Extractions <- MCExtractions
    Limit = 2
    MaxItems = 2
    MaxTime = 1
    None = None
SYMMETRY MCSymmetry
INVARIANTS
    TypeOK
    DeletedStaysForgotten
    PromptWithinBudget
    PromptIsFull
PROPERTIES
    ImplementsGovernance
