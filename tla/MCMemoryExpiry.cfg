SPECIFICATION Spec
CONSTANTS
    Budget = 1000
    WindowLimit = 4
    SummaryTarget = 128
    Turn = {t1}
    Admin = {a1}
    Content = {Short, Long}
    Short = Short
    Long = Long
    LineSize <- MCLineSize
    Expiry <- MCExpiryZone
    Body <- MCBody
    Payload <- MCPayload
    History <- MCHistory
    Extractions <- MCExtractions
    Limit = 2
    MaxItems = 1
    MaxTime = 1
    None = None
PROPERTIES
    ExpiredIsNotRecalled
