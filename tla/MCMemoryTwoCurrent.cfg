SPECIFICATION Spec
CONSTANTS
    Request = {r1, r2}
    Threshold = 8
    RecentLimit = 4
    MaxMessage = 4
    MaxOverlapping = 4
    MaxSummaries = 3
    None = None
SYMMETRY MCSymmetry
INVARIANTS
    OneCurrentSummary
