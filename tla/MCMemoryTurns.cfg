SPECIFICATION Spec
CONSTANTS
    Request = {r1, r2}
    Threshold = 8
    RecentLimit = 6
    MaxMessage = 16
    MaxOverlapping = 5
    MaxSummaries = 4
    None = None
SYMMETRY MCSymmetry
INVARIANTS
    TypeOK
    VersionsAreConsecutive
    SummariesCountTheirMessages
    SomeSummaryIsCurrent
    EveryMessageIsFoldedOrPending
    WindowFollowsSummary
PROPERTIES
    CoverageGrows
