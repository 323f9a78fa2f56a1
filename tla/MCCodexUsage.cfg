SPECIFICATION Spec
CONSTANTS
    Request = {r1, r2}
    File = {f1}
    Total <- MCTotal
    Model = {m1}
    Fallback = m0
    MaxLines = 4
    None = None
SYMMETRY MCSymmetry
INVARIANTS
    TypeOK
    ImportIsExact
PROPERTIES
    CursorAdvances
