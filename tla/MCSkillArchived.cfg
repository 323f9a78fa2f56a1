SPECIFICATION Spec
CONSTANTS
    Skill = {s1}
    Builtin = {}
    Version = {v0, v1}
    InitialVersion = v0
    Body = {good, bad}
    ValidBody = {good}
    StarterBody = good
    ReleaseId = {i1, i2}
    None = None
    Request = {r1}
    Ops = {"create", "validate", "publish", "archive"}
    MaxRevision = 2
    BuiltinPackage <- MCBuiltinPackage
SYMMETRY MCSymmetry
PROPERTIES
    ArchivedStaysArchived
