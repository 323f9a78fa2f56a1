SPECIFICATION Spec
CONSTANTS
    Skill = {s1}
    Builtin = {}
    Version = {v0, v1}
    InitialVersion = v0
    Body = {good, bad}
    ValidBody = {good}
    StarterBody = good
    ReleaseId = {i1, i2}
    None = None
    Request = {r1, r2}
    Ops = {"create", "save"}
    MaxRevision = 3
    BuiltinPackage <- MCBuiltinPackage
SYMMETRY MCSymmetry
PROPERTIES
    RevisionCountsEdits
