SPECIFICATION Spec
CONSTANTS
    Skill = {s1, s2}
    Builtin = {b1}
    Version = {v0, v1}
    InitialVersion = v0
    Body = {good}
    ValidBody = {good}
    StarterBody = good
    ReleaseId = {i1, i2}
    None = None
    Request = {r1}
    Ops = {"create", "clone", "save", "validate", "publish", "activate", "enable", "fail"}
    MaxRevision = 2
    BuiltinPackage <- MCBuiltinPackage
SYMMETRY MCSymmetry
INVARIANTS
    RegistryMatchesStore
    EnabledFlagsAgree
    ValidationIsCurrent
PROPERTIES
    RevisionCountsEdits
