SPECIFICATION FairSpec
CONSTANTS
    Backends = {codex, opencode}
    Contexts = {c1}
    Sessions = {s1, s2}
    Jobs = {j1}
    None = None
    Default = codex
    MaxRevision = 2
    MayHang = TRUE
INVARIANTS
    TypeOK
    KnownAgentsOfSelected
    RevisionNamesBackend
PROPERTIES
    SwitchEnds
CHECK_DEADLOCK FALSE
