CONSTANTS
    Tabs = {t1, t2}
    WsIds = {w1, w2}
    Projects = {p1, p2}
    Owners = {}
    Tokens = {k1, k2, k3}
    Overlap = TRUE
    OpenMayFail = TRUE
    MayRestart = TRUE
    None = None
SPECIFICATION Spec
SYMMETRY Symmetry
INVARIANTS
    TypeOK
    StatusMatchesLeases
    ExclusiveLease
    TokenNamesOneLease
    OpenedProjectOnDisk
PROPERTIES
    StaleTokenStaysStale
