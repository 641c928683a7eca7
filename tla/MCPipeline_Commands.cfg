SPECIFICATION Spec
CONSTANTS
    Terminals = {t1}
    MaxPhase = 2
    MaxSetbacks = 3
    None = None
    MayInterrupt = FALSE
    AgentsMayFail = FALSE
    SuiteMayFail = TRUE
    OutOfBand = FALSE
    MayForce = TRUE
INVARIANTS
    TypeOK
    StageIsAuthorized
    GateHasSnapshot
    ApprovedIsCurrent
PROPERTIES
    FollowsGateOrder
CHECK_DEADLOCK FALSE
