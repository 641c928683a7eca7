SPECIFICATION Spec
CONSTANTS
    Terminals = {t1}
    MaxPhase = 1
    MaxSetbacks = 1
    None = None
    MayInterrupt = TRUE
    AgentsMayFail = TRUE
    SuiteMayFail = FALSE
    OutOfBand = TRUE
    MayForce = FALSE
INVARIANTS
    ReworkedGatesClosed
PROPERTIES
    GatesReapproved
CHECK_DEADLOCK FALSE
