SPECIFICATION FairSpec
CONSTANTS
    Terminals = {t1}
    MaxPhase = 2
    MaxSetbacks = 2
    None = None
    MayInterrupt = FALSE
    AgentsMayFail = FALSE
    SuiteMayFail = FALSE
    OutOfBand = FALSE
    MayForce = FALSE
INVARIANTS
    ValidatedBeforeDocs
PROPERTIES
    Completes
CHECK_DEADLOCK FALSE
