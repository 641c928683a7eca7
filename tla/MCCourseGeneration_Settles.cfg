SPECIFICATION FairSpec
CONSTANTS
    NModules = 2
    Workers = {1}
    Selectable = {2}
    MaxSchedulers = 2
    MaxTroubles = 1
    AgentsMayFail = TRUE
INVARIANTS HeldOnce
 
