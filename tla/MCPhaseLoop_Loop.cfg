\* Two phases, one major issue, two review rounds, two edits.
SPECIFICATION FairSpec
CONSTANTS
    NPhases = 2
    Blockers = {}
    Majors = {m}
    Minors = {}
    MaxAttempts = 2
    MaxTree = 2
INVARIANTS
    TypeOK
    
    
    EarlierPhasesDone
    PassingOpensGate
PROPERTIES
    RunEnds
CHECK_DEADLOCK FALSE
