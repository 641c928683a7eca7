SPECIFICATION Spec
CONSTANTS
    Names = {a, b}
    Folders = {f1}
    Documents = {d1}
    Notes = {n1}
    MaxDepth = 2
    MaxFaults = 2
    None = None
SYMMETRY Symmetry
VIEW Followed
INVARIANTS
    NothingLost

    
CHECK_DEADLOCK FALSE
