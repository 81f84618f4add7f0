SPECIFICATION LifeSpec
CONSTANTS
    Original <- MCOriginal
    Pattern = {2, 5, 6, 7}
    MAX_FREE = 5
    MAX_ACQUIRES = 4
    NiParam = "ni"
    Callers = {c1, c2, c3}
    Mounters = {d1, d2}
    Superblocks = {x1, x2}
    NumBlocks = 2
    NULL = NULL
INVARIANTS
    LifeTypeOK
    
    
    
    
SYMMETRY Symmetry
CHECK_DEADLOCK FALSE
