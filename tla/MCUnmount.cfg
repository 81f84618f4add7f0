SPECIFICATION LifeFairSpec
CONSTANTS
    Original <- MCOriginal
    Pattern = {2, 5, 6, 7}
    MAX_FREE = 5
    MAX_ACQUIRES = 4
    NiParam = "ni"
    Callers = {c1}
    Mounters = {d1}
    Superblocks = {x1}
    NumBlocks = 2
    NULL = NULL
PROPERTIES
    UnmountReleasesLock
CHECK_DEADLOCK FALSE
