SPECIFICATION ReadSessionSpec
CONSTANTS
    m1 = m1
    HEAD = HEAD
    NULL = NULL
    Blank = Blank
    Nodes = {n1, n2}
    Readers = {s1}
    Getters = {}
    Putters = {p1}
    Updaters = {i1}
    NumBlocks = 4
    Messages = {m1, m2}
    MsgLen <- MCMsgLen
    Sizes = {}
    Timestamps = {1}
    BreadFails = {}
    Sessions = {s1}
    METADATA_SIZE = 1
    NUM_METADATA_BLKS = 2
    Lens = {1, 3}
    ReadFails = TRUE
INVARIANTS
    SessTypeOK
    CopyWithinMessage
SYMMETRY Symmetry
