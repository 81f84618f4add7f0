SPECIFICATION ReadSessionSpec
CONSTANTS
    m1 = m1
    HEAD = HEAD
    NULL = NULL
    Blank = Blank
    Nodes = {n1, n2, n3}
    Readers = {s1}
    Getters = {}
    Putters = {p1}
    Updaters = {i1}
    NumBlocks = 3
    Messages = {m2}
    MsgLen <- MCMsgLen
    Sizes = {}
    Timestamps = {1, 2}
    BreadFails = {}
    Sessions = {s1}
    METADATA_SIZE = 1
    NUM_METADATA_BLKS = 1
    Lens = {1}
    ReadFails = FALSE
INVARIANTS
    NoStaleDelivery
    EndMeansAllDelivered
SYMMETRY Symmetry
