SPECIFICATION DurSpec
CONSTANTS
    HEAD = HEAD
    NULL = NULL
    Blank = Blank
    Nodes = {n1, n2, n3}
    Readers = {}
    Getters = {}
    Putters = {p1}
    Updaters = {i1}
    NumBlocks = 2
    Messages = {m1, m2}
    MsgLen <- MCMsgLen
    Sizes = {}
    Timestamps = {1, 2}
    BreadFails = {}
    FilledBlocks = {0}
INVARIANTS
    AllOrNothing
SYMMETRY Symmetry
