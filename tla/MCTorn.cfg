SPECIFICATION Spec
CONSTANTS
    m1 = m1
    HEAD = HEAD
    NULL = NULL
    Blank = Blank
    Nodes = {n1, n2}
    Readers = {g1}
    Getters = {g1}
    Putters = {p1}
    Updaters = {i1}
    NumBlocks = 1
    Messages = {m1, m2}
    MsgLen <- MCMsgLen
    Sizes = {2}
    Timestamps = {1}
    BreadFails = {}
INVARIANTS
    NeverTorn
SYMMETRY Symmetry
