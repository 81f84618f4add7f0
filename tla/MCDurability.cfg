SPECIFICATION DurSpec
CONSTANTS
    HEAD = HEAD
    NULL = NULL
    Blank = Blank
    Nodes = {n1, n2, n3, n4}
    Readers = {}
    Getters = {}
    Putters = {p1, p2}
    Updaters = {i1}
    NumBlocks = 2
    Messages = {m1, m2}
    MsgLen <- MCMsgLen
    Sizes = {}
    Timestamps = {1, 2}
    BreadFails = {}
    FilledBlocks = {0}
INVARIANTS
    DurTypeOK
    AckedPutsSurvive
    NoResurrection
    MountAgrees
SYMMETRY Symmetry
