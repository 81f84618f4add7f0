SPECIFICATION FairSpec
CONSTANTS
    m1 = m1
    HEAD = HEAD
    NULL = NULL
    Blank = Blank
    Nodes = {n1, n2, n3}
    Readers = {g1}
    Getters = {g1}
    Putters = {p1, p2}
    Updaters = {i1}
    NumBlocks = 1
    Messages = {m1}
    MsgLen <- MCMsgLen
    Sizes = {1}
    Timestamps = {1}
    BreadFails = {"put", "get"}
INVARIANTS
    SingleOwner

    
