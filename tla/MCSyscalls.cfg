SPECIFICATION Spec
CONSTANTS
    m1 = m1
    HEAD = HEAD
    NULL = NULL
    Blank = Blank
    Nodes = {n1, n2, n3}
    Readers = {g1}
    Getters = {g1}
    Putters = {p1, p2}
    Updaters = {i1, i2}
    NumBlocks = 2
    Messages = {m1}
    MsgLen <- MCMsgLen
    Sizes = {2}
    Timestamps = {1, 2}
    BreadFails = {"get"}
INVARIANTS
    TypeOK
    ListSorted
    CopiesAgree
    ListedBlockIsWhole
    CopyIsStoredMessage
    NoUseAfterFree
    MissIsJustified
PROPERTIES
    StoredDataStable
    ImplementsStore
SYMMETRY Symmetry
