SPECIFICATION WearSpec
CONSTANTS
    NumBlocks = 4
    Messages = {m1}
    MsgLen <- MCMsgLen
    Timestamps = {1}
    Empty = Empty
INVARIANTS
    WearTypeOK
PROPERTIES
    NoBlockWrittenTwice
