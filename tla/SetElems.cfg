SPECIFICATION FairSpec
CONSTANTS
    ElemLens <- MCElemLens
    NestHdr = 1
    NestMax = 9
    MsgHdr = 2
    MsgMax = 14
    MaxElems = 6
    MaxHeld = 2
INVARIANTS
    TypeOK
    PairsIntact
    SentOnceInOrder
    MessagesTiled
    WritesInBounds
    MessagesNeeded
    AllSent
PROPERTIES
    IterationEnds
    StreamSpec
CHECK_DEADLOCK FALSE
