SPECIFICATION SendSpec
CONSTANTS
    ElemLens <- MCElemLens
    NestHdr = 1
    NestMax = 7
    MsgHdr = 1
    MsgMax = 11
    MaxElems = 4
    MaxHeld = 2
    Releases <- MCReleases
    DebugBuild = TRUE
    PageSizes = {0, 5, 7, 11, 21, 22}
    U32Max = 32
    FrameLen = 1
    OtherLens = {1, 2}
    MaxMsgs = 5
INVARIANTS
    EmptyOnlyAtEnd
    WritesInRoom
    NumbersIncrease
    RoomForAny
    SetDelivered
CHECK_DEADLOCK FALSE
