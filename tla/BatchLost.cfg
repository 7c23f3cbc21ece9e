SPECIFICATION Spec
CONSTANTS
    Releases <- MCReleases
    DebugBuild = FALSE
    PageSizes = {3}
    U32Max = 16
    MsgMax = 6
    FrameLen = 2
    MsgLens = {1, 3, 6}
    MaxMsgs = 4
INVARIANTS
    EveryNumberAsked
CHECK_DEADLOCK FALSE
