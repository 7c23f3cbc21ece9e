SPECIFICATION FairTxSpec
CONSTANTS
    Releases <- MCReleases
    DebugBuild = FALSE
    PageSizes = {6, 7, 8, 10, 11}
    U32Max = 16
    MsgMax = 6
    FrameLen = 2
    MsgLens = {1, 3, 6}
    MaxMsgs = 4
    QueueMax = 4
INVARIANTS
    TypeOK
    TxTypeOK
    OkMeansCommitted
    ErrMeansNotCommitted
    AnswersMatch
    AllAnswersRead
    EveryNumberAsked
    Framed
    BuffersComplete
PROPERTIES
    DriverReturns
    AtomicSpec
    LogSpec
CHECK_DEADLOCK FALSE
