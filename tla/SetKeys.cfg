SPECIFICATION EitherSpec
CONSTANTS
    Base = 2
    FieldLens <- OneField
    Interval = TRUE
    Map = TRUE
    Data <- PortOrJump
    MaxAdds = 3
INVARIANTS
    TypeOK
    RangesMatched
    PairsFitDescription
PROPERTIES
    RangeMapSpec
    PairMapSpec
CHECK_DEADLOCK FALSE
