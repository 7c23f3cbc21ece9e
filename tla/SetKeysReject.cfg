SPECIFICATION EitherSpec
CONSTANTS
    Base = 2
    FieldLens <- OneField
    Interval = TRUE
    Map = TRUE
    Data <- Rejecting
    MaxAdds = 2
INVARIANTS
    RejectIsNotDrop
CHECK_DEADLOCK FALSE
