SPECIFICATION Spec
CONSTANTS
    Tables <- MCTables
    Chains <- MCChains
    Sets <- MCSets
    SetFamily <- OwnFamily
    Keys = {1, 2}
    Handles = {1, 2, 3, 4, 5}
    Known = {1}
    Policies = {"drop"}
    None = None
    PerMsg = 1
    Starts <- MCStarts
    MaxCalls = 2
    MaxLocal = 1
INVARIANTS
    FlushEmpties
CHECK_DEADLOCK FALSE
