SPECIFICATION Spec
CONSTANTS
    Tables <- MCTables
    Chains <- MCChains
    Sets <- MCSets
    SetFamily <- OwnFamily
    Keys = {1, 2}
    Handles = {1, 2, 3, 4, 5}
    Known = {1}
    Policies = {"drop"}
    None = None
    PerMsg = 1
    Starts <- MCStarts
    MaxCalls = 3
    MaxLocal = 2
PROPERTIES
    InventorySpec
CHECK_DEADLOCK FALSE
