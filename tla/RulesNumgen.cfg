SPECIFICATION Spec
CONSTANTS
    LittleEndian = TRUE
    Families = {"Ipv4"}
    Chains = {"base", "side"}
    Base = "base"
    Clauses <- NatClauses
    Arriving <- Packets4
    Junk = {255}
    MaxClauses = 2
    MaxRules = 1
    NoPacket = NoPacket
INVARIANTS
    BackendsAreFound
CHECK_DEADLOCK FALSE
