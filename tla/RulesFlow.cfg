SPECIFICATION Spec
CONSTANTS
    LittleEndian = FALSE
    Families = {"Inet", "Ipv4"}
    Chains = {"base", "side"}
    Base = "base"
    Clauses <- FlowClauses
    Arriving <- FewPackets
    Junk = {255}
    MaxClauses = 3
    MaxRules = 2
    NoPacket = NoPacket
PROPERTIES
    RulesetSpec
CHECK_DEADLOCK FALSE
