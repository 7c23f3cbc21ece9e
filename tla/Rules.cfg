SPECIFICATION Spec
CONSTANTS
    LittleEndian = TRUE
    Families = {"Inet"}
    Chains = {"base", "side"}
    Base = "base"
    Clauses <- TestClauses
    Arriving <- AllPackets
    Junk = {255}
    MaxClauses = 2
    MaxRules = 2
    NoPacket = NoPacket
INVARIANTS
    TypeOK
    ReadsAreWritten
PROPERTIES
    RulesetSpec
CHECK_DEADLOCK FALSE
