SPECIFICATION Spec
CONSTANTS
    MaxPort = 3
    HTTPSOffset = 1
    GracePolls = 2
    HTTPSAuto = TRUE
    RelayAuto = TRUE
    HTTPSRules <- OneRule
    ExcludePorts <- NoPorts
    RelayAllow <- AllPorts
    HTTPSAllow <- AllPorts
    HTTPServices <- AllPorts
    HostSockets <- RuleHost
    Neighbours <- NoNeighbours
    MaxChurn = 2
    FlakyProbes = FALSE
    FlakyBinds = FALSE
    FlakySelfFds = FALSE
INVARIANTS
    ExplicitPrecedence
