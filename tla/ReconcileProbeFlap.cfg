SPECIFICATION Spec
CONSTANTS
    MaxPort = 3
    HTTPSOffset = 1
    GracePolls = 2
    HTTPSAuto = TRUE
    RelayAuto = FALSE
    HTTPSRules <- NoRules
    ExcludePorts <- NoPorts
    RelayAllow <- AllPorts
    HTTPSAllow <- AllPorts
    HTTPServices <- AllPorts
    HostSockets <- OneHost
    Neighbours <- NoNeighbours
    MaxChurn = 0
    FlakyProbes = TRUE
    FlakyBinds = FALSE
    FlakySelfFds = FALSE
PROPERTIES
    GraceForUpgrades
