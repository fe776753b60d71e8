SPECIFICATION FairSpec
CONSTANTS
    MaxPort = 3
    HTTPSOffset = 1
    GracePolls = 2
    HTTPSAuto = TRUE
    RelayAuto = TRUE
    HTTPSRules <- NoRules
    ExcludePorts <- NoPorts
    RelayAllow <- AllPorts
    HTTPSAllow <- AllPorts
    HTTPServices <- AllPorts
    HostSockets <- SteadyHost
    Neighbours <- OneNeighbour
    MaxChurn = 1
    FlakyProbes = FALSE
    FlakyBinds = FALSE
    FlakySelfFds = FALSE
PROPERTIES
    NeighbourReturns
