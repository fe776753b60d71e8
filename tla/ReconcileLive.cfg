SPECIFICATION FairSpec
CONSTANTS
    MaxPort = 3
    HTTPSOffset = 1
    GracePolls = 2
    HTTPSAuto = TRUE
    RelayAuto = TRUE
    HTTPSRules <- TwoRules
    ExcludePorts <- NoPorts
    RelayAllow <- Low
    HTTPSAllow <- AllPorts
    HTTPServices <- AllPorts
    HostSockets <- RowHost
    Neighbours <- NoNeighbours
    MaxChurn = 2
    FlakyProbes = FALSE
    FlakyBinds = FALSE
    FlakySelfFds = FALSE
PROPERTIES
    ShutdownCompletes
    DeadBackendsRecycled
    EventuallyServed
    SelfProxyEnds
