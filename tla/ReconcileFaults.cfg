SPECIFICATION Spec
CONSTANTS
    MaxPort = 3
    HTTPSOffset = 1
    GracePolls = 2
    HTTPSAuto = TRUE
    RelayAuto = TRUE
    HTTPSRules <- OneRule
    ExcludePorts <- NoPorts
    RelayAllow <- Low
    HTTPSAllow <- AllPorts
    HTTPServices <- Low
    HostSockets <- RuleHost
    Neighbours <- Restarting
    MaxChurn = 4
    FlakyProbes = TRUE
    FlakyBinds = TRUE
    FlakySelfFds = TRUE
INVARIANTS
    TypeOK
    SocketsMatchTable
    PoliteYield
    TableSettled
    OnlyPermitted
    ForwardsRight
    NeverProbesItself
PROPERTIES
    GraceRespected
    ImplementsLifecycle
