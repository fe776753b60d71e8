SPECIFICATION FairSpec
CONSTANTS
    MaxPort = 6
    DefaultExcludePorts <- DenyList
    d1 = d1
    d2 = d2
    c1 = c1
    Daemons <- TwoDaemons
    Clients <- OneClient
    Customs <- EdgeTexts
    NoFile = NoFile
    Torn = Torn
    MaxFaults = 1
    MaxEdits = 1
INVARIANTS
    TypeOK
    SoleDaemonReachable
    PathIsServed
PROPERTIES
    LoadsSound
    OperatorTextKept
    ShutdownEnds
    StatusAnswers
