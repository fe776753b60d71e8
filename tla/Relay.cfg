SPECIFICATION FairSpec
CONSTANTS
    c1 = c1
    c2 = c2
    Conns <- TwoConns
    MaxConns = 1
INVARIANTS
    TypeOK
    SlotsAccounted
    FdCeiling
    ActiveExact
    ActiveWithinCeiling
PROPERTIES
    ImplementsAdmission
    StopUnblocks
    QueueDrains
    HalfCloseForwarded
    SlotReturns
