SPECIFICATION FairSpec
CONSTANTS
    c1 = c1
    c2 = c2
    Conns <- TwoConns
    MaxConns = 1
PROPERTIES
    HalfCloseKept
