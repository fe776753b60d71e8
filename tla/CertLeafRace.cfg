SPECIFICATION FairSpec
CONSTANTS
    CustomPairs = FALSE
    Fallback = TRUE
    AutoTrust = FALSE
    ACMEEnabled = FALSE
    LeafIssuers <- LocalCA
    MaxFaults = 1
PROPERTIES
    SelfPairServed
