SPECIFICATION Spec
CONSTANTS
    CustomPairs = FALSE
    Fallback = TRUE
    AutoTrust = TRUE
    ACMEEnabled = FALSE
    LeafIssuers <- NoOne
    MaxFaults = 3
INVARIANTS
    TrustIsReal
