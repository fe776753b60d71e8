SPECIFICATION FairSpec
CONSTANTS
    CustomPairs = TRUE
    Fallback = TRUE
    AutoTrust = TRUE
    ACMEEnabled = FALSE
    LeafIssuers <- PublicCA
    MaxFaults = 3
INVARIANTS
    TypeOK
    NilMeansServing
    MarkNotAhead
    CAFilesMatch
PROPERTIES
    TrustedCAKept
    RotationApplied
    FallbackRecovers
