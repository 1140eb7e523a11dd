SPECIFICATION FairSpec

CONSTANTS
    AutomaticFailover = TRUE
    FailureThreshold = 2
    MinimumInterval = 1
    SafePromotion = TRUE
    ReadOnlyMode = FALSE
    AutomaticFailback = TRUE
    MaxTime = 0
    MaxWrites = 0
    MaxDisturbances = 1
    Lags = {"low"}
    PersistCounts = TRUE
    ScanFits = FALSE
    AdminPatches = FALSE

PROPERTIES
    ReplicationConfigured
