SPECIFICATION LiveSpec

CONSTANTS
    AutomaticFailover = TRUE
    FailureThreshold = 2
    MinimumInterval = 1
    SafePromotion = TRUE
    ReadOnlyMode = TRUE
    AutomaticFailback = TRUE
    MaxTime = 0
    MaxWrites = 0
    MaxDisturbances = 2
    Lags = {"low"}
    PersistCounts = TRUE
    ScanFits = TRUE
    AdminPatches = FALSE

PROPERTIES
    FailoverConcludes
    HealthyClusterSettles
    PrimaryFailureDetected
    RecoveryEnds
