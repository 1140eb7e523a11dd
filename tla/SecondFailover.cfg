SPECIFICATION Spec

CONSTANTS
    AutomaticFailover = TRUE
    FailureThreshold = 1
    MinimumInterval = 1
    SafePromotion = FALSE
    ReadOnlyMode = FALSE
    AutomaticFailback = TRUE
    MaxTime = 1
    MaxWrites = 0
    MaxDisturbances = 2
    Lags = {"low"}
    PersistCounts = FALSE
    ScanFits = TRUE
    AdminPatches = TRUE

INVARIANT
    PromotionShows

PROPERTIES
    RefinesLifecycle
    NoLostUpdate
