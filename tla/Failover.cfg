SPECIFICATION Spec

CONSTANTS
    AutomaticFailover = TRUE
    FailureThreshold = 2
    MinimumInterval = 1
    SafePromotion = TRUE
    ReadOnlyMode = FALSE
    AutomaticFailback = TRUE
    MaxTime = 0
    MaxWrites = 1
    MaxDisturbances = 2
    Lags = {"low"}
    PersistCounts = TRUE
    ScanFits = TRUE
    AdminPatches = FALSE

INVARIANTS
    TypeOK
    FreshCopiesAgree
    HandlerMatchesPhase
    PromotedBeforeRecord
    OnlyPromotedServes

PROPERTIES
    RefinesLifecycle
    HistoryAppendOnly
    FailingIsLeftByHand
