SPECIFICATION FairSpec

CONSTANTS
    AutomaticFailover = TRUE
    FailureThreshold = 1
    MinimumInterval = 1
    SafePromotion = FALSE
    ReadOnlyMode = FALSE
    AutomaticFailback = FALSE
    MaxDisturbances = 1
    Lags = {"low"}
    PersistCounts = FALSE
    ScanFits = TRUE

INVARIANTS
    TypeOK
    PromotionShows
    OnlyPromotedServes

PROPERTIES
    FollowsLifecycle
    HistoryAppendOnly
    FailingIsLeftByOthers
    FailoverConcludes
