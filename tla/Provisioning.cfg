SPECIFICATION FairSpec

CONSTANTS
    MaxSpec = 2
    MaxDisturbances = 0
    ParameterOrders = {"o1", "o2"}
    DefaultsVolumes = FALSE

INVARIANTS
    TypeOK
    NoOrphans
    FinalizerGuards

PROPERTIES
    RefinesOwnership
    ProvisioningConverges

CHECK_DEADLOCK FALSE
