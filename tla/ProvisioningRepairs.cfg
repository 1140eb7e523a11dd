SPECIFICATION FairSpec

CONSTANTS
    MaxSpec = 1
    MaxDisturbances = 1
    ParameterOrders = {"o1"}
    DefaultsVolumes = FALSE

INVARIANTS
    FinalizerGuards

PROPERTIES
    RefinesOwnership
    ProvisioningConverges
    DeletionCleansUp

CHECK_DEADLOCK FALSE
