SPECIFICATION FairSpec

CONSTANTS
    MaxSpec = 1
    MaxDisturbances = 0
    ParameterOrders = {"o1"}
    DefaultsVolumes = TRUE

PROPERTIES
    SecondaryCreated

CHECK_DEADLOCK FALSE
