\* Three windows of two processes, delivered in any order, twice or never.
CONSTANTS
    Classes <- MCClasses
    StampOf <- MCStampOf
    Policies <- MCPolicies
    InitialPolicy <- Ordinary
    InitialGeneration = 1
    Generations = {0, 1, 2}
    Observations <- MCObservations
    MaxBoots = 2
    MaxGrants = 2
    MaxWindows = 3
    MaxAccepted = 3
SPECIFICATION Spec
INVARIANTS
    TypeOK
    TakenInOrder
    RefusedForCause
    GenerationsNeverGoBack
CHECK_DEADLOCK FALSE
