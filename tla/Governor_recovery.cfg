\* Two clean windows under a policy that requires three.
CONSTANTS
    Policies <- OnePolicy
    InitialPolicy <- Default
    Duration = 0
    MaxClean = 3
    MaxInterventions = 2
    Levels = {2}
    Times = {0, 1}
    MaxGrants = 1
    MaxIssued = 1
SPECIFICATION Spec
PROPERTIES
    RelaxesOnlyWhenPermitted
CHECK_DEADLOCK FALSE
