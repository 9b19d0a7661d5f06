\* A worker restarts after a policy change and is given the new policy again.
CONSTANTS
    Policies <- TwoPolicies
    InitialPolicy <- Default
    Duration = 0
    MaxClean = 2
    MaxInterventions = 2
    Levels = {1}
    Times = {0}
    MaxGrants = 3
    MaxIssued = 2
SPECIFICATION Spec
INVARIANTS
    EnforcedUnderConfiguredPolicy
CHECK_DEADLOCK FALSE
