\* Windows of every kind and time, policy changes, renewals, restarts and saved states.
CONSTANTS
    Policies <- AllPolicies
    InitialPolicy <- Default
    Duration = 0
    MaxClean = 2
    MaxInterventions = 2
    Levels = {2}
    Times = {0, 1}
    MaxGrants = 2
    MaxIssued = 2
SPECIFICATION Spec
INVARIANTS
    TypeOK
    OneLiveIntervention
    NothingEnforcedFromEarlierBoot
    RevalidationIsFlagged
    NothingLiveAfterShutdown
    LiveFollowsIncident
PROPERTIES
    EnforcedByItsOwner
    SettledIsFinal
    ImplementsEnforcement
CHECK_DEADLOCK FALSE
