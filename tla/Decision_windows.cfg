\* Populations that are synchronised, spread, protected, contradictory, duplicated or clipped.
CONSTANTS
    MaxSenders = 3
    MaxQueues = 1
    MaxWord = 2000000000
    Windows <- AllWindows
    Policies <- ThreePolicies
    InitialPolicy <- Default
SPECIFICATION FairSpec
INVARIANTS
    TypeOK
    WithinBounds
    PenalizesOnlyProvable
    ExcessIsAnswered
    ProtectedDemandIsKept
    ReductionIsNeeded
PROPERTIES
    IssuedOnlyWhenCompressed
    WeakensOnlyAfterCalm
    CalmRetires
