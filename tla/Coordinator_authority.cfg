\* Two coordinators and an epoch advance: workers reconnect, late frames are handled.
CONSTANTS
    w1 = w1
    w2 = w2
    d1 = d1
    Workers = {w1, w2}
    Destinations = {d1}
    DestinationOf <- OneDestination
    InitialEpoch = 1
    LeaseDuration = 0
    Calls = {"LeaseRequest", "DecisionPublish", "UnleasedPublish"}
    Faults = {}
    MaxEpoch = 5
    MaxAdvanced = 1
    MaxLeases = 2
    MaxBoots = 2
    MaxStarts = 2
    MaxSequence = 2
    MaxPublished = 2
    MaxTime = 0
    MaxOrphans = 1
SYMMETRY Symmetry
SPECIFICATION Spec
INVARIANTS
    TypeOK
    EpochNeverReused
    NoEpochFromTheFuture
    OnlyNewestLeaseLives
PROPERTIES
    NoDecisionFromSupersededLease
    ImplementsLeaseAuthority
CHECK_DEADLOCK FALSE
