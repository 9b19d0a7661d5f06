\* A heartbeat hands a worker an epoch its lease was not granted in.
CONSTANTS
    w1 = w1
    w2 = w2
    d1 = d1
    Workers = {w1, w2}
    Destinations = {d1}
    DestinationOf <- OneDestination
    InitialEpoch = 1
    LeaseDuration = 0
    Calls = {"LeaseRequest", "DecisionPublish", "UnleasedPublish", "Heartbeat", "LeaseRenew"}
    Faults = {}
    MaxEpoch = 2
    MaxAdvanced = 2
    MaxLeases = 2
    MaxBoots = 2
    MaxStarts = 1
    MaxSequence = 1
    MaxPublished = 2
    MaxTime = 0
    MaxOrphans = 0
SPECIFICATION Spec
INVARIANTS
    DecisionsBoundToGrantedEpoch
CHECK_DEADLOCK FALSE
