\* RevokeAll advances the epoch without the ledger.
CONSTANTS
    w1 = w1
    w2 = w2
    d1 = d1
    Workers = {w1, w2}
    Destinations = {d1}
    DestinationOf <- OneDestination
    InitialEpoch = 1
    LeaseDuration = 0
    Calls = {"LeaseRequest", "DecisionPublish", "UnleasedPublish"}
    Faults = {"RevokeAll"}
    MaxEpoch = 3
    MaxAdvanced = 3
    MaxLeases = 2
    MaxBoots = 2
    MaxStarts = 2
    MaxSequence = 1
    MaxPublished = 2
    MaxTime = 0
    MaxOrphans = 0
SPECIFICATION Spec
INVARIANTS
    EpochNeverReused
CHECK_DEADLOCK FALSE
