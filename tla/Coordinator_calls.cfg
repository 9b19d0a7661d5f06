\* Every call and every fault, expiry, and rivals that restart.
CONSTANTS
    w1 = w1
    w2 = w2
    d1 = d1
    Workers = {w1, w2}
    Destinations = {d1}
    DestinationOf <- OneDestination
    InitialEpoch = 1
    LeaseDuration = 0
    Calls = {"LeaseRequest", "DecisionPublish", "Heartbeat", "LeaseRenew"}
    Faults = {"RevokeAll", "StoreFailure"}
    MaxEpoch = 2
    MaxAdvanced = 2
    MaxLeases = 2
    MaxBoots = 3
    MaxStarts = 1
    MaxSequence = 1
    MaxPublished = 1
    MaxTime = 1
    MaxOrphans = 0
SPECIFICATION FairSpec
PROPERTIES
    LostOnlyToRivalOrSelf
    EveryCallReturns
CHECK_DEADLOCK FALSE
