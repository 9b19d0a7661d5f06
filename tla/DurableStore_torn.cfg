\* A session dies inside a record; the next one appends behind it.
CONSTANTS
    SnapshotThreshold = 2
    Faults = {"TornRecord"}
    FaultySessions = {1}
    MaxSessions = 2
    MaxVersions = 5
SPECIFICATION Spec
INVARIANTS
    AcknowledgedIsRecoverable
CHECK_DEADLOCK FALSE
