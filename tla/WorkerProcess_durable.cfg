\* Three sessions that a rival supersedes and that die anywhere; the last may also die inside a record or before the removal.
CONSTANTS
    SnapshotThreshold = 2
    Faults = {"TornRecord", "MissedRemoval"}
    FaultySessions = {3}
    MaxSessions = 3
    MaxVersions = 6
    MaxCycles = 2
SPECIFICATION WorkerSpec
INVARIANTS
    WorkerTypeOK
    AcknowledgedIsRecoverable
    DurableWasAnswered
    OnlyLastDecisionLost
    OwnEvidenceIsTaken
PROPERTIES
    RecoveryNeverGoesBack
    JournalsOnlyGrow
CHECK_DEADLOCK FALSE
