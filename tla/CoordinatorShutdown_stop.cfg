\* Two clients that connect, stop or block at any moment, an owner that stops, accept errors.
CONSTANTS
    c1 = c1
    c2 = c2
    Clients = {c1, c2}
    Sends <- TwoClients
    Wake = Wake
    Owner = Owner
    Faults = {"AcceptFailure"}
SPECIFICATION Spec
INVARIANTS
    TypeOK
    NoSessionEscapesTheSweeps
PROPERTIES
    StopEndsRun
CHECK_DEADLOCK FALSE
