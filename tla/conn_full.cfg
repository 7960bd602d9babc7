SPECIFICATION Spec
CONSTANTS
    Method = "Port"
    MaxConnectAttempts = 1
    MaxSends = 3
    MaxConnects = 2
    MaxEvents = 1
    SendKinds = {"reply", "wide", "signal"}
    ClientOps = {"disconnect", "cancel"}
INVARIANTS
    Consistent
    NoOrphanedCaller
    MismatchIsExplained
    DeadlockIsExplained
CHECK_DEADLOCK FALSE
