SPECIFICATION Spec
CONSTANTS
    Method = "Port"
    MaxConnectAttempts = 1
    MaxSends = 3
    MaxConnects = 1
    MaxEvents = 0
    SendKinds = {"reply", "wide"}
    ClientOps = {}
INVARIANT
    NoCircularWait
CHECK_DEADLOCK FALSE
