SPECIFICATION StatusSpec
CONSTANTS
    Reported <- OneOfEach
    Limits = {1, 2}
    MaxQueue = 2
    MaxSlots = 2
    MaxConnects = 2
INVARIANTS
    LastWordIsRight
    EstablishedIsNoticed
    OnlineOnce
CHECK_DEADLOCK FALSE
