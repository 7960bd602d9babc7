SPECIFICATION Spec
CONSTANTS
    Circuits = {c1, c2}
    Streams = {s1}
    MaxRelays = 1
    MaxQueue = 1
    MaxDepth = 2
    MaxConnects = 2
INVARIANTS
    RemovalsExist
    BlankWhenDisconnected
    SettledIsTrue
PROPERTY
    ClosedDisappears
CHECK_DEADLOCK FALSE
