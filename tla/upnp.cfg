SPECIFICATION FairSpec
CONSTANTS
    DirPorts = {1}
    OrPorts = {2, 3}
    MaxChanges = 2
    MaxReboots = 1
    MaxRefusals = 1
INVARIANT
    CompleteIsMapped
PROPERTIES
    LeavesNoMapping
    Forwards
    StopReturns
