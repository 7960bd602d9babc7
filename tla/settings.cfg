SPECIFICATION FairSpec
CONSTANTS
    Groups = {"Network", "Tor"}
    Values = {0, 1}
    Default = 0
    MaxBoxes = 1
    MaxRefusals = 1
INVARIANT
    UnmarkedIsInForce
PROPERTIES
    MarkedUntilSaved
    PendingIsApplied
