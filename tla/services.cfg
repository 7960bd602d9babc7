SPECIFICATION Spec
CONSTANTS
    Names = {"a", "b"}
    HashNames = {"a"}
    Options = {"version 2", ""}
    MaxRows = 2
    MaxEdits = 3
    MaxShows = 2
INVARIANTS
    BoxesAreTrue
    DuplicatesExplained
PROPERTY
    UnpublishedKnowingly
CHECK_DEADLOCK FALSE
