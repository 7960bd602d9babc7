SPECIFICATION Spec
CONSTANTS
    Severities = {"Notice", "Info"}
    Printed = {"Notice"}
    Filters = {{"Notice"}, {"Notice", "Info"}}
    MaxCounts = {1, 2}
    Files = {"A", "B"}
    MaxTors = 1
    MaxMessages = 2
    MaxDepth = 2
INVARIANTS
    InOrder
    RegisteredAsFiltered
    LogsAsStored
CHECK_DEADLOCK FALSE
