SPECIFICATION HelpersSpec
CONSTANTS
    BrowserDirectory = TRUE
    HasIM = TRUE
    MaxPackages = 1
    MaxChecks = 3
    MaxDepth = 2
INVARIANTS
    ProgressIsTrue
    TorComesBack
PROPERTIES
    QuitsWithThem
    QuitsOnlyThen
CHECK_DEADLOCK FALSE
