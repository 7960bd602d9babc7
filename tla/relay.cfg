SPECIFICATION RelaySpec
CONSTANTS
    DirLines = {9031}
    BoxSets = {{"Misc"}, {"IRC", "Websites"}, {"Websites", "SecWebsites", "Mail", "IRC", "IM", "Misc"}}
    Entries = {2, 6}
    Rates = {0, 5, 600}
    MaxEdits = 4
INVARIANTS
    ExitAsTicked
    ForwardsAsTor
PROPERTIES
    ShownAsChosen
CHECK_DEADLOCK FALSE
