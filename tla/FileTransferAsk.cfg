SPECIFICATION FairSpec
CONSTANTS
    MaxTransfers = 2
    MaxActs = 0
    MaxProgress = 0
    Limits <- Two
    DefaultLimit = 2
    MaxHistory = 1
    Download <- Nothing
    Staged <- Nothing
    Archived <- Nothing
    Asking <- FirstTwo
    Conflicting <- FirstTwo
    None = None
PROPERTIES
    ConflictsAreAsked
CHECK_DEADLOCK FALSE
