SPECIFICATION FairSpec
CONSTANTS
    MaxMessages = 3
    MaxSessions = 2
    MaxActs = 2
    MaxErrors = 2
    New = New
    None = None
INVARIANTS
    TypeOK
    SavedOnce
    NothingLost
    DeletedStaysOut
    DraftIsShown
PROPERTIES
    StopEnds
    EntriesResolve
CHECK_DEADLOCK FALSE
