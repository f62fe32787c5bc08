SPECIFICATION FairSpec
CONSTANTS
    MaxTransfers = 3
    MaxActs = 2
    MaxProgress = 1
    Limits <- OneOrThree
    DefaultLimit = 1
    MaxHistory = 1
    Download <- Second
    Staged <- Third
    Archived <- Third
    Asking <- FirstTwo
    Conflicting <- First
    None = None
INVARIANTS
    TypeOK
    QueueMatchesRows
    NoIdleSlot
    CompleteMeansConfirmed
PROPERTIES
    StartsWithinLimit
    SettledRowsStay
    TransfersEnd
CHECK_DEADLOCK FALSE
