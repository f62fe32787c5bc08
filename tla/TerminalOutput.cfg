SPECIFICATION FairSpec
CONSTANTS
    MaxSessions = 2
    MaxOutput = 3
    BatchBytes = 2
    BatchChars = 2
    Blank <- FirstChunk
    Copies <- ThirdChunk
    None = None
INVARIANTS
    TypeOK
    ShownInOrder
    NothingLost
PROPERTIES
    AllShown
CHECK_DEADLOCK FALSE
