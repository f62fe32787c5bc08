SPECIFICATION FairSpec
CONSTANTS
    c1 = c1
    c2 = c2
    p1 = p1
    p2 = p2
    Conn <- Both
    Prompting <- SecondConn
    Unknown <- SecondConn
    MaxTabs = 2
    MaxRequests = 3
    Host <- Both
    Path <- Paths
    MaxTexts = 2
    MaxCalls = 2
    Budgets <- Mixed
    None = None
    Nobody = Nobody
INVARIANTS
    TypeOK
    NoOrphanSession
    OneAttempt
    DisconnectedIsEnded
PROPERTIES
    ShownStaysOpen
    DirtyIsAsked
    BusyEnds
    SessionsEnd
CHECK_DEADLOCK FALSE
