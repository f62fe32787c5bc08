SPECIFICATION Spec
CONSTANTS
    c1 = c1
    c2 = c2
    p1 = p1
    p2 = p2
    Conn <- FirstConn
    Prompting <- Nothing
    Unknown <- Nothing
    MaxTabs = 1
    MaxRequests = 1
    Host <- FirstConn
    Path <- OnePath
    MaxTexts = 3
    MaxCalls = 1
    Budgets <- OneEditor
    None = None
    Nobody = Nobody
INVARIANT
    CleanIsSaved
CHECK_DEADLOCK FALSE
