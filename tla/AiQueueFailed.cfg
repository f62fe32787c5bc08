SPECIFICATION Spec
CONSTANTS
    MaxMessages = 2
    MaxSessions = 2
    MaxActs = 2
    MaxErrors = 1
    New = New
    None = None
PROPERTIES
    FailedNeedsRetry
CHECK_DEADLOCK FALSE
