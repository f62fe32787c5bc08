SPECIFICATION FairSpec
CONSTANTS
    k1 = k1  k2 = k2  k3 = k3
    g1 = g1  g2 = g2
    c1 = c1  c2 = c2
    n1 = n1  n2 = n2
    None = None
    Conn <- ThreeConns
    Sig <- TwoSigs
    Call <- TwoCalls
    Number <- TwoNumbers
    Asked <- Requests
    MaxCached = 1
    MaxStarts = 3
    MaxEvents = 1
INVARIANTS
    TypeOK
    CachedIsOpen
    RunsOnOwnConfiguration
    RetryUsesAnother
    UseIsCounted
    CacheBound
PROPERTIES
    NeverClosedUnderCommand
    FailedIsOut
    CallsReturn
CHECK_DEADLOCK FALSE
