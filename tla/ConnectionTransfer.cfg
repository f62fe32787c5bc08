SPECIFICATION FairSpec
CONSTANTS
    s1 = s1  s2 = s2  o1 = o1
    t1 = t1  t2 = t2  u1 = u1
    app = app  mcp = mcp
    i1 = i1  i2 = i2
    None = None  Torn = Torn
    ProfileSlots <- TwoProfileSlots
    AppSlots <- OneAppSlot
    Tx <- TwoTx
    PriorTx = t1
    UserVal <- OneUserVal
    Unlockers <- OnlyApp
    App = app
    StoreId <- OneStore
    Overlapping <- Nobody
    MaxFaults = 2
    MaxCrashes = 2
INVARIANTS
    TypeOK
    Recoverable
    MemoryAgrees
PROPERTIES
    ImplementsAtomicStore
    JournalIsSettled
