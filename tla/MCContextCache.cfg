SPECIFICATION LoneSpec
CONSTANTS
    t1 = t1
    t2 = t2
    c1 = c1
    c2 = c2
    c3 = c3
    c4 = c4
    c5 = c5
    c6 = c6
    Thread <- MCThread
    Context <- MCContext
    None = None
    NoWrite = NoWrite
    HeldBound = 2
    StoreOrder = "program"
INVARIANTS
    TypeOK
    NobodyShares
PROPERTIES
    ImplementsPool
    CallsReturn
