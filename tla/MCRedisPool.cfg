CONSTANTS
    t1 = t1
    t2 = t2
    t3 = t3
    c1 = c1
    c2 = c2
    c3 = c3
    Threads = {t1, t2, t3}
    Conns = {c1, c2, c3}
    NoConn = NoConn
    MinPool = 1
    MaxPool = 2
SPECIFICATION RedisFairSpec
INVARIANTS
    TypeOK
    Accounting
    ExclusiveUse
    IdleHealthy
    PoolBound
    NoLostWakeup
    ContextsOwned
PROPERTIES
    AcquireReturns
    ImplementsAlloc
