CONSTANTS
    Threads = {t1, t2, t3}
    Conns = {c1, c2, c3}
    PoolSize = 1
    NoConn = NoConn
    MaxCalls = 2
SPECIFICATION FairSpec
INVARIANTS
    SingleOwner
    NoLostWakeup
PROPERTIES
    PoolSpec
    CallsEnd
