CONSTANTS
    p1 = p1
    p2 = p2
    p3 = p3
    Publishers = {p1, p2, p3}
    Statements = 1
    PoolSize = 1
    Workers = {w1, w2}
    Bad <- OneBad
    None = None
    MaxFaults = 1
    MaxOutages = 1
SPECIFICATION FairSpec
INVARIANTS
    ChannelLocked
PROPERTIES
    LogSpec
    EventuallyStored
CHECK_DEADLOCK FALSE
