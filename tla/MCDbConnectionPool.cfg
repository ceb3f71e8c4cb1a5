CONSTANTS
    t1 = t1  t2 = t2  t3 = t3
    c1 = c1  c2 = c2  c3 = c3
    Threads = {t1, t2, t3}
    Connections = {c1, c2, c3}
    PoolSizes = {0, 1, 2}
    MaxFaults = 2
SPECIFICATION FairSpec
CHECK_DEADLOCK FALSE
INVARIANTS
    AllocatedExact
    ExclusiveOwner
    NoLostWakeUp
PROPERTIES
    ServedOrOvertaken
    CallsEnd
    StopDrains
    ImplementsLeases
