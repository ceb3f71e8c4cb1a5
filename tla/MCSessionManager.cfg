CONSTANTS
    t1 = t1  t2 = t2  i1 = i1  i2 = i2
    o1 = o1  o2 = o2  u1 = u1
    Threads = {t1, t2}
    Ids = {i1, i2}
    Objects = {o1, o2}
    Users = {u1}
    Capacity = 1
    MaxAge = 2
    MaxTime = 3
SPECIFICATION FairSpec
CHECK_DEADLOCK FALSE
INVARIANTS
    WithinCapacity
    NoResurrection
PROPERTIES
    EvictsOnlyIdle
    RefusesOnlyWhenFull
    ExpiredIsReclaimed
    StopJoins
