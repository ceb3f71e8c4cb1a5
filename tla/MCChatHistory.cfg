SPECIFICATION Spec
CONSTANTS
    u1 = u1
    u2 = u2
    c1 = c1
    t1 = t1
    t2 = t2
    e1 = e1
    e2 = e2
    NoJob = NoJob
    NoThread = NoThread
    Users = {u1, u2}
    Chats = {c1}
    Threads = {t1, t2}
    Jobs = {e1, e2}
    Legacy = {}
    LegacyTables <- Tables
    MaxClock = 1
    MaxTime = 9
SYMMETRY Symmetry
CHECK_DEADLOCK FALSE
INVARIANTS
    TypeOK
    ContinuesOnlyCanonical
    ReplyIsTrue
    RestoresInOrder
    HistoryIsGenuine
    ListsEveryChat
PROPERTIES
    AnswersInContext
