SPECIFICATION Spec
CONSTANTS
    k1 = k1
    k2 = k2
    k3 = k3
    a = a
    b = b
    Key = {k1, k2, k3}
    Message = {a, b}
    Size <- MCSize
    Wrap = 1
    max_sessions = 2
    sequence_tokens = 7
    idle_ttl = 2
    kvLen = 6
    MaxTokens = 1
    MaxLen = 3
    MaxClock = 2
    MaxTurns = 4
SYMMETRY Symmetry
INVARIANTS
    ContextIsHistory
    WithinCache
PROPERTIES
    EvictsOldestIdle
CHECK_DEADLOCK FALSE
