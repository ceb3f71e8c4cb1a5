SPECIFICATION Spec
CONSTANTS
    j1 = j1
    j2 = j2
    l1 = l1
    Jobs = {j1, j2}
    Legacy = {l1}
    MaxAttempt = 1
    MaxFaults = 2
    MaxDeliveries = 3
    MaxPending = 2
    MaxInflight = 2
SYMMETRY Symmetry
CHECK_DEADLOCK FALSE
INVARIANTS
    NoLoss
    OutstandingExact
    OneSettler
    AcksAreCurrent
    QuarantinedOnlyExhausted
PROPERTIES
    ImplementsQueue
