SPECIFICATION FairSpec
CONSTANTS
    j1 = j1
    j2 = j2
    l1 = l1
    Jobs = {j1}
    Legacy = {l1}
    MaxAttempt = 1
    MaxFaults = 2
    MaxDeliveries = 9
    MaxPending = 6
    MaxInflight = 1
CHECK_DEADLOCK FALSE
PROPERTIES
    AdmittedIsSettled
    LegacyIsQuarantined
    Reconnects
