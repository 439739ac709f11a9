SPECIFICATION ResultsSpec
CONSTANTS
    r1 = r1
    r2 = r2
    r3 = r3
    r4 = r4
    Requests <- FourRequests
    Bulk <- OneBulk
    Concurrency = 2
    MaxQueueSize = 2
    MaxAttempts = 1
    MaxDenials = 1
    Keys <- OneKey
    NoKey = 0
    KeyOf <- SharedKey
    MaxLeaves = 1
CHECK_DEADLOCK FALSE
INVARIANTS
    OnePlace
    NoLostWakeUp
    OldestFirst
    OneRunPerKey
    ResponseKept
PROPERTIES
    EventuallyServed
