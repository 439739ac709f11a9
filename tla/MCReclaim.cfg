SPECIFICATION RunsSpec
CONSTANTS
    r1 = r1
    r2 = r2
    r3 = r3
    g1 = g1
    g2 = g2
    Requests <- OneRequest
    Bulk <- NoRequests
    Keyed <- NoRequests
    Gateways <- TwoGateways
    HomeOf <- AllHomeG1
    MaxQueueSize = 1
    BatchSize = 1
    MaxAttempts = 1
    ClaimMargin = TRUE
    FirstBoot = FALSE
    Limit <- CrashAndFault
INVARIANTS
    NoDoubleDispatch
    RetriesBounded
    CountTravels
