SPECIFICATION FairSpec
CONSTANTS
    r1 = r1
    r2 = r2
    r3 = r3
    g1 = g1
    g2 = g2
    Requests <- TwoRequests
    Bulk <- OnlyR2
    Keyed <- NoRequests
    Gateways <- OneGateway
    HomeOf <- AllHomeG1
    MaxQueueSize = 2
    BatchSize = 2
    MaxAttempts = 1
    ClaimMargin = FALSE
    FirstBoot = FALSE
    Limit <- StopAndWipe
INVARIANTS
    PendingInOneJob
PROPERTIES
    StopEnds
    ServedAfterRecovery
