SPECIFICATION Spec
CONSTANTS
    r1 = r1
    r2 = r2
    r3 = r3
    g1 = g1
    g2 = g2
    Requests <- ThreeRequests
    Bulk <- OnlyR2
    Keyed <- OnlyR1
    Gateways <- TwoGateways
    HomeOf <- R2HomeG2
    MaxQueueSize = 2
    BatchSize = 1
    MaxAttempts = 1
    ClaimMargin = TRUE
    FirstBoot = FALSE
    Limit <- Calm
INVARIANTS
    DepthExact
    LiveBound
    AnsweredOnce
