\* Three requests with one key on two gateways, and one disturbance of each kind.
CONSTANTS
    r1 = r1
    r2 = r2
    r3 = r3
    g1 = g1
    g2 = g2
    None = None
    Requests <- MCRequests
    Gateways <- MCGateways
    HomeOf <- MCHomeOf
    Limit <- MCLimit
SPECIFICATION Spec
INVARIANTS OneInFlight ClaimBacked
PROPERTIES AnswerKept ClaimEnds
CHECK_DEADLOCK FALSE
