\* One POD that comes back three times, a fault and a crash.
CONSTANTS
    r1 = r1
    r2 = r2
    r3 = r3
    c1 = c1
    c2 = c2
    None = None
    Requests <- MCRequests
    Connections <- MCConnections
    Limit <- MCLimit
SYMMETRY Symmetric
SPECIFICATION Spec
INVARIANTS Kept NoneStranded
CHECK_DEADLOCK FALSE
