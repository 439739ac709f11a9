SPECIFICATION Spec
CONSTANTS
    Calls <- MCCalls
    Limits <- MCLimits
    Buckets <- MCBuckets
    Emission <- MCEmission
    Burst <- MCBurst
    Millisecond = 2
    Grace = 1
    Horizon = 12
INVARIANTS
    RateBound
    RetryAfterExact
PROPERTIES
    ImplementsTokenBucket
