SPECIFICATION Spec
CONSTANTS
    r1 = r1
    None = None
    Requests <- OneRequest
    Operations <- TwoOperations
    Variables <- OneVariable
    HeaderNames <- Names
    Lower <- LowerCase
    Static <- StaticNames
    Adapters <- OneAdapter
    Questions <- OneQuestion
    MaxInitialRetries = 0
    MaxServers = 1
    MaxStarts = 1
    MaxOutages = 1
CHECK_DEADLOCK FALSE
INVARIANTS
    StartupFailureContained
