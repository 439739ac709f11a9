SPECIFICATION Spec
CONSTANTS
    r1 = r1
    None = None
    Requests <- OneRequest
    Operations <- TwoOperations
    Variables <- OneVariable
    HeaderNames <- Names
    Lower <- LowerCase
    Static <- StaticNames
    Adapters <- ThreeAdapters
    Questions <- SomeQuestions
    MaxInitialRetries = 0
    MaxServers = 2
    MaxStarts = 2
    MaxOutages = 1
CHECK_DEADLOCK FALSE
INVARIANTS
    CredentialHolds
    AcceptedAsAsked
    SameVerdict
    RouteBack
    RegistryFollows
    Released
PROPERTIES
    CloseEnds
