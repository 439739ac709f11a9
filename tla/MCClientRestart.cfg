SPECIFICATION Spec
CONSTANTS
    call = call
    again = again
    event = event
    Requests <- TwoCalls
    Sends <- NoCalls
    Repeats <- NoCalls
    Original <- EachOther
    MaxSockets = 2
    MaxDrops = 1
    MaxRefusals = 0
CHECK_DEADLOCK FALSE
INVARIANTS
    RestartSurvived
