SPECIFICATION Spec
CONSTANTS
    call = call
    again = again
    event = event
    Requests <- OneCall
    Sends <- OneEvent
    Repeats <- Both
    Original <- EachOther
    MaxSockets = 2
    MaxDrops = 1
    MaxRefusals = 1
CHECK_DEADLOCK FALSE
INVARIANTS
    Watched
    SocketsKnown
    ThrowsExplained
PROPERTIES
    CallsSettle
    Reconnects
    ClosedIsQuiet
