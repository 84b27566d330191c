\* All kinds of connection; they end, so behaviours may stop.
CONSTANTS
    Connections <- AllConnections
    SendBuffer = 3
    MaxRequests = 3
    MaxArriving = 2
SPECIFICATION Spec
INVARIANTS RepliesInOrder NothingUnread UnwrittenIsWaitedFor
PROPERTIES EveryRequestAnswered HangupCloses
CHECK_DEADLOCK FALSE
