\* Three threads and up to three deliveries in flight.  The connection is
\* closed in the end and gets no more events, so behaviours may stop.
CONSTANTS
    t1 = t1
    t2 = t2
    t3 = t3
    NoThread = NoThread
    Threads = {t1, t2, t3}
    MaxCount = 3
SPECIFICATION Spec
INVARIANTS Serial NothingForgotten CloseNotForgotten
PROPERTIES ImplementsSerialExecutor
CHECK_DEADLOCK FALSE
