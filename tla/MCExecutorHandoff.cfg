\* Three threads, both handoffs.  The connection ends, so behaviours may stop.
CONSTANTS
    t1 = t1  t2 = t2  t3 = t3
    Threads = {t1, t2, t3}
    Kinds = {"preface", "alpn"}
    MaxCount = 4
SPECIFICATION HandoffSpec
INVARIANTS PrefaceIsSingleThreaded NothingMissed
CHECK_DEADLOCK FALSE
