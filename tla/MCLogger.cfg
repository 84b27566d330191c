\* The process may end at any time, so behaviours may stop.
CONSTANTS
    main = main  worker = worker
    LogThread = LogThread
    Nobody = Nobody
    Threads = {main, worker}
    Main = main
    Places = 3
    MaxEntries = 3
    EarlyStop = FALSE
SPECIFICATION Spec
INVARIANTS NothingLostOrRepeated ThreadEndIsSafe
PROPERTIES EveryEntryIsWritten DestroyReturns
CHECK_DEADLOCK FALSE
