\* Two servers and two loop threads, three connections on two descriptors;
\* terminate() at any time.  Behaviours stop when no connection is left.
CONSTANTS
    e1 = e1  e2 = e2  e3 = e3
    t1 = t1  t2 = t2
    s1 = s1  s2 = s2
    f1 = f1  f2 = f2
    None = None
    Executors = {e1, e2, e3}
    Threads = {t1, t2}
    Servers = {s1, s2}
    Fds = {f1, f2}
    Grace = 2
    MaxDelay = 1
    MayTerminate = TRUE
SPECIFICATION Spec
INVARIANTS NoUseAfterFree EventsGoToOwner
PROPERTIES ClosedIsFreed
CHECK_DEADLOCK FALSE
