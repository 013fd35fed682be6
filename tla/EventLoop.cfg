SPECIFICATION FairSpec
CONSTANTS
    t1 = t1
    t2 = t2
    loop = loop
    f1 = f1
    f2 = f2
    f3 = f3
    Threads = {t1, t2}
    LoopThread = loop
    Functors = {f1, f2, f3}
    MaxQuits = 2
    MaxEnters = 2
INVARIANTS FunctorsInOrder NoLostWakeup
PROPERTIES RefinesExecutor QueuedFunctorRuns QuitStopsLoop
CHECK_DEADLOCK FALSE
