SPECIFICATION FairSpec
CONSTANTS
    NumThreads = 2
    Producers = {"twice", "once"}
    MaxTasks <- MCMaxTasks
    MaxQueue = 1
    LoopCbInvoked = FALSE
PROPERTY TaskRuns
CHECK_DEADLOCK FALSE
