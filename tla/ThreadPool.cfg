SPECIFICATION FairSpec
CONSTANTS
    NumThreads = 2
    Producers = {"twice", "once"}
    MaxTasks <- MCMaxTasks
    MaxQueue = 1
    LoopCbInvoked = TRUE
INVARIANTS StartedAreInitialised TasksInOrder QueueBounded NoTaskForgotten NoProducerForgotten
PROPERTIES TaskRuns StopReturns
CHECK_DEADLOCK FALSE
