SPECIFICATION PackageSpec
CONSTANTS
    p1 = p1
    p2 = p2
    p3 = p3
    t1 = t1
    t2 = t2
    t3 = t3
    mainThread = mainThread
    b1 = b1
    b2 = b2
    None = None
    Null = Null
    Detached = Detached
    Queues = {p1, p2}
    TCBs = {t1, t2, t3}
    Threads = {t1, t2, t3}
    SchedProcs = {p1, p2}
    SchedThreads = {mainThread, t1, t2}
    Procs = {p1, p2, p3}
    Blocks = 3
    MaxDepth = 2
INVARIANTS
    QueuesLinked NoLostWakeup RunningUnblockRemembered EarlyThreadsKept
    ResultsDelivered OnlyKnownHangs
PROPERTIES ImplementsReadyQueue QueueServed ReadsComplete
\* The readers of the disk end.
CHECK_DEADLOCK FALSE
