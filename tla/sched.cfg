SPECIFICATION FairSpec
CONSTANTS
    p1 = p1
    p2 = p2
    main = main
    t1 = t1
    t2 = t2
    b1 = b1
    b2 = b2
    None = None
    Detached = Detached
    Procs = {p1, p2}
    P0 = p1
    Main = main
    Base <- MCBase
    Threads = {main, t1, t2}
    Calls <- CallsMixed
INVARIANTS OneProcessor NoUseAfterFree NoLostThread
PROPERTIES TerminatedIsFreed QueuedRuns JoinReturns
