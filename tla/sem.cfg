SPECIFICATION FairSpec
CONSTANTS
    Threads = {t1, t2, t3, t4}
    InitialValue = 1
    MaxPermits = 3
INVARIANTS ValueCountsWaiters NoLostWakeup
PROPERTIES ImplementsSemaphore WaiterServed
