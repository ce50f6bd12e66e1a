SPECIFICATION FairSpec
CONSTANTS
    None = None
    Threads = {t1, t2, t3, t4}
    Conds = {c1, c2}
INVARIANTS MutualExclusion HolderAndCount OnOneQueue NoLostWakeup
PROPERTIES SomebodyGetsIt ImplementsMonitor
CHECK_DEADLOCK FALSE
