SPECIFICATION ProgramsSpec
CONSTANTS
    c1 = c1
    c2 = c2
    c3 = c3
    p1 = p1
    p2 = p2
    None = None
    Cars = {c1, c2, c3}
    MaxOccupancy = 2
    Crossings = 2
    CrossingsSem = 1
    Rounds = 3
    num_phils = 3
    num_meals = 2
    Producers = {p1, p2}
    Consumers = {c1, c2}
    QUEUE_SIZE = 3
    NUM_ITERATIONS = 2
    PoolItems = 2
    Meeting = {c1, c2, c3}
    CountTo = 2
    PingPongs = 3
    Elements = 3
    Addresses = {1, 2, 3}
    MatrixSize = 4
    tpr = 2
    Relaxations = 2
INVARIANTS
    OneWayStreet CountersAgree TurnsKept OnlyRightForksDeadlock SharedDataIntact
PROPERTIES
    ImplementsBoundedQueue ProgramsFinish
\* The programs end, and two of them may stop for good.
CHECK_DEADLOCK FALSE
