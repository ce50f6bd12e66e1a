SPECIFICATION DataSpec
CONSTANTS
    HeapSize = 48
    Requests = {0, 4, 9}
    MaxElements = 2
    MaxNodes = 3
    MaxInTree = 3
    MaxReferences = 5
    Values = {1, 2}
    INITIAL_SIZE = 2
    GROWTH_FACTOR = 2
    MaxLen = 5
    Numbers = {1, 2, 3, 4}
    MaxTree = 5
    MaxPromises = 5
INVARIANTS
    BlocksTileTheHeap SimulatorsAgree AssemblyMatchesC
    CountsMatchReferences TreesSorted ListHoldsWanted PromisesSettle
PROPERTY ImplementsHeap
\* Most parts come to an end or to a bound of the instance.
CHECK_DEADLOCK FALSE
