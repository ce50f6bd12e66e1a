SPECIFICATION Spec
CONSTANT
    Iterations = 1
PROPERTY OffersToWaitingHelpers
CHECK_DEADLOCK FALSE
