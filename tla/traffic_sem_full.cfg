SPECIFICATION Spec
CONSTANTS
    Cars = {c1, c2, c3, c4}
    MaxOccupancy = 3
    Iterations = 1
INVARIANT AtMostMaxOccupancy
CHECK_DEADLOCK FALSE
