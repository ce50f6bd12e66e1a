SPECIFICATION Spec
CONSTANTS
    Cars = {c1, c2}
    MaxOccupancy = 3
    Iterations = 1
PROPERTY TurnsForUnfinishedCars
CHECK_DEADLOCK FALSE
