SPECIFICATION Spec
CONSTANTS
    Unit = {u1, u2}
    StartLba <- StartOf
    Capacity <- CapacityOf
    FileSizes = {3, 6}
    MaxCount = 3
    Wrap = 3
    Value = {v1, v2}
    Garbage = Garbage
INVARIANTS TypeOK
PROPERTIES NeighboursUntouched UnitsAreArrays
