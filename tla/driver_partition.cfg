SPECIFICATION Spec
CONSTANTS
    MaxImages = 3
    Bpbs = {b1}
    ZeroBpb = zero
    LeftOver <- NoneOrOne
    Options <- Lines
INVARIANTS PartitionIsStored
CHECK_DEADLOCK FALSE
