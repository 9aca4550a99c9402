SPECIFICATION Spec
CONSTANTS
    MaxImages = 3
    Bpbs = {b1}
    ZeroBpb = zero
    LeftOver <- NoneOrOne
    Options <- Lines
INVARIANTS TypeOK NoTransferWithoutInit AbsentPicoIsLeftAlone BpbsAreTheCards OwnUnitsAreServed OnlyGoodLinesAreTaken
CHECK_DEADLOCK FALSE
