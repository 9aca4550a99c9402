SPECIFICATION FairSpec
CONSTANTS
    FifoDepth = 8
    MaxBurst = 8
INVARIANTS TypeOK NothingLost InOrder AckMeansTaken
PROPERTIES Answered
CHECK_DEADLOCK FALSE
