SPECIFICATION Spec
CONSTANTS
    MaxImages = 3
    MaxPartitions = 3
    Cards <- SmallCards
INVARIANTS EveryVolumeIsServed
CHECK_DEADLOCK FALSE
