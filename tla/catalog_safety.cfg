SPECIFICATION FairSpec
CONSTANTS
    MaxImages = 3
    MaxPartitions = 3
    Cards <- SmallCards
INVARIANTS TypeOK UnitsAreTheirImages StraysOnlyWhenOverfull
PROPERTIES ParsingEnds
CHECK_DEADLOCK FALSE
