SPECIFICATION FairSpec
CONSTANTS
    FifoDepth = 8
    MaxHandshakes = 6
    MaxSends = 2
    Request <- DeviceInitRequest
    MaxResets = 1
    MaxReboots = 1
INVARIANTS TypeOK FewStraysDoNoHarm OldBytesAreNoAnswer
PROPERTIES BootEnds
CHECK_DEADLOCK FALSE
