SPECIFICATION Spec
CONSTANTS
    SizeBase = 7
    SECTOR_SIZE = 14
    SectorCount = 1
    Sector = {0, 1}
    Value <- MCValue
    Media = 248
    Unit = 0
    Heap <- MCHeap
    Noise = {}
    MaxAttempts = 9
    MaxCalls = 1
    MaxTroubles = 1
    HeapRoom = 2
INVARIANT ReceivedAsSent
CHECK_DEADLOCK FALSE
