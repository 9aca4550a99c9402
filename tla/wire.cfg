SPECIFICATION Spec
CONSTANTS
    SizeBase = 7
    SECTOR_SIZE = 14
    SectorCount = 1
    Sector = {0, 1}
    Value <- MCValue
    Media = 248
    Unit = 0
    Heap <- MCHeap
    Noise = {0, 15}
    MaxAttempts = 2
    MaxCalls = 2
    MaxTroubles = 2
    HeapRoom = 1
INVARIANTS TypeOK NotTwice ContentDamageIsHarmless
PROPERTIES OrphansWait KeepsThePromise
CHECK_DEADLOCK FALSE
