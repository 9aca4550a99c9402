SPECIFICATION FairSpec
CONSTANTS
    Sector = {s1, s2}
    Value = {v1, v2}
    Garbage = Garbage
    MaxAttempts = 3
    Debug = TRUE
    MaxGarbled = 4
    MaxSdFailures = 1
INVARIANTS IInv TypeOK InStep AtMostOnce DoneMeansDone GiveUpIsEarned
PROPERTIES OnlyTheCallersWrite ImplementsBlockDevice CallReturns
CHECK_DEADLOCK FALSE
