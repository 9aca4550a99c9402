SPECIFICATION CheckSpec
CONSTANTS
    SizeBase = 256
    Protocols = {2}
    Commands = {8}
    Contents = {0, 90}
    MaxLength = 3
INVARIANTS CrcIsRemainder AcceptedAsSent
CHECK_DEADLOCK FALSE
