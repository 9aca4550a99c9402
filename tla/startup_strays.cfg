SPECIFICATION Spec
CONSTANTS
    FifoDepth = 8
    MaxHandshakes = 6
    MaxSends = 2
    Request <- DeviceInitRequest
    MaxResets = 0
    MaxReboots = 0
INVARIANTS HandshakeIsComplete
CHECK_DEADLOCK FALSE
