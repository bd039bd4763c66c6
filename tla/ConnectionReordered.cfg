CONSTANTS
    SeqMod = 16
    SizeMod = 64
    MaxPayloadSize = 2
    MaxRetxAttempts = 1
    LingerFactor = 1
    MaxWindow = 15
    RecvCapacity <- NarrowServer
    SendCapacity = 2
    RtTimeout = 1
    StreamLen <- FourBytes
    Closers = {}
    Isn <- Isns
    MaxFaults = 2
SPECIFICATION Spec
INVARIANT AckedIsDelivered
CHECK_DEADLOCK FALSE
