CONSTANTS
    SeqMod = 16
    SizeMod = 64
    MaxPayloadSize = 1
    MaxRetxAttempts = 1
    LingerFactor = 1
    MaxWindow = 15
    RecvCapacity <- NarrowServer
    SendCapacity = 2
    RtTimeout = 1
    StreamLen <- TwoBytes
    Closers = {"client", "server"}
    Isn <- Isns
    MaxFaults = 2
SPECIFICATION Spec
INVARIANTS
    EndToEnd
    AckedIsDelivered
    CleanMeansDelivered
    SomeoneLingers
    
PROPERTY ImplementsBytePipes
CHECK_DEADLOCK FALSE
