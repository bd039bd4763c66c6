CONSTANTS
    SeqMod = 16
    SizeMod = 64
    MaxPayloadSize = 1
    MaxRetxAttempts = 1
    LingerFactor = 1
    MaxWindow = 15
    RecvCapacity <- Tight
    SendCapacity = 2
    RtTimeout = 1
    StreamLen <- TwoBytes
    Closers = {"client", "server"}
    Isn <- Isns
    MaxFaults = 2
SPECIFICATION FairSpec
PROPERTY Terminates
CHECK_DEADLOCK FALSE
