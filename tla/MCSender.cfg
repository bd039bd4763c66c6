CONSTANTS
    SeqMod = 16
    MaxPayloadSize = 2
    SendCapacity = 3
    RtTimeout = 2
    Isns = {14}
    Windows = {0, 2, 4}
    StreamLen = 3
    MaxRetx = 2
    MaxOut = 1
SPECIFICATION Spec
INVARIANTS
    TimerArmed
    OutstandingTiles
    SegmentsAreHonest
    BackoffIsExponential
    FillIsTheLoop
PROPERTY KeepsToTheWindow
