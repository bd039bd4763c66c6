CONSTANTS
    SeqMod = 16
    SizeMod = 64
    Capacity = 2
    StreamLen = 5
    PeerIsn <- AllIsn
    MaxSynPayload = 2
    MaxPayload = 3
    MaxStale = 8
    MaxCheckpoint = 80
SPECIFICATION Spec
INVARIANTS
    InOrder
    AcksWhatItHas
    UnwrapsToClosestOffSecondLap
PROPERTY WindowNeverShrinks
