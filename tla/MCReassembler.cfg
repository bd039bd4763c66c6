CONSTANTS
    SizeMod = 64
    Capacity = 3
    StreamLen = 5
    Overshoot = 0
SPECIFICATION Spec
INVARIANTS
    InOrder
    
    EndsExactly
    NothingLeftBehind
    ReadOutIsTheLoop
