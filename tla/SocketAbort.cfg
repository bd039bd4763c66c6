CONSTANTS
    PipeCapacity = 1
    Capacity = 2
    StdinLen = 1
    PeerLen = 3
    Linger = 1
    MaxWire = 1
    PeerResets = TRUE
    StdoutBreaks = TRUE
SPECIFICATION Spec
CHECK_DEADLOCK FALSE
INVARIANT
    AbortSendsRst
