CONSTANTS
    Clients <- ClientsDef
    Server = "server"
    AddressOf <- AddressOfDef
    ServerBinds <- ServerBindsDef
    Segments <- SegmentsDef
    Damage <- DamageDef
    ArpMessages <- ArpMessagesDef
    MaxWrites = 3
    MaxWire = 1
    MaxFaults = 1
SPECIFICATION Spec
CHECK_DEADLOCK FALSE
INVARIANTS
    OnlyThePeersSegments
    ASynWins
    IntactIsTaken
    

