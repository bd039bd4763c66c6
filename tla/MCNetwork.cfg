CONSTANTS
    AddressBits = 4
    NoHop = NoHop
    IPs <- MCIPs
    Macs <- MCMacs
    ETHERNET_BROADCAST <- Broadcast
    Datagrams <- MCDatagrams
    MAPPING_TIME_LIMIT = 2
    ARP_TIME = 1
    Hosts = {"a", "b", "c"}
    Routers = {"A", "B"}
    HostNic <- MCHostNic
    Gateway <- MCGateway
    RouterNics <- MCRouterNics
    Tables <- MCTables
    Links <- MCLinks
    Traffic <- MCTraffic
    Nobody = Nobody
    MaxSends = 3
SPECIFICATION FairSpec
INVARIANTS
    LongestPrefixWins
    OnlyTheExpected
    NoneDuplicatedNoneLost
PROPERTY AllDelivered
