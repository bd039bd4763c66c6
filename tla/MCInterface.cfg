CONSTANTS
    Hosts = {"a", "b", "c"}
    Ip <- MCIp
    Mac <- MCMac
    IPs <- MCIPs
    Macs <- MCMacs
    ETHERNET_BROADCAST <- Broadcast
    Datagrams <- MCDatagrams
    MAPPING_TIME_LIMIT = 2
    ARP_TIME = 1
    Talkers = {"a", "b"}
    MaxSends = 2
    MaxFaults = 2
SPECIFICATION FairSpec
INVARIANTS
    SentOnce
    HeadWaitsForAddress
PROPERTIES
    AsksSeldom
    ImplementsService
    AllArrive
