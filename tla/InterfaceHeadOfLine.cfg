CONSTANTS
    Hosts = {"a", "b", "c"}
    Ip <- MCIp
    Mac <- MCMac
    IPs <- MCIPs
    Macs <- MCMacs
    ETHERNET_BROADCAST <- Broadcast
    Datagrams <- MCDatagrams
    MAPPING_TIME_LIMIT = 3
    ARP_TIME = 1
    Talkers = {"a", "b"}
    MaxSends = 3
    MaxFaults = 0
SPECIFICATION Spec
INVARIANT KnownHopIsNotWaitedFor
