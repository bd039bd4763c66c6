---------------------------- MODULE NetworkInterface ----------------------------
(***************************************************************************)
(* The class NetworkInterface of libsponge/network_interface.{hh,cc}: it   *)
(* wraps datagrams in Ethernet frames and finds the Ethernet address of    *)
(* the next hop with ARP.  The object is a record, a method an operator.   *)
(*                                                                         *)
(* The maps are functions whose domains are the keys they hold.  A frame   *)
(* carries its ARP message or datagram as parse() would return it; ok is   *)
(* false when parse() fails.  The target_ethernet_address of an ARP        *)
(* message is left out: no receiver reads it.                              *)
(***************************************************************************)
EXTENDS Naturals, Sequences

CONSTANTS
    IPs,               \* the IP addresses
    Macs,              \* the Ethernet addresses
    ETHERNET_BROADCAST,
    Datagrams,
    MAPPING_TIME_LIMIT,
    ARP_TIME

ASSUME InterfaceAssumption ==
    /\ ETHERNET_BROADCAST \notin Macs
    /\ MAPPING_TIME_LIMIT \in Nat /\ ARP_TIME \in Nat

ARPMessages ==
    [opcode : {"REQUEST", "REPLY"}, sender_ethernet_address : Macs,
     sender_ip_address : IPs, target_ip_address : IPs]

Frames ==
    [dst : Macs \cup {ETHERNET_BROADCAST}, src : Macs, ok : BOOLEAN,
     type : {"IPv4"}, payload : Datagrams]
    \cup
    [dst : Macs \cup {ETHERNET_BROADCAST}, src : Macs, ok : BOOLEAN,
     type : {"ARP"}, payload : ARPMessages]

IsInterface(n) ==
    /\ n.ethernet_address \in Macs /\ n.ip_address \in IPs
    /\ n.frames_out \in Seq(Frames)
    /\ n.frames_waited \in Seq([dgram : Datagrams, next_hop : IPs])
    /\ DOMAIN n.ip_map \subseteq IPs
    /\ n.ip_map \in [DOMAIN n.ip_map -> [mac : Macs, age : 0 .. MAPPING_TIME_LIMIT]]
    /\ DOMAIN n.ARP_timer \subseteq IPs
    /\ n.ARP_timer \in [DOMAIN n.ARP_timer -> 0 .. ARP_TIME]

NewInterface(ethernet_address, ip_address) ==
    [ethernet_address |-> ethernet_address, ip_address |-> ip_address,
     frames_out |-> << >>, frames_waited |-> << >>,
     ip_map |-> << >>, ARP_timer |-> << >>]

Put(map, key, value) == [k \in DOMAIN map \cup {key} |-> IF k = key THEN value ELSE map[k]]

--------------------------------------------------------------------------------
FrameOf(n, dst, type, payload) ==
    [dst |-> dst, src |-> n.ethernet_address, ok |-> TRUE, type |-> type, payload |-> payload]

send_ARP(n, opcode, mac, ip) ==
    LET arp == [opcode |-> opcode, sender_ethernet_address |-> n.ethernet_address,
                sender_ip_address |-> n.ip_address, target_ip_address |-> ip]
    IN  [n EXCEPT !.frames_out = Append(@, FrameOf(n, mac, "ARP", arp))]

send_frame(n, dgram, dst) ==
    [n EXCEPT !.frames_out = Append(@, FrameOf(n, dst, "IPv4", dgram))]

send_datagram(n, dgram, next_hop) ==
    LET waiting == [n EXCEPT !.frames_waited =
                        Append(@, [dgram |-> dgram, next_hop |-> next_hop])]
    IN  IF next_hop \in DOMAIN n.ip_map
        THEN send_frame(n, dgram, n.ip_map[next_hop].mac)
        ELSE IF next_hop \in DOMAIN n.ARP_timer THEN waiting
        ELSE [send_ARP(waiting, "REQUEST", ETHERNET_BROADCAST, next_hop)
                 EXCEPT !.ARP_timer = Put(@, next_hop, 0)]

--------------------------------------------------------------------------------
\* Mutant of Sendable: an if instead of the while.
SendsOne(n) ==
    IF n.frames_waited # << >> /\ n.frames_waited[1].next_hop \in DOMAIN n.ip_map
    THEN 1 ELSE 0

\* How many datagrams the loop of recv_frame sends off the queue: those before
\* the first whose next hop is still unknown.
Sendable(n) ==
    CHOOSE k \in 0 .. Len(n.frames_waited) :
        /\ \A i \in 1 .. k : n.frames_waited[i].next_hop \in DOMAIN n.ip_map
        /\ k < Len(n.frames_waited) =>
               n.frames_waited[k + 1].next_hop \notin DOMAIN n.ip_map

\* Mutant of SendWaited: the datagrams sent are not popped off the queue.
KeepsWaited(n) ==
    LET w == n.frames_waited
    IN  [n EXCEPT !.frames_out = @ \o [i \in 1 .. Sendable(n) |->
            FrameOf(n, n.ip_map[w[i].next_hop].mac, "IPv4", w[i].dgram)]]

SendWaited(n) ==
    LET k == Sendable(n)
        w == n.frames_waited
    IN  [n EXCEPT
           !.frames_out = @ \o [i \in 1 .. k |->
               FrameOf(n, n.ip_map[w[i].next_hop].mac, "IPv4", w[i].dgram)],
           !.frames_waited = SubSeq(@, k + 1, Len(@))]

Learn(n, arp) ==
    [n EXCEPT !.ip_map =
        Put(@, arp.sender_ip_address, [mac |-> arp.sender_ethernet_address, age |-> 0])]

\* Mutant of Reply: a request is never answered.
NeverReplies(n, arp) == n

Reply(n, arp) ==
    IF arp.opcode = "REQUEST" /\ arp.target_ip_address = n.ip_address
    THEN send_ARP(n, "REPLY", arp.sender_ethernet_address, arp.sender_ip_address)
    ELSE n

\* Mutant of ForMe: the destination of a frame is not looked at.
TakesAll(n, frame) == TRUE

ForMe(n, frame) == frame.dst \in {n.ethernet_address, ETHERNET_BROADCAST}

\* recv_frame: what becomes of the interface, and the datagrams it returns (none
\* or one).
recv_frame(n, frame) ==
    IF ForMe(n, frame) /\ frame.type = "ARP" /\ frame.ok
    THEN SendWaited(Reply(Learn(n, frame.payload), frame.payload))
    ELSE n

Received(n, frame) ==
    IF ForMe(n, frame) /\ frame.type = "IPv4" /\ frame.ok THEN <<frame.payload>> ELSE << >>

--------------------------------------------------------------------------------
\* Mutant of InterfaceTick: the ARP timer forgets a request one tick early.
ForgetsRequests(n, ms) ==
    LET mapped == {ip \in DOMAIN n.ip_map : n.ip_map[ip].age + ms <= MAPPING_TIME_LIMIT}
        timed  == {ip \in DOMAIN n.ARP_timer : n.ARP_timer[ip] + ms < ARP_TIME}
    IN  [n EXCEPT
           !.ip_map = [ip \in mapped |-> [n.ip_map[ip] EXCEPT !.age = @ + ms]],
           !.ARP_timer = [ip \in timed |-> n.ARP_timer[ip] + ms]]

InterfaceTick(n, ms) ==
    LET mapped == {ip \in DOMAIN n.ip_map : n.ip_map[ip].age + ms <= MAPPING_TIME_LIMIT}
        timed  == {ip \in DOMAIN n.ARP_timer : n.ARP_timer[ip] + ms <= ARP_TIME}
    IN  [n EXCEPT
           !.ip_map = [ip \in mapped |-> [n.ip_map[ip] EXCEPT !.age = @ + ms]],
           !.ARP_timer = [ip \in timed |-> n.ARP_timer[ip] + ms]]
================================================================================
