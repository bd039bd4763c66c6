--------------------------------- MODULE Router ---------------------------------
(***************************************************************************)
(* The classes AsyncNetworkInterface and Router of libsponge/router.{hh,   *)
(* cc}.  IP addresses are the numbers of AddressBits bits (32 in the       *)
(* code); a datagram is a record with at least the header fields dst and   *)
(* ttl.                                                                    *)
(***************************************************************************)
EXTENDS NetworkInterface, SequencesExt

CONSTANTS
    AddressBits,
    NoHop          \* the empty optional: the network is directly attached

ASSUME RouterAssumption ==
    /\ AddressBits \in Nat
    /\ IPs = 0 .. 2^AddressBits - 1
    /\ NoHop \notin IPs

RouteTableEntries ==
    [route_prefix : IPs, prefix_length : 0 .. AddressBits, next_hop : IPs \cup {NoHop},
     interface_num : Nat]

--------------------------------------------------------------------------------
\* An AsyncNetworkInterface: a NetworkInterface and the queue of what it received.
Async(nic) == [nic |-> nic, datagrams_out |-> << >>]

AsyncRecvFrame(a, frame) ==
    [nic |-> recv_frame(a.nic, frame),
     datagrams_out |-> a.datagrams_out \o Received(a.nic, frame)]

AsyncSendDatagram(a, dgram, next_hop) == [a EXCEPT !.nic = send_datagram(@, dgram, next_hop)]

--------------------------------------------------------------------------------
NewRouter == [interfaces |-> << >>, routing_table |-> << >>]

add_interface(r, a) == [r EXCEPT !.interfaces = Append(@, a)]

add_route(r, entry) == [r EXCEPT !.routing_table = Append(@, entry)]

SamePrefix(entry, ip) ==
    LET shift == 2^(AddressBits - entry.prefix_length)
    IN  entry.route_prefix \div shift = ip \div shift

\* Mutant of Better: the first route that matches is kept.
FirstMatch(found, entry, ip) ==
    found = << >> /\ (entry.prefix_length = 0 \/ SamePrefix(entry, ip))

\* The two tests of the loop.  The shift by 32 that a default route would need is
\* never decisive: the second test is reached only with max_prelen > 0 then.
Better(found, entry, ip) ==
    LET max_prelen == IF found = << >> THEN 0 ELSE found[1].prefix_length
    IN  /\ max_prelen <= entry.prefix_length
        /\ entry.prefix_length = 0 \/ SamePrefix(entry, ip)

\* The scan of the routing table: the entry it ends with, if any.
MatchedEntry(table, ip) ==
    FoldLeft(LAMBDA found, entry : IF Better(found, entry, ip) THEN <<entry>> ELSE found,
             << >>, table)

\* Mutant of route_one_datagram: the hop count is tested but not lowered.
KeepsTtl(r, dgram) ==
    LET entry == MatchedEntry(r.routing_table, dgram.dst)
    IN  IF dgram.ttl <= 1 \/ entry = << >> THEN r
        ELSE [r EXCEPT !.interfaces[entry[1].interface_num] =
                 AsyncSendDatagram(@, dgram,
                     IF entry[1].next_hop = NoHop THEN dgram.dst ELSE entry[1].next_hop)]

route_one_datagram(r, dgram) ==
    LET forwarded == [dgram EXCEPT !.ttl = @ - 1]
        entry     == MatchedEntry(r.routing_table, dgram.dst)
    IN  IF dgram.ttl = 0 \/ dgram.ttl - 1 = 0 \/ entry = << >> THEN r
        ELSE [r EXCEPT !.interfaces[entry[1].interface_num] =
                 AsyncSendDatagram(@, forwarded,
                     IF entry[1].next_hop = NoHop THEN dgram.dst ELSE entry[1].next_hop)]

\* route(): interface after interface, all that has arrived.
route(r) ==
    LET arrived == FlattenSeq([i \in DOMAIN r.interfaces |-> r.interfaces[i].datagrams_out])
        drained == [r EXCEPT !.interfaces =
                       [i \in DOMAIN @ |-> [@[i] EXCEPT !.datagrams_out = << >>]]]
    IN  FoldLeft(route_one_datagram, drained, arrived)
================================================================================
