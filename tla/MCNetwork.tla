------------------------------- MODULE MCNetwork -------------------------------
(***************************************************************************)
(* Two routers, A with the hosts "a" and "b" on one Ethernet and B with    *)
(* the host "c".  Each takes the other for its default route, so that an   *)
(* address neither knows (6), or that only the other is said to know (12), *)
(* travels between them until its ttl is spent.  Addresses have 4 bits.    *)
(***************************************************************************)
EXTENDS NetworkSpec

MCIPs == 0 .. 2^AddressBits - 1
MCMacs == {<<"mac", ip>> : ip \in {0, 1, 2, 4, 5, 8, 9}}
Broadcast == <<"mac", 99>>

Nic(ip) == NewInterface(<<"mac", ip>>, ip)
MCHostNic == [h \in Hosts |-> CASE h = "a" -> Nic(1) [] h = "b" -> Nic(2) [] h = "c" -> Nic(9)]
MCGateway == [h \in Hosts |-> IF h = "c" THEN 8 ELSE 0]
MCRouterNics == [r \in Routers |-> IF r = "A" THEN <<Nic(0), Nic(4)>> ELSE <<Nic(8), Nic(5)>>]

MCLinks == {<<<<"A", 1>>, <<"a", 1>>, <<"b", 1>>>>, <<<<"A", 2>>, <<"B", 2>>>>,
            <<<<"B", 1>>, <<"c", 1>>>>}

Entry(prefix, length, hop, num) ==
    [route_prefix |-> prefix, prefix_length |-> length, next_hop |-> hop, interface_num |-> num]

\* A has two routes for the same /3; B's /2 and /3 lie inside its /1; the prefixes
\* 5 and 13 have bits past their length.
TableOf == [r \in Routers |->
    IF r = "A" THEN <<Entry(0, 0, 5, 2), Entry(0, 2, NoHop, 1), Entry(4, 3, NoHop, 2),
                    Entry(5, 3, 5, 2)>>
    ELSE <<Entry(0, 0, 4, 2), Entry(8, 1, NoHop, 1), Entry(13, 2, 4, 2), Entry(14, 3, 9, 1)>>]
MCTables == {TableOf, [r \in Routers |-> Reverse(TableOf[r])]}

Test(id, from, dst, ttl, at, hops) ==
    [id |-> id, from |-> from, dst |-> dst, ttl |-> ttl, at |-> at, hops |-> hops]
MCTraffic ==
    {Test(1, "a", 9, 3, "c", 2), Test(2, "b", 14, 4, "c", 2), Test(3, "c", 1, 3, "a", 2),
     Test(4, "a", 2, 2, "b", 1), Test(5, "a", 6, 4, Nobody, 0), Test(6, "c", 12, 3, Nobody, 0),
     Test(7, "b", 1, 0, Nobody, 0)}

MCDatagrams == [id : 1 .. 7, dst : IPs, ttl : 0 .. 4]
================================================================================
