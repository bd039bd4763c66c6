----------------------------- MODULE MCInterface -----------------------------
(***************************************************************************)
(* Three hosts on one Ethernet.                                            *)
(***************************************************************************)
EXTENDS InterfaceSpec

MCIp == [h \in Hosts |-> <<"ip", h>>]
MCMac == [h \in Hosts |-> <<"mac", h>>]
MCIPs == {MCIp[h] : h \in Hosts}
MCMacs == {MCMac[h] : h \in Hosts}
Broadcast == <<"mac", "all">>
MCDatagrams == [id : 1 .. MaxSends, from : Hosts, to : Hosts]
================================================================================
