---------------------------- MODULE DatagramService ----------------------------
(***************************************************************************)
(* What the network interfaces of hosts that share an Ethernet promise to  *)
(* the layer above: a datagram service.  A datagram that was sent comes    *)
(* out at its destination, once and unchanged, or is lost; in which order  *)
(* is not promised.  No frame, queue, Ethernet address, ARP message or     *)
(* timer is part of it.                                                    *)
(***************************************************************************)
EXTENDS Naturals, Sequences

CONSTANTS
    Hosts,
    Datagrams   \* records with a field "to"

VARIABLES
    sends,      \* the datagrams sent so far
    delivered,  \* delivered[h]: the datagrams that came out at host h, in order
    lost        \* the datagrams that will not come out

service == <<sends, delivered, lost>>

Init ==
    /\ sends = {} /\ lost = {}
    /\ delivered = [h \in Hosts |-> << >>]

\* The datagram has neither come out nor been lost.
Pending(d) ==
    /\ d \in sends \ lost
    /\ \A i \in 1 .. Len(delivered[d.to]) : delivered[d.to][i] # d

\* No datagram is sent twice: each is a new one.
Send(d) ==
    /\ d \notin sends
    /\ sends' = sends \cup {d}
    /\ UNCHANGED <<delivered, lost>>

Deliver(d) ==
    /\ Pending(d)
    /\ delivered' = [delivered EXCEPT ![d.to] = Append(@, d)]
    /\ UNCHANGED <<sends, lost>>

Lose(d) ==
    /\ Pending(d)
    /\ lost' = lost \cup {d}
    /\ UNCHANGED <<sends, delivered>>

Next == \E d \in Datagrams : Send(d) \/ Deliver(d) \/ Lose(d)

Spec == Init /\ [][Next]_service
================================================================================
