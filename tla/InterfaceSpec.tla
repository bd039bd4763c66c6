----------------------------- MODULE InterfaceSpec -----------------------------
(***************************************************************************)
(* Hosts with one NetworkInterface each on a shared Ethernet.  A frame     *)
(* waits in frames_out until the Ethernet carries it, in order, to all the *)
(* other hosts; some of them may miss it or get it damaged.                *)
(***************************************************************************)
EXTENDS NetworkInterface, FiniteSets, Functions

CONSTANTS
    Hosts,
    Ip,         \* Ip[h]: the IP address of host h
    Mac,        \* Mac[h]: its Ethernet address
    Talkers,    \* the hosts that send datagrams
    MaxSends,   \* bound: how many datagrams are sent in all
    MaxFaults   \* bound: how many frames some host misses

ASSUME InterfaceSpecAssumption ==
    /\ Ip \in [Hosts -> IPs] /\ Mac \in [Hosts -> Macs]
    /\ \A g, h \in Hosts : g # h => Ip[g] # Ip[h] /\ Mac[g] # Mac[h]
    /\ Talkers \subseteq Hosts
    /\ \A h, g \in Hosts, id \in 1 .. MaxSends : [id |-> id, from |-> h, to |-> g] \in Datagrams
    /\ MaxSends \in Nat /\ MaxFaults \in Nat

VARIABLES
    interface,  \* interface[h]: the NetworkInterface of host h
    delivered,  \* delivered[h]: the datagrams recv_frame returned at h
    sends,      \* history: the datagrams given to send_datagram so far
    missed,     \* history: the datagrams whose frames their hop did not get
    faults,     \* how many frames some host has missed
    asked       \* history: asked[h][ip]: the time since h last broadcast a request for ip

vars == <<interface, delivered, sends, missed, faults, asked>>

\* Longer than the code remembers, or never.
LongAgo == ARP_TIME + 1

Init ==
    /\ interface = [h \in Hosts |-> NewInterface(Mac[h], Ip[h])]
    /\ delivered = [h \in Hosts |-> << >>]
    /\ sends = {} /\ missed = {}
    /\ faults = 0
    /\ asked = [h \in Hosts |-> [ip \in IPs |-> LongAgo]]

IsRequest(frame) == frame.type = "ARP" /\ frame.payload.opcode = "REQUEST"

NewFrames(n, m) == SubSeq(m.frames_out, Len(n.frames_out) + 1, Len(m.frames_out))

\* The requests the step from n to m broadcasts.
Requested(n, m) ==
    {f.payload.target_ip_address : f \in {g \in Range(NewFrames(n, m)) : IsRequest(g)}}

Send(h, g) ==
    LET d == [id |-> Cardinality(sends) + 1, from |-> h, to |-> g]
        n == send_datagram(interface[h], d, Ip[g])
    IN  /\ h \in Talkers /\ h # g
        /\ Cardinality(sends) < MaxSends
        /\ interface' = [interface EXCEPT ![h] = n]
        /\ sends' = sends \cup {d}
        /\ asked' = [asked EXCEPT ![h] = [ip \in IPs |->
                        IF ip \in Requested(interface[h], n) THEN 0 ELSE @[ip]]]
        /\ UNCHANGED <<delivered, missed, faults>>

\* The Ethernet carries the oldest frame of h; the hosts in got receive it, and
\* those in damaged find that it does not parse.
Transmit(h, got, damaged) ==
    LET others  == Hosts \ {h}
        frame   == Head(interface[h].frames_out)
        seen(g) == [frame EXCEPT !.ok = g \notin damaged]
    IN  /\ interface[h].frames_out # << >>
        /\ faults' = IF got = others /\ damaged = {} THEN faults ELSE faults + 1
        /\ faults' <= MaxFaults
        /\ interface' = [g \in Hosts |->
              IF g = h THEN [interface[h] EXCEPT !.frames_out = Tail(@)]
              ELSE IF g \in got THEN recv_frame(interface[g], seen(g)) ELSE interface[g]]
        /\ delivered' = [g \in Hosts |->
              IF g \in got THEN delivered[g] \o Received(interface[g], seen(g))
              ELSE delivered[g]]
        /\ missed' = IF frame.type = "IPv4" /\ \A g \in got : Received(interface[g], seen(g)) = << >>
                     THEN missed \cup {frame.payload} ELSE missed
        /\ UNCHANGED <<sends, asked>>

Tick ==
    /\ interface' = [h \in Hosts |-> InterfaceTick(interface[h], 1)]
    /\ asked' = [h \in Hosts |-> [ip \in IPs |->
                    IF asked[h][ip] < LongAgo THEN asked[h][ip] + 1 ELSE LongAgo]]
    /\ UNCHANGED <<delivered, sends, missed, faults>>

Next ==
    \/ Tick
    \/ \E h \in Hosts :
          \/ \E g \in Hosts : Send(h, g)
          \/ \E got \in SUBSET (Hosts \ {h}) : \E damaged \in SUBSET got :
                Transmit(h, got, damaged)

Spec == Init /\ [][Next]_vars

--------------------------------------------------------------------------------
TypeOK ==
    /\ DOMAIN interface = Hosts /\ \A h \in Hosts : IsInterface(interface[h])
    /\ delivered \in [Hosts -> Seq(Datagrams)]
    /\ sends \subseteq Datagrams /\ missed \subseteq Datagrams
    /\ faults \in 0 .. MaxFaults
    /\ asked \in [Hosts -> [IPs -> 0 .. LongAgo]]

\* How often d occurs: waiting for an address, in a frame not yet carried,
\* delivered, or missed by its next hop.
Copies(d) ==
    LET n       == interface[d.from]
        waiting == {i \in 1 .. Len(n.frames_waited) : n.frames_waited[i].dgram = d}
        framed  == {i \in 1 .. Len(n.frames_out) :
                       n.frames_out[i].type = "IPv4" /\ n.frames_out[i].payload = d}
        arrived == {i \in 1 .. Len(delivered[d.to]) : delivered[d.to][i] = d}
    IN  Cardinality(waiting) + Cardinality(framed) + Cardinality(arrived)
            + (IF d \in missed THEN 1 ELSE 0)

(***************************************************************************)
(* A datagram given to send_datagram is in one place until it reaches its  *)
(* next hop: the queue behind ARP neither drops nor repeats it, and only   *)
(* the next hop's interface passes it up.                                  *)
(***************************************************************************)
SentOnce ==
    /\ \A d \in sends : Copies(d) = 1
    /\ \A h \in Hosts : \A i \in 1 .. Len(delivered[h]) : delivered[h][i].to = h

(***************************************************************************)
(* The loop at the end of recv_frame empties the queue as far as it can:   *)
(* the datagram at its head is one whose next hop is unknown.              *)
(***************************************************************************)
HeadWaitsForAddress ==
    \A h \in Hosts :
        interface[h].frames_waited # << >> =>
            Head(interface[h].frames_waited).next_hop \notin DOMAIN interface[h].ip_map

(***************************************************************************)
(* No host broadcasts a request for an address twice within ARP_TIME.      *)
(***************************************************************************)
AsksSeldom ==
    [][\A h \in Hosts : \A ip \in Requested(interface[h], interface'[h]) :
          asked[h][ip] = LongAgo]_vars

(***************************************************************************)
(* "queue the IP datagram so it can be sent after the ARP reply is         *)
(* received": no datagram waits once the address of its hop is known.      *)
(***************************************************************************)
KnownHopIsNotWaitedFor ==
    \A h \in Hosts : \A i \in 1 .. Len(interface[h].frames_waited) :
        interface[h].frames_waited[i].next_hop \notin DOMAIN interface[h].ip_map

\* The service as the layers above see it: a datagram missed by its hop is lost.
Service == INSTANCE DatagramService WITH lost <- missed

(***************************************************************************)
(* The interfaces implement the service: whatever the queue behind ARP,    *)
(* the cache and the timers do, a step of send_datagram, recv_frame or     *)
(* tick sends, delivers or loses one datagram that is not delivered or     *)
(* lost yet, or changes nothing the layers above can see.                  *)
(***************************************************************************)
ImplementsService == Service!Spec

--------------------------------------------------------------------------------
(***************************************************************************)
(* The owner of each interface goes on carrying what is in frames_out      *)
(* (weak fairness, with the enabling condition written out).               *)
(***************************************************************************)
FairSpec ==
    /\ Spec
    /\ \A h \in Hosts :
          \/ []<><<Transmit(h, Hosts \ {h}, {})>>_vars
          \/ []<>(interface[h].frames_out = << >>)

\* All that h has sent goes to one next hop.
OneHop(h) == \A d1, d2 \in sends : d1.from = h /\ d2.from = h => d1.to = d2.to

(***************************************************************************)
(* While no frame is missed, every datagram of a host with one next hop    *)
(* reaches it, however slow the answers and whatever expires meanwhile.    *)
(* With two hops it need not: recv_frame sends from the head of the queue  *)
(* only, so an address may expire before the datagrams ahead have left,    *)
(* and nothing asks for it again.                                          *)
(***************************************************************************)
AllArrive ==
    [](faults = 0) =>
        <>[](\A d \in sends : OneHop(d.from) => d \in Range(delivered[d.to]))
================================================================================
