---------------------------- MODULE InterfaceProofs ----------------------------
(***************************************************************************)
(* Proofs about InterfaceSpec, for every set of hosts with distinct        *)
(* addresses, and all time limits: the queue behind ARP neither drops nor  *)
(* repeats a datagram, never waits needlessly at its head, no request is   *)
(* repeated too soon, and the whole implements DatagramService.            *)
(***************************************************************************)
EXTENDS InterfaceLemmas

\* The datagrams sent are numbered from 1, and only such are missed.
Numbered ==
    /\ IsFiniteSet(sends)
    /\ \A d \in sends : d.id \in 1 .. Cardinality(sends) /\ d.from \in Hosts /\ d.to \in Hosts
    /\ missed \subseteq sends

Types ==
    /\ interface \in [Hosts -> Interfaces] /\ asked \in [Hosts -> [IPs -> 0 .. LongAgo]]
    /\ delivered \in [Hosts -> Seq(Datagrams)]

HostInv(h) ==
    /\ HostOK(interface[h], h, sends)
    /\ HeadUnknown(interface[h])
    /\ Remembers(interface[h], asked[h])

\* What is delivered was sent, and to this host.
Arrived(h) ==
    \A i \in 1 .. Len(delivered[h]) : delivered[h][i] \in sends /\ delivered[h][i].to = h

Missed(d) == IF d \in missed THEN 1 ELSE 0

\* A datagram is held by its sender, delivered, or missed: once in all.
Once(d) == Held(interface[d.from], d) + Occ(delivered[d.to], {d}) + Missed(d) = 1

\* The inductive invariant.
IInv ==
    /\ Numbered
    /\ Types
    /\ \A h \in Hosts : HostInv(h) /\ Arrived(h)
    /\ \A d \in sends : Once(d)

\* What a step may request.
Seldom ==
    \A h \in Hosts : \A ip \in Requested(interface[h], interface'[h]) : asked[h][ip] = LongAgo

\* A step of the service, or none.
Serves == Service!Next \/ UNCHANGED Service!service

--------------------------------------------------------------------------------
(***************************************************************************)
(* What an interface holds is a number, and zero for a datagram not sent.  *)
(***************************************************************************)
LEMMA HeldType ==
    ASSUME NEW n, NEW h, NEW S, HostOK(n, h, S), NEW d
    PROVE  Held(n, d) \in Nat /\ (d \notin S => Held(n, d) = 0)
<1> DEFINE a == Occ(n.frames_waited, WaitingFor(d))
           b == Occ(n.frames_out, FramesOf(d))
<1>1. n.frames_out \in Seq(Frames) /\ n.frames_waited \in Seq(Waiting)
  BY Zenon, InterfaceParts DEF HostOK
<1>2. a \in Nat /\ b \in Nat
  BY Zenon, <1>1, OccType
<1>3. ASSUME d \notin S PROVE a = 0 /\ b = 0
  <2>1. \A i \in 1 .. Len(n.frames_waited) : n.frames_waited[i] \notin WaitingFor(d)
    BY Zenon, <1>3 DEF HostOK, Underway, WaitingFor
  <2>2. \A i \in 1 .. Len(n.frames_out) : n.frames_out[i] \notin FramesOf(d)
    BY Zenon, <1>3 DEF HostOK, Truthful, Underway, FramesOf
  <2> QED BY Zenon, <1>1, <2>1, <2>2, OccType
<1>4. Held(n, d) = a + b
  BY Zenon DEF Held
<1> HIDE DEF a, b
<1> QED
  BY <1>2, <1>3, <1>4

(***************************************************************************)
(* The initial state.                                                      *)
(***************************************************************************)
LEMMA InitIInv ==
    Init => IInv
<1> SUFFICES ASSUME Init PROVE IInv
  OBVIOUS
<1>1. Numbered
  BY Zenon, FS_EmptySet DEF Init, Numbered
<1>2. ASSUME NEW h \in Hosts
      PROVE  /\ interface[h] \in Interfaces /\ asked[h] \in [IPs -> 0 .. LongAgo]
             /\ delivered[h] \in Seq(Datagrams)
             /\ HostInv(h) /\ Arrived(h)
  <2> DEFINE n == interface[h]
             o == << >>
             none == << >>
  <2>1. n = NewInterface(Mac[h], Ip[h]) /\ delivered[h] = o
        /\ asked[h] = [ip \in IPs |-> LongAgo]
    BY DEF Init
  <2>2. Mac[h] \in Macs /\ Ip[h] \in IPs /\ LongAgo \in Nat
    BY InterfaceAssumption, InterfaceSpecAssumption DEF LongAgo
  <2>3. /\ o \in Seq(Frames) /\ o \in Seq(Waiting) /\ o \in Seq(Datagrams)
        /\ Len(o) = 0 /\ \A i \in 1 .. Len(o) : FALSE
    OBVIOUS
  <2>4. DOMAIN none = {} /\ none \in Maps(Entries) /\ none \in Maps(Nat)
    <3>1. DOMAIN none = {} /\ none \in [{} -> Entries] /\ none \in [{} -> Nat]
      OBVIOUS
    <3> HIDE DEF none
    <3> QED BY Zenon, <3>1 DEF Maps
  <2>5. /\ n.ethernet_address = Mac[h] /\ n.ip_address = Ip[h]
        /\ n.frames_out = o /\ n.frames_waited = o
        /\ n.ip_map = none /\ n.ARP_timer = none
        /\ n = [ethernet_address |-> Mac[h], ip_address |-> Ip[h], frames_out |-> o,
                frames_waited |-> o, ip_map |-> none, ARP_timer |-> none]
    BY <2>1 DEF NewInterface
  <2>6. o = << >>
    OBVIOUS
  <2> HIDE DEF n, o, none
  <2>7. n \in Interfaces
    BY Zenon, <2>2, <2>3, <2>4, <2>5 DEF Interfaces
  <2>8. HostOK(n, h, sends)
    BY Zenon, <2>3, <2>4, <2>5, <2>7 DEF HostOK
  <2>9. HeadUnknown(n)
    BY Zenon, <2>5, <2>6 DEF HeadUnknown
  <2>10. asked[h] \in [IPs -> 0 .. LongAgo] /\ \A ip \in IPs : asked[h][ip] = LongAgo
    BY <2>1, <2>2
  <2>11. Remembers(n, asked[h])
    BY Zenon, <2>4, <2>5, <2>10 DEF Remembers
  <2>12. Arrived(h)
    BY Zenon, <2>1, <2>3 DEF Arrived
  <2> QED BY Zenon, <2>1, <2>3, <2>7, <2>8, <2>9, <2>10, <2>11, <2>12 DEF HostInv, n
<1>3. Types
  <2>1. /\ interface = [h \in Hosts |-> interface[h]] /\ asked = [h \in Hosts |-> asked[h]]
        /\ delivered = [h \in Hosts |-> delivered[h]]
    BY DEF Init
  <2> QED BY Zenon, <1>2, <2>1 DEF Types
<1>4. \A d \in sends : Once(d)
  BY Zenon DEF Init
<1> QED
  BY Zenon, <1>1, <1>2, <1>3, <1>4 DEF IInv

(***************************************************************************)
(* send_datagram on host h keeps the invariant.                            *)
(***************************************************************************)
LEMMA SendStep ==
    ASSUME IInv, NEW h \in Hosts, NEW g \in Hosts, Send(h, g)
    PROVE  IInv' /\ Seldom /\ Serves
<1> PICK c : c = Cardinality(sends)
  OBVIOUS
<1> PICK d : d = [id |-> c + 1, from |-> h, to |-> g]
  BY Zenon
<1> DEFINE n == interface[h]
           since == asked[h]
           m == send_datagram(n, d, Ip[g])
           after == [ip \in IPs |-> IF ip \in Requested(n, m) THEN 0 ELSE since[ip]]
           T == sends \cup {d}
<1>1. /\ Numbered /\ Types
      /\ \A x \in Hosts : HostInv(x) /\ Arrived(x)
      /\ \A x \in sends : Once(x)
  BY Zenon DEF IInv
<1>2. h # g /\ c < MaxSends /\ sends' = T /\ interface' = [interface EXCEPT ![h] = m]
      /\ UNCHANGED <<delivered, missed, faults>>
  BY Zenon DEF Send
<1>3. asked' = [asked EXCEPT ![h] = after]
  BY DEF Send
<1>4. c \in Nat /\ IsFiniteSet(sends) /\ \A x \in sends : x.id \in 1 .. c
  BY Zenon, <1>1, FS_CardinalityType DEF Numbered
<1>5. d \in Datagrams /\ d.from = h /\ d.to = g /\ d.id = c + 1
  <2>1. c + 1 \in 1 .. MaxSends
    BY <1>2, <1>4, InterfaceSpecAssumption
  <2> DEFINE k == c + 1
  <2>2. \A id \in 1 .. MaxSends : [id |-> id, from |-> h, to |-> g] \in Datagrams
    BY Zenon, InterfaceSpecAssumption
  <2>3. k \in 1 .. MaxSends
    BY Zenon, <2>1
  <2> HIDE DEF k
  <2>4. [id |-> k, from |-> h, to |-> g] \in Datagrams
    BY Zenon, <2>2, <2>3
  <2> QED BY <2>4 DEF k
<1>6. d \notin sends
  <2>1. c + 1 \notin 1 .. c
    BY <1>4
  <2> QED BY Zenon, <1>4, <1>5, <2>1
<1>7. IsFiniteSet(T) /\ Cardinality(T) = c + 1
  BY Zenon, <1>4, <1>6, FS_AddElement
<1>8. HostOK(n, h, sends) /\ HeadUnknown(n) /\ Remembers(n, since)
  BY Zenon, <1>1 DEF HostInv
<1> HIDE DEF n, since
<1>9. /\ HostOK(m, h, T) /\ HeadUnknown(m)
      /\ \A e : Held(m, e) = Held(n, e) + (IF e = d THEN 1 ELSE 0)
      /\ \A ip \in Requested(n, m) : since[ip] = LongAgo
      /\ Remembers(m, after)
  <2>1. SendOK(n, h, sends, since, d, g)
    BY Zenon, <1>2, <1>5, <1>8, SendKeeps
  <2> QED BY Zenon, <2>1 DEF SendOK
<1> HIDE DEF m, after, T
<1>10. /\ interface \in [Hosts -> Interfaces] /\ asked \in [Hosts -> [IPs -> 0 .. LongAgo]]
       /\ delivered \in [Hosts -> Seq(Datagrams)]
  BY Zenon, <1>1 DEF Types
<1>11. /\ interface'[h] = m /\ asked'[h] = after
       /\ \A x \in Hosts : x # h => interface'[x] = interface[x] /\ asked'[x] = asked[x]
  BY Zenon, <1>2, <1>3, <1>10
<1>12. Numbered'
  <2>1. \A x \in T : x.id \in 1 .. (c + 1) /\ x.from \in Hosts /\ x.to \in Hosts
    <3>1. \A i \in 1 .. c : i \in 1 .. (c + 1)
      BY <1>4
    <3>2. c + 1 \in 1 .. (c + 1)
      BY <1>4
    <3> QED BY Zenon, <1>1, <1>4, <1>5, <3>1, <3>2 DEF Numbered, T
  <2>2. missed \subseteq T
    BY Zenon, <1>1 DEF Numbered, T
  <2> QED BY Zenon, <1>2, <1>7, <2>1, <2>2 DEF Numbered
<1>13. Types'
  <2>1. m \in Interfaces /\ after \in [IPs -> 0 .. LongAgo]
    BY Zenon, <1>9 DEF HostOK, Remembers
  <2> QED BY Zenon, <1>2, <1>3, <1>10, <2>1 DEF Types
<1>14. ASSUME NEW x \in Hosts PROVE HostInv(x)' /\ Arrived(x)'
  <2>1. Arrived(x)'
    BY Zenon, <1>1, <1>2 DEF Arrived, T
  <2>2. CASE x = h
    BY Zenon, <1>2, <1>9, <1>11, <2>1, <2>2 DEF HostInv
  <2>3. CASE x # h
    <3>1. HostOK(interface[x], x, T)
      <4>1. HostOK(interface[x], x, sends) /\ sends \subseteq T
        BY Zenon, <1>1 DEF HostInv, T
      <4> QED BY Zenon, <4>1, HostGrows
    <3> QED BY Zenon, <1>1, <1>2, <1>11, <2>1, <2>3, <3>1 DEF HostInv
  <2> QED BY Zenon, <2>2, <2>3
<1>15. Once(d)'
  <2>1. Held(n, d) = 0
    BY Zenon, <1>6, <1>8, HeldType
  <2>2. Occ(delivered[g], {d}) = 0
    <3>1. delivered[g] \in Seq(Datagrams) /\ \A i \in 1 .. Len(delivered[g]) : delivered[g][i] \notin {d}
      BY Zenon, <1>1, <1>6, <1>10 DEF Arrived
    <3> QED BY Zenon, <3>1, OccType
  <2>3. d \notin missed
    BY Zenon, <1>1, <1>6 DEF Numbered
  <2>4. Held(m, d) = 0 + 1
    BY Zenon, <1>9, <2>1
  <2>5. Held(interface'[d.from], d) = 0 + 1 /\ Occ(delivered'[d.to], {d}) = 0 /\ Missed(d)' = 0
    BY Zenon, <1>2, <1>5, <1>11, <2>2, <2>3, <2>4 DEF Missed
  <2>6. (0 + 1) + 0 + 0 = 1
    OBVIOUS
  <2> QED BY Zenon, <2>5, <2>6 DEF Once
<1>16. ASSUME NEW x \in sends PROVE Once(x)'
  <2>1. x # d /\ x.from \in Hosts
    BY Zenon, <1>1, <1>6 DEF Numbered
  <2>2. Held(interface'[x.from], x) = Held(interface[x.from], x)
    <3>1. CASE x.from = h
      <4>1. Held(m, x) = Held(n, x) + 0
        BY Zenon, <1>9, <2>1
      <4>2. Held(n, x) \in Nat
        BY Zenon, <1>8, HeldType
      <4>3. Held(m, x) = Held(n, x)
        BY <4>1, <4>2
      <4> QED BY Zenon, <1>11, <3>1, <4>3 DEF n
    <3>2. CASE x.from # h
      BY Zenon, <1>11, <2>1, <3>2
    <3> QED BY Zenon, <3>1, <3>2
  <2>3. Missed(x)' = Missed(x) /\ delivered' = delivered
    BY Zenon, <1>2 DEF Missed
  <2>4. Once(x)
    BY Zenon, <1>1
  <2> QED BY Zenon, <2>2, <2>3, <2>4 DEF Once
<1>17. Seldom
  <2>1. ASSUME NEW x \in Hosts, NEW ip \in Requested(interface[x], interface'[x])
        PROVE  asked[x][ip] = LongAgo
    <3>1. CASE x = h
      BY Zenon, <1>9, <1>11, <2>1, <3>1 DEF n, since
    <3>2. CASE x # h
      <4>1. Requested(interface[x], interface[x]) = {}
        <5> DEFINE u == interface[x]
                   r == << >>
        <5>1. u.frames_out \in Seq(Frames)
          BY Zenon, <1>10, InterfaceParts
        <5>2. /\ r \in Seq(Frames) /\ \A i \in 1 .. Len(r) : ~IsRequest(r[i])
              /\ u.frames_out = u.frames_out \o r
          BY <5>1, ConcatEmptySeq
        <5> HIDE DEF r, u
        <5>3. Requested(u, u) = {}
          BY Zenon, <5>1, <5>2, NothingRequested
        <5> QED BY Zenon, <5>3 DEF u
      <4> QED BY Zenon, <1>11, <2>1, <3>2, <4>1
    <3> QED BY Zenon, <3>1, <3>2
  <2> QED BY Zenon, <2>1 DEF Seldom
<1>18. Serves
  <2>1. Service!Send(d)
    BY Zenon, <1>2, <1>6 DEF Service!Send, T
  <2> QED BY Zenon, <1>5, <2>1 DEF Serves, Service!Next
<1> QED
  BY Zenon, <1>2, <1>12, <1>13, <1>14, <1>15, <1>16, <1>17, <1>18 DEF IInv, T

(***************************************************************************)
(* Nothing is requested by an interface that stays as it is.               *)
(***************************************************************************)
LEMMA IdleRequestsNothing ==
    ASSUME NEW n \in Interfaces
    PROVE  Requested(n, n) = {}
<1> DEFINE r == << >>
<1>1. n.frames_out \in Seq(Frames)
  BY Zenon, InterfaceParts
<1>2. /\ r \in Seq(Frames) /\ \A i \in 1 .. Len(r) : ~IsRequest(r[i])
      /\ n.frames_out = n.frames_out \o r
  BY <1>1, ConcatEmptySeq
<1> HIDE DEF r
<1> QED
  BY Zenon, <1>1, <1>2, NothingRequested

(***************************************************************************)
(* A frame that a receiver finds damaged, or not, is the same otherwise.   *)
(***************************************************************************)
LEMMA DamagedFrame ==
    ASSUME NEW f \in Frames, NEW b \in BOOLEAN
    PROVE  LET s == [f EXCEPT !.ok = b]
           IN  /\ s \in Frames /\ s.type = f.type /\ s.payload = f.payload
               /\ s.dst = f.dst /\ s.ok = b
<1> DEFINE A == [dst : Macs \cup {ETHERNET_BROADCAST}, src : Macs, ok : BOOLEAN,
                 type : {"IPv4"}, payload : Datagrams]
           B == [dst : Macs \cup {ETHERNET_BROADCAST}, src : Macs, ok : BOOLEAN,
                 type : {"ARP"}, payload : ARPMessages]
           s == [f EXCEPT !.ok = b]
<1>1. CASE f \in A
  <2>1. s \in A /\ s.type = f.type /\ s.payload = f.payload /\ s.dst = f.dst /\ s.ok = b
    BY Zenon, <1>1
  <2> QED BY Zenon, <2>1 DEF Frames
<1>2. CASE f \in B
  <2>1. s \in B /\ s.type = f.type /\ s.payload = f.payload /\ s.dst = f.dst /\ s.ok = b
    BY Zenon, <1>2
  <2> QED BY Zenon, <2>1 DEF Frames
<1> QED
  BY Zenon, <1>1, <1>2 DEF Frames

\* What a receiver makes of a frame, or its owner of carrying one: the interface
\* n becomes m.
Passes(n, m, h, S) ==
    /\ HostOK(m, h, S) /\ HeadUnknown(m) /\ m.ARP_timer = n.ARP_timer
    /\ Requested(n, m) = {}

(***************************************************************************)
(* The interfaces while a frame of h is carried: each is as it should be   *)
(* afterwards, and all but the frame stays where it was.                   *)
(***************************************************************************)
LEMMA FrameCarried ==
    ASSUME IInv, NEW h \in Hosts, NEW got \in SUBSET (Hosts \ {h}),
           NEW damaged \in SUBSET got, Transmit(h, got, damaged),
           NEW f, f = Head(interface[h].frames_out)
    PROVE  /\ f \in Frames /\ Truthful(f, h, sends)
           /\ \A g \in Hosts : Passes(interface[g], interface'[g], g, sends)
           /\ \A g \in Hosts : \A d : g # h => Held(interface'[g], d) = Held(interface[g], d)
           /\ \A d : Held(interface[h], d)
                        = Held(interface'[h], d) + (IF f \in FramesOf(d) THEN 1 ELSE 0)
<1> DEFINE seen(g) == [f EXCEPT !.ok = g \notin damaged]
           n == interface[h]
           m == [n EXCEPT !.frames_out = Tail(@)]
<1>1. \A g \in Hosts : HostOK(interface[g], g, sends) /\ HeadUnknown(interface[g])
  BY Zenon DEF IInv, HostInv
<1>2. n.frames_out # << >>
  BY Zenon DEF Transmit
<1>3. interface' = [g \in Hosts |->
              IF g = h THEN m
              ELSE IF g \in got THEN recv_frame(interface[g], seen(g)) ELSE interface[g]]
  BY SMTT(30) DEF Transmit
<1>4. /\ HostOK(m, h, sends) /\ HeadUnknown(m) /\ m.ARP_timer = n.ARP_timer
      /\ \A d : Held(n, d) = Held(m, d) + (IF f \in FramesOf(d) THEN 1 ELSE 0)
      /\ Requested(n, m) = {}
      /\ f \in Frames /\ Truthful(f, h, sends)
  <2>1. HostOK(n, h, sends) /\ HeadUnknown(n)
    BY Zenon, <1>1
  <2> HIDE DEF n
  <2>2. LET u == [n EXCEPT !.frames_out = Tail(@)]
            x == Head(n.frames_out)
        IN  /\ HostOK(u, h, sends) /\ HeadUnknown(u)
            /\ u.ARP_timer = n.ARP_timer
            /\ \A d : Held(n, d) = Held(u, d) + (IF x \in FramesOf(d) THEN 1 ELSE 0)
            /\ Requested(n, u) = {}
            /\ x \in Frames /\ Truthful(x, h, sends)
    BY Zenon, <1>2, <2>1, CarryKeeps
  <2>3. f = Head(n.frames_out)
    BY DEF n
  <2> QED BY Zenon, <2>2, <2>3
<1> HIDE DEF m, n
<1>5. ASSUME NEW g \in got
      PROVE  LET u == recv_frame(interface[g], seen(g))
             IN  Passes(interface[g], u, g, sends) /\ \A d : Held(u, d) = Held(interface[g], d)
  <2> DEFINE s == seen(g)
             v == interface[g]
  <2>1. s \in Frames /\ s.type = f.type /\ s.payload = f.payload
    <3> DEFINE b == g \notin damaged
    <3>1. b \in BOOLEAN
      BY Zenon
    <3> HIDE DEF b
    <3>2. LET x == [f EXCEPT !.ok = b]
          IN  x \in Frames /\ x.type = f.type /\ x.payload = f.payload
      BY Zenon, <1>4, <3>1, DamagedFrame
    <3> QED BY Zenon, <3>2 DEF b
  <2>2. s.type = "ARP" => Speaks(s.payload)
    <3>1. f.type = "ARP" => Speaks(f.payload)
      BY Zenon, <1>4 DEF Truthful, Speaks
    <3> HIDE DEF s
    <3> QED BY Zenon, <2>1, <3>1
  <2>3. g \in Hosts /\ HostOK(v, g, sends) /\ HeadUnknown(v)
    BY Zenon, <1>1
  <2> HIDE DEF s, v
  <2>4. LET u == recv_frame(v, s)
        IN  /\ HostOK(u, g, sends) /\ HeadUnknown(u)
            /\ u.ARP_timer = v.ARP_timer
            /\ \A d : Held(u, d) = Held(v, d)
            /\ Requested(v, u) = {}
    BY Zenon, <2>1, <2>2, <2>3, RecvKeeps
  <2> QED BY Zenon, <2>4 DEF Passes, s, v
<1> HIDE DEF seen
<1>6. ASSUME NEW g \in Hosts
      PROVE  /\ Passes(interface[g], interface'[g], g, sends)
             /\ g # h => \A d : Held(interface'[g], d) = Held(interface[g], d)
  <2>1. CASE g = h
    BY Zenon, <1>3, <1>4, <2>1 DEF Passes, n
  <2>2. CASE g # h /\ g \in got
    <3>1. interface'[g] = recv_frame(interface[g], seen(g))
      BY Zenon, <1>3, <2>2
    <3> QED BY Zenon, <1>5, <2>2, <3>1
  <2>3. CASE g # h /\ g \notin got
    <3>1. interface'[g] = interface[g]
      BY Zenon, <1>3, <2>3
    <3>2. Requested(interface[g], interface[g]) = {}
      BY Zenon, <1>1, IdleRequestsNothing DEF HostOK
    <3> QED BY Zenon, <1>1, <3>1, <3>2 DEF Passes
  <2> QED BY Zenon, <2>1, <2>2, <2>3
<1>7. interface'[h] = m
  BY Zenon, <1>3
<1> QED
  BY Zenon, <1>4, <1>6, <1>7 DEF n

\* Whether the datagram d, carried to the hosts in got, reaches its next hop.
Reaches(d, got, damaged) == d.to \in got /\ d.to \notin damaged

\* A frame with a datagram is for the datagram's next hop.
Addressed(f) ==
    f.type = "IPv4" => f.payload.to \in Hosts /\ f.dst = Mac[f.payload.to]

\* What recv_frame returns on host g for the frame f, as it is on the wire.
Taken(f, g, got, damaged) ==
    Received(interface[g], [f EXCEPT !.ok = g \notin damaged])
        = IF f.type = "IPv4" /\ g = f.payload.to /\ Reaches(f.payload, got, damaged)
          THEN <<f.payload>> ELSE << >>

(***************************************************************************)
(* Only the next hop passes a datagram up: an interface takes no frame for *)
(* another one's address.                                                  *)
(***************************************************************************)
LEMMA OnlyTheHopReceives ==
    ASSUME IInv, NEW got \in SUBSET Hosts, NEW damaged \in SUBSET got, NEW f \in Frames,
           Addressed(f), NEW g \in got
    PROVE  Taken(f, g, got, damaged)
<1> DEFINE s == [f EXCEPT !.ok = g \notin damaged]
           n == interface[g]
<1>1. /\ s.type = f.type /\ s.payload = f.payload /\ s.dst = f.dst
      /\ s.ok <=> g \notin damaged
  <2> DEFINE b == g \notin damaged
  <2>1. b \in BOOLEAN
    BY Zenon
  <2> HIDE DEF b
  <2>2. LET x == [f EXCEPT !.ok = b]
        IN  /\ x.type = f.type /\ x.payload = f.payload /\ x.dst = f.dst /\ x.ok = b
    BY Zenon, <2>1, DamagedFrame
  <2> QED BY Zenon, <2>2 DEF b
<1>2. n.ethernet_address = Mac[g] /\ g \in Hosts
  BY Zenon DEF IInv, HostInv, HostOK
<1>3. ASSUME f.type = "IPv4" PROVE f.dst \in {Mac[g], ETHERNET_BROADCAST} <=> g = f.payload.to
  <2> DEFINE t == f.payload.to
  <2>1. t \in Hosts /\ f.dst = Mac[t]
    BY Zenon, <1>3 DEF Addressed
  <2> HIDE DEF t
  <2>2. Mac[t] # ETHERNET_BROADCAST
    BY <2>1, InterfaceAssumption, InterfaceSpecAssumption
  <2>3. Mac[t] = Mac[g] <=> g = t
    BY Zenon, <1>2, <2>1, InterfaceSpecAssumption
  <2> QED BY Zenon, <2>1, <2>2, <2>3 DEF t
<1> HIDE DEF s, n
<1>4. Received(n, s) = IF s.dst \in {n.ethernet_address, ETHERNET_BROADCAST}
                           /\ s.type = "IPv4" /\ s.ok
                       THEN <<s.payload>> ELSE << >>
  BY Zenon DEF Received, ForMe
<1>5. Received(n, s) = IF f.type = "IPv4" /\ g = f.payload.to /\ g \notin damaged
                       THEN <<f.payload>> ELSE << >>
  BY SMTT(30), <1>1, <1>2, <1>3, <1>4
<1> QED
  BY Zenon, <1>5 DEF Taken, Reaches, s, n

(***************************************************************************)
(* Carrying a frame keeps the invariant: a datagram in it arrives at its   *)
(* next hop once, or is missed.                                            *)
(***************************************************************************)
LEMMA TransmitStep ==
    ASSUME IInv, NEW h \in Hosts, NEW got \in SUBSET (Hosts \ {h}),
           NEW damaged \in SUBSET got, Transmit(h, got, damaged)
    PROVE  IInv' /\ Seldom /\ Serves
<1> PICK f : f = Head(interface[h].frames_out)
  OBVIOUS
<1> PICK p : p = f.payload
  OBVIOUS
<1> DEFINE seen(g) == [f EXCEPT !.ok = g \notin damaged]
           ip4 == f.type = "IPv4"
           ok  == ip4 /\ Reaches(p, got, damaged)
<1>1. /\ Numbered /\ Types
      /\ \A x \in Hosts : HostInv(x) /\ Arrived(x)
      /\ \A x \in sends : Once(x)
  BY Zenon DEF IInv
<1>2. /\ f \in Frames /\ Truthful(f, h, sends)
      /\ \A g \in Hosts : Passes(interface[g], interface'[g], g, sends)
      /\ \A g \in Hosts : \A d : g # h => Held(interface'[g], d) = Held(interface[g], d)
      /\ \A d : Held(interface[h], d)
                   = Held(interface'[h], d) + (IF f \in FramesOf(d) THEN 1 ELSE 0)
  BY Zenon, FrameCarried
<1>3. /\ delivered' = [g \in Hosts |->
            IF g \in got THEN delivered[g] \o Received(interface[g], seen(g)) ELSE delivered[g]]
      /\ missed' = IF ip4 /\ \A g \in got : Received(interface[g], seen(g)) = << >>
                   THEN missed \cup {p} ELSE missed
      /\ sends' = sends /\ asked' = asked
      /\ \E F : interface' = [g \in Hosts |-> F[g]]
  <2> DEFINE F == [g \in Hosts |-> interface'[g]]
  <2>1. interface' = [g \in Hosts |-> F[g]]
    BY DEF Transmit
  <2>2. \E G : interface' = [g \in Hosts |-> G[g]]
    BY Zenon, <2>1
  <2> HIDE DEF F
  <2>3. /\ delivered' = [g \in Hosts |->
            IF g \in got THEN delivered[g] \o Received(interface[g], seen(g)) ELSE delivered[g]]
        /\ missed' = IF ip4 /\ \A g \in got : Received(interface[g], seen(g)) = << >>
                     THEN missed \cup {p} ELSE missed
        /\ sends' = sends /\ asked' = asked
    BY Zenon DEF Transmit
  <2> QED BY Zenon, <2>2, <2>3
<1>4. \A g \in got : Received(interface[g], seen(g)) = IF ok /\ g = p.to THEN <<p>> ELSE << >>
  <2>1. ASSUME NEW g \in got
        PROVE  Received(interface[g], seen(g)) = IF ok /\ g = p.to THEN <<p>> ELSE << >>
    <3>1. Received(interface[g], [f EXCEPT !.ok = g \notin damaged])
            = IF f.type = "IPv4" /\ g = f.payload.to /\ Reaches(f.payload, got, damaged)
              THEN <<f.payload>> ELSE << >>
      <4>1. got \in SUBSET Hosts
        BY Zenon
      <4>2. Addressed(f)
        BY Zenon, <1>2 DEF Truthful, Underway, Addressed
      <4>3. Taken(f, g, got, damaged)
        BY Zenon, <1>2, <4>1, <4>2, OnlyTheHopReceives
      <4> QED BY Zenon, <4>3 DEF Taken
    <3>2. ok /\ g = p.to <=> ip4 /\ g = p.to /\ Reaches(p, got, damaged)
      BY Zenon
    <3> QED BY Zenon, <3>1, <3>2
  <2> QED BY Zenon, <2>1
<1>5. /\ interface \in [Hosts -> Interfaces] /\ asked \in [Hosts -> [IPs -> 0 .. LongAgo]]
      /\ delivered \in [Hosts -> Seq(Datagrams)]
  BY Zenon, <1>1 DEF Types
<1>6. ip4 => Underway(p, h, sends) /\ p \in Datagrams
  <2>1. ip4 => p \in Datagrams
    BY <1>2 DEF Frames
  <2> QED BY Zenon, <1>2, <2>1 DEF Truthful
<1> HIDE DEF seen, ip4
<1>7. \A g \in Hosts : delivered'[g] = IF ok /\ g = p.to THEN delivered[g] \o <<p>>
                                       ELSE delivered[g]
  <2>1. ASSUME NEW g \in Hosts
        PROVE  delivered'[g] = IF ok /\ g = p.to THEN delivered[g] \o <<p>> ELSE delivered[g]
    <3>1. delivered[g] \o << >> = delivered[g]
      BY <1>5, ConcatEmptySeq
    <3>2. CASE g \in got
      <4>1. delivered'[g] = delivered[g] \o Received(interface[g], seen(g))
        BY Zenon, <1>3, <3>2
      <4> QED BY Zenon, <1>4, <3>1, <3>2, <4>1
    <3>3. CASE g \notin got
      <4>1. delivered'[g] = delivered[g]
        BY Zenon, <1>3, <3>3
      <4>2. ~(ok /\ g = p.to)
        BY Zenon, <3>3 DEF Reaches
      <4> QED BY Zenon, <4>1, <4>2
    <3> QED BY Zenon, <3>2, <3>3
  <2> QED BY Zenon, <2>1
<1>8. missed' = IF ip4 /\ ~ok THEN missed \cup {p} ELSE missed
  <2>1. CASE ok
    <3>1. <<p>> # << >>
      OBVIOUS
    <3>2. p.to \in got
      BY Zenon, <2>1 DEF Reaches
    <3>3. Received(interface[p.to], seen(p.to)) # << >>
      BY Zenon, <1>4, <2>1, <3>1, <3>2
    <3> QED BY Zenon, <1>3, <2>1, <3>2, <3>3
  <2>2. CASE ~ok
    <3>1. \A g \in got : Received(interface[g], seen(g)) = << >>
      BY Zenon, <1>4, <2>2
    <3> QED BY Zenon, <1>3, <2>2, <3>1
  <2> QED BY Zenon, <2>1, <2>2
<1>9. ok => ip4 /\ p.to \in Hosts
  BY Zenon DEF Reaches
<1> HIDE DEF ok
<1>10. ~ok => delivered' = delivered
  <2> SUFFICES ASSUME ~ok PROVE delivered' = delivered
    OBVIOUS
  <2>1. \A g \in Hosts : delivered'[g] = delivered[g]
    BY Zenon, <1>7
  <2>2. delivered' = [g \in Hosts |-> delivered'[g]]
    BY <1>3
  <2>3. delivered = [g \in Hosts |-> delivered[g]]
    BY Zenon, <1>5
  <2> QED BY Zenon, <2>1, <2>2, <2>3
<1>11. Numbered'
  <2>1. missed' \subseteq sends
    BY Zenon, <1>1, <1>6, <1>8 DEF Numbered, Underway
  <2> QED BY Zenon, <1>1, <1>3, <2>1 DEF Numbered
<1>12. Types'
  <2>1. \A g \in Hosts : interface'[g] \in Interfaces
    BY Zenon, <1>2 DEF Passes, HostOK
  <2>2. interface' \in [Hosts -> Interfaces]
    BY <1>3, <2>1
  <2>3. ASSUME NEW g \in Hosts PROVE delivered'[g] \in Seq(Datagrams)
    <3>1. delivered[g] \in Seq(Datagrams)
      BY Zenon, <1>5
    <3>2. ok => delivered[g] \o <<p>> \in Seq(Datagrams)
      BY SMTT(30), <1>6, <1>9, <3>1
    <3> QED BY Zenon, <1>7, <3>1, <3>2
  <2>4. delivered' \in [Hosts -> Seq(Datagrams)]
    BY <1>3, <2>3
  <2> QED BY Zenon, <1>3, <1>5, <2>2, <2>4 DEF Types
<1>13. ASSUME NEW x \in Hosts PROVE HostInv(x)'
  <2>1. HostOK(interface'[x], x, sends) /\ HeadUnknown(interface'[x])
        /\ interface'[x].ARP_timer = interface[x].ARP_timer
    BY Zenon, <1>2 DEF Passes
  <2>2. Remembers(interface[x], asked[x])
    BY Zenon, <1>1 DEF HostInv
  <2>3. Remembers(interface'[x], asked[x])
    BY Zenon, <2>1, <2>2 DEF Remembers
  <2> QED BY Zenon, <1>3, <2>1, <2>3 DEF HostInv
<1>14. ASSUME NEW x \in Hosts PROVE Arrived(x)'
  <2>1. Arrived(x)
    BY Zenon, <1>1
  <2>2. CASE ok /\ x = p.to
    <3> DEFINE q == delivered[x]
               r == q \o <<p>>
    <3>1. q \in Seq(Datagrams) /\ p \in sends /\ p.to = x
      BY Zenon, <1>5, <1>6, <1>9, <2>2 DEF Underway
    <3>2. ASSUME NEW i \in 1 .. Len(r) PROVE r[i] \in sends /\ r[i].to = x
      <4>1. (i \in 1 .. Len(q) /\ r[i] = q[i]) \/ r[i] = p
        BY <3>1
      <4> HIDE DEF r
      <4> QED BY Zenon, <2>1, <3>1, <4>1 DEF Arrived
    <3>3. delivered'[x] = r
      BY Zenon, <1>7, <2>2
    <3> HIDE DEF r
    <3> QED BY Zenon, <1>3, <3>2, <3>3 DEF Arrived
  <2>3. CASE ~(ok /\ x = p.to)
    <3>1. delivered'[x] = delivered[x]
      BY Zenon, <1>7, <2>3
    <3> QED BY Zenon, <1>3, <2>1, <3>1 DEF Arrived
  <2> QED BY Zenon, <2>2, <2>3
<1>15. ASSUME NEW d \in sends
       PROVE  /\ Once(d)'
              /\ ip4 /\ p = d => Occ(delivered[d.to], {d}) = 0 /\ d \notin missed
  <2> PICK x : x = Held(interface[d.from], d)
    OBVIOUS
  <2> PICK y : y = Occ(delivered[d.to], {d})
    OBVIOUS
  <2> PICK z : z = Missed(d)
    OBVIOUS
  <2> PICK v : v = Held(interface'[d.from], d)
    OBVIOUS
  <2>1. d.from \in Hosts /\ d.to \in Hosts /\ x + y + z = 1
    BY Zenon, <1>1 DEF Numbered, Once
  <2>2. delivered[d.to] \in Seq(Datagrams)
    BY Zenon, <1>5, <2>1
  <2>3. y \in Nat /\ z \in {0, 1}
    BY Zenon, <2>2, OccType DEF Missed
  <2>4. v \in Nat
    <3>1. HostOK(interface'[d.from], d.from, sends)
      BY Zenon, <1>2, <2>1 DEF Passes
    <3> QED BY Zenon, <3>1, HeldType
  <2>5. x = v + (IF d.from = h /\ f \in FramesOf(d) THEN 1 ELSE 0)
    <3>1. CASE d.from = h
      BY Zenon, <1>2, <3>1
    <3>2. CASE d.from # h
      <4>1. x = v
        BY Zenon, <1>2, <2>1, <3>2
      <4> QED BY <2>4, <3>2, <4>1
    <3> QED BY Zenon, <3>1, <3>2
  <2>6. f \in FramesOf(d) <=> ip4 /\ p = d
    BY Zenon, <1>2 DEF FramesOf, ip4
  <2>7. f \in FramesOf(d) => d.from = h
    BY Zenon, <1>6, <2>6 DEF Underway
  <2>8. ok => Occ(delivered[d.to] \o <<p>>, {d}) = y + (IF p = d THEN 1 ELSE 0)
    <3>1. ASSUME ok PROVE Occ(delivered[d.to] \o <<p>>, {d}) = y + (IF p = d THEN 1 ELSE 0)
      <4> DEFINE q == delivered[d.to]
                 r == <<p>>
                 T == {d}
      <4>1. q \in Seq(Datagrams) /\ r \in Seq(Datagrams)
        BY SMTT(30), <1>6, <1>9, <2>2, <3>1
      <4>2. Occ(r, T) = IF p \in T THEN 1 ELSE 0
        BY Zenon, OccOne
      <4>3. p \in T <=> p = d
        BY Zenon
      <4> HIDE DEF q, r, T
      <4>4. Occ(q \o r, T) = Occ(q, T) + Occ(r, T)
        BY <4>1, OccConcat
      <4> QED BY Zenon, <4>2, <4>3, <4>4 DEF q, r, T
    <3> QED BY Zenon, <3>1
  <2>9. CASE ip4 /\ p = d
    <3>1. x = v + 1
      BY Zenon, <2>5, <2>6, <2>7, <2>9
    <3>2. v = 0 /\ y = 0 /\ z = 0
      BY SMTT(30), <2>1, <2>3, <2>4, <3>1
    <3>3. d \notin missed
      BY SMTT(30), <3>2 DEF Missed
    <3>4. ASSUME ok PROVE Once(d)'
      <4>1. Occ(delivered[d.to] \o <<p>>, {d}) = 0 + 1
        BY Zenon, <2>8, <2>9, <3>2, <3>4
      <4>2. Occ(delivered'[d.to], {d}) = 0 + 1
        BY Zenon, <1>7, <2>1, <2>9, <3>4, <4>1
      <4>3. Missed(d)' = 0
        BY Zenon, <1>8, <3>3, <3>4 DEF Missed
      <4>4. 0 + (0 + 1) + 0 = 1
        OBVIOUS
      <4> QED BY Zenon, <3>2, <4>2, <4>3, <4>4 DEF Once
    <3>5. ASSUME ~ok PROVE Once(d)'
      <4>1. Occ(delivered'[d.to], {d}) = 0
        BY Zenon, <1>7, <2>1, <3>2, <3>5
      <4>2. Missed(d)' = 1
        BY Zenon, <1>8, <2>9, <3>5 DEF Missed
      <4>3. 0 + 0 + 1 = 1
        OBVIOUS
      <4> QED BY Zenon, <3>2, <4>1, <4>2, <4>3 DEF Once
    <3> QED BY Zenon, <3>2, <3>3, <3>4, <3>5
  <2>10. CASE ~(ip4 /\ p = d)
    <3>1. x = v
      BY <2>4, <2>5, <2>6, <2>10
    <3>2. Occ(delivered'[d.to], {d}) = y
      <4>1. CASE ok
        <5>1. Occ(delivered[d.to] \o <<p>>, {d}) = y + 0
          BY Zenon, <1>9, <2>8, <2>10, <4>1
        <5>2. Occ(delivered[d.to] \o <<p>>, {d}) = y
          BY <2>3, <5>1
        <5> QED BY Zenon, <1>7, <2>1, <5>2
      <4>2. CASE ~ok
        BY Zenon, <1>7, <2>1, <4>2
      <4> QED BY Zenon, <4>1, <4>2
    <3>3. Missed(d)' = z
      BY Zenon, <1>8, <2>10 DEF Missed
    <3> QED BY Zenon, <2>1, <2>10, <3>1, <3>2, <3>3 DEF Once
  <2> QED BY Zenon, <2>9, <2>10
<1>16. Seldom
  BY Zenon, <1>2 DEF Seldom, Passes
<1>17. Serves
  <2>1. CASE ip4
    <3> DEFINE q == delivered[p.to]
               F == [delivered EXCEPT ![p.to] = Append(@, p)]
    <3>1. p \in sends /\ p \in Datagrams /\ p.to \in Hosts
      BY Zenon, <1>6, <2>1 DEF Underway
    <3>2. q \in Seq(Datagrams) /\ Occ(q, {p}) = 0 /\ p \notin missed
      BY Zenon, <1>5, <1>15, <2>1, <3>1
    <3>3. \A i \in 1 .. Len(q) : q[i] \notin {p}
      <4> DEFINE A == {i \in 1 .. Len(q) : q[i] \in {p}}
      <4> DEFINE T == {p}
      <4>1. q \in Seq(Datagrams) /\ Cardinality(A) = 0
        BY Zenon, <3>2 DEF Occ
      <4> HIDE DEF q, T
      <4>2. IsFiniteSet({i \in 1 .. Len(q) : q[i] \in T})
        BY Zenon, <4>1, OccType
      <4>3. A = {}
        BY Zenon, <4>1, <4>2, FS_EmptySet DEF T
      <4> QED BY Zenon, <4>3
    <3>4. Service!Pending(p)
      BY Zenon, <3>1, <3>2, <3>3 DEF Service!Pending
    <3>5. CASE ok
      <4>1. Append(q, p) = q \o <<p>>
        BY Zenon, <3>1, <3>2, AppendIsConcat
      <4>2. \A g \in Hosts : F[g] = IF g = p.to THEN q \o <<p>> ELSE delivered[g]
        BY Zenon, <1>5, <4>1
      <4>3. \A g \in Hosts : delivered'[g] = F[g]
        BY Zenon, <1>7, <3>5, <4>2
      <4>4. delivered' = F
        <5>1. DOMAIN F = Hosts /\ F = [g \in Hosts |-> F[g]]
          BY Zenon, <1>5
        <5>2. delivered' = [g \in Hosts |-> delivered'[g]]
          BY <1>3
        <5> QED BY Zenon, <4>3, <5>1, <5>2
      <4>5. missed' = missed
        BY Zenon, <1>8, <3>5
      <4> HIDE DEF F
      <4>6. Service!Deliver(p)
        BY Zenon, <1>3, <3>4, <4>4, <4>5 DEF Service!Deliver, F
      <4> QED BY Zenon, <3>1, <4>6 DEF Serves, Service!Next
    <3>6. CASE ~ok
      <4>1. delivered' = delivered
        BY Zenon, <1>10, <3>6
      <4>2. missed' = missed \cup {p}
        BY Zenon, <1>8, <2>1, <3>6
      <4>3. Service!Lose(p)
        BY Zenon, <1>3, <3>4, <4>1, <4>2 DEF Service!Lose
      <4> QED BY Zenon, <3>1, <4>3 DEF Serves, Service!Next
    <3> QED BY Zenon, <3>5, <3>6
  <2>2. CASE ~ip4
    <3>1. delivered' = delivered /\ missed' = missed
      BY Zenon, <1>8, <1>9, <1>10, <2>2
    <3> QED BY Zenon, <1>3, <3>1 DEF Serves, Service!service
  <2> QED BY Zenon, <2>1, <2>2
<1> QED
  BY Zenon, <1>3, <1>11, <1>12, <1>13, <1>14, <1>15, <1>16, <1>17 DEF IInv

(***************************************************************************)
(* The passing of time keeps the invariant.                                *)
(***************************************************************************)
LEMMA TickStep ==
    ASSUME IInv, Tick
    PROVE  IInv' /\ Seldom /\ Serves
<1> DEFINE later(h) == [ip \in IPs |->
                    IF asked[h][ip] < LongAgo THEN asked[h][ip] + 1 ELSE LongAgo]
<1>1. /\ Numbered /\ Types
      /\ \A x \in Hosts : HostInv(x) /\ Arrived(x)
      /\ \A x \in sends : Once(x)
  BY Zenon DEF IInv
<1>2. /\ interface' = [h \in Hosts |-> InterfaceTick(interface[h], 1)]
      /\ asked' = [h \in Hosts |-> later(h)]
      /\ delivered' = delivered /\ sends' = sends /\ missed' = missed
  BY Zenon DEF Tick
<1>3. ASSUME NEW h \in Hosts
      PROVE  /\ HostOK(interface'[h], h, sends) /\ HeadUnknown(interface'[h])
             /\ Remembers(interface'[h], asked'[h])
             /\ \A d : Held(interface'[h], d) = Held(interface[h], d)
             /\ Requested(interface[h], interface'[h]) = {}
  <2> DEFINE n == interface[h]
             since == asked[h]
             m == InterfaceTick(n, 1)
             after == [ip \in IPs |-> IF since[ip] < LongAgo THEN since[ip] + 1 ELSE LongAgo]
  <2>1. HostOK(n, h, sends) /\ HeadUnknown(n) /\ Remembers(n, since)
    BY Zenon, <1>1 DEF HostInv
  <2>2. interface'[h] = m /\ asked'[h] = after
    BY Zenon, <1>2
  <2> HIDE DEF n, since
  <2>3. /\ HostOK(m, h, sends) /\ HeadUnknown(m) /\ Remembers(m, after)
        /\ \A d : Held(m, d) = Held(n, d)
        /\ Requested(n, m) = {}
    BY Zenon, <2>1, TickKeeps
  <2> HIDE DEF m, after
  <2> QED BY Zenon, <2>2, <2>3 DEF n
<1> HIDE DEF later
<1>4. Types'
  <2>1. \A h \in Hosts : interface'[h] \in Interfaces /\ asked'[h] \in [IPs -> 0 .. LongAgo]
    BY Zenon, <1>3 DEF HostOK, Remembers
  <2>2. interface' \in [Hosts -> Interfaces] /\ asked' \in [Hosts -> [IPs -> 0 .. LongAgo]]
    BY <1>2, <2>1
  <2> QED BY Zenon, <1>1, <1>2, <2>2 DEF Types
<1>5. Numbered'
  BY Zenon, <1>1, <1>2 DEF Numbered
<1>6. ASSUME NEW h \in Hosts PROVE HostInv(h)' /\ Arrived(h)'
  BY Zenon, <1>1, <1>2, <1>3 DEF HostInv, Arrived
<1>7. ASSUME NEW d \in sends PROVE Once(d)'
  <2>1. d.from \in Hosts /\ Once(d)
    BY Zenon, <1>1 DEF Numbered
  <2>2. Held(interface'[d.from], d) = Held(interface[d.from], d)
    BY Zenon, <1>3, <2>1
  <2>3. Missed(d)' = Missed(d)
    BY Zenon, <1>2 DEF Missed
  <2> QED BY Zenon, <1>2, <2>1, <2>2, <2>3 DEF Once
<1>8. Seldom
  BY Zenon, <1>3 DEF Seldom
<1>9. Serves
  BY Zenon, <1>2 DEF Serves, Service!service
<1> QED
  BY Zenon, <1>2, <1>4, <1>5, <1>6, <1>7, <1>8, <1>9 DEF IInv

(***************************************************************************)
(* IInv is inductive, and no step requests an address too soon.            *)
(***************************************************************************)
LEMMA NextIInv ==
    ASSUME IInv, [Next]_vars
    PROVE  IInv' /\ (Seldom \/ UNCHANGED vars) /\ Serves
<1>1. CASE Tick
  BY Zenon, <1>1, TickStep
<1>2. ASSUME NEW h \in Hosts, NEW g \in Hosts, Send(h, g)
      PROVE  IInv' /\ Seldom /\ Serves
  BY Zenon, <1>2, SendStep
<1>3. ASSUME NEW h \in Hosts, NEW got \in SUBSET (Hosts \ {h}), NEW damaged \in SUBSET got,
             Transmit(h, got, damaged)
      PROVE  IInv' /\ Seldom /\ Serves
  BY Zenon, <1>3, TransmitStep
<1>4. CASE UNCHANGED vars
  <2>1. /\ interface' = interface /\ delivered' = delivered /\ sends' = sends
        /\ missed' = missed /\ asked' = asked
    BY Zenon, <1>4 DEF vars
  <2>2. Numbered' /\ Types' /\ \A h \in Hosts : HostInv(h)' /\ Arrived(h)'
    BY Zenon, <2>1 DEF IInv, Numbered, Types, HostInv, Arrived
  <2>3. \A d \in sends : Once(d)'
    BY Zenon, <2>1 DEF IInv, Once, Missed
  <2>4. Serves
    BY Zenon, <2>1 DEF Serves, Service!service
  <2> QED BY Zenon, <1>4, <2>1, <2>2, <2>3, <2>4 DEF IInv
<1> QED
  BY Zenon, <1>1, <1>2, <1>3, <1>4 DEF Next

(***************************************************************************)
(* IInv implies the two invariants: Held and Occ count what Copies counts. *)
(***************************************************************************)
LEMMA IInvImplies ==
    ASSUME IInv
    PROVE  SentOnce /\ HeadWaitsForAddress
<1>1. ASSUME NEW d \in sends PROVE Copies(d) = 1
  <2> DEFINE n == interface[d.from]
             A == {i \in 1 .. Len(n.frames_waited) : n.frames_waited[i].dgram = d}
             B == {i \in 1 .. Len(n.frames_out) :
                      n.frames_out[i].type = "IPv4" /\ n.frames_out[i].payload = d}
             C == {i \in 1 .. Len(delivered[d.to]) : delivered[d.to][i] = d}
  <2>1. d.from \in Hosts /\ Once(d)
    BY Zenon DEF IInv, Numbered
  <2>2. n.frames_waited \in Seq(Waiting) /\ n.frames_out \in Seq(Frames)
    BY Zenon, <2>1, InterfaceParts DEF IInv, Types
  <2>3. Cardinality(A) = Occ(n.frames_waited, WaitingFor(d))
    <3>1. \A i \in 1 .. Len(n.frames_waited) : n.frames_waited[i] \in Waiting
      BY Zenon, <2>2, ElementOfSeq
    <3>2. A = {i \in 1 .. Len(n.frames_waited) : n.frames_waited[i] \in WaitingFor(d)}
      BY Zenon, <3>1 DEF WaitingFor
    <3> QED BY Zenon, <3>2 DEF Occ
  <2>4. Cardinality(B) = Occ(n.frames_out, FramesOf(d))
    <3>1. \A i \in 1 .. Len(n.frames_out) : n.frames_out[i] \in Frames
      BY Zenon, <2>2, ElementOfSeq
    <3>2. B = {i \in 1 .. Len(n.frames_out) : n.frames_out[i] \in FramesOf(d)}
      BY Zenon, <3>1 DEF FramesOf
    <3> QED BY Zenon, <3>2 DEF Occ
  <2>5. Cardinality(C) = Occ(delivered[d.to], {d})
    <3>1. C = {i \in 1 .. Len(delivered[d.to]) : delivered[d.to][i] \in {d}}
      BY Zenon
    <3> QED BY Zenon, <3>1 DEF Occ
  <2>6. Copies(d) = Cardinality(A) + Cardinality(B) + Cardinality(C)
                       + (IF d \in missed THEN 1 ELSE 0)
    BY DEF Copies
  <2> HIDE DEF A, B, C, n
  <2>7. Held(n, d) = Cardinality(A) + Cardinality(B)
    BY Zenon, <2>3, <2>4 DEF Held
  <2>8. Held(n, d) + Cardinality(C) + (IF d \in missed THEN 1 ELSE 0) = 1
    BY Zenon, <2>1, <2>5 DEF Once, Missed, n
  <2> QED BY Zenon, <2>6, <2>7, <2>8
<1>2. \A h \in Hosts : \A i \in 1 .. Len(delivered[h]) : delivered[h][i].to = h
  BY Zenon DEF IInv, Arrived
<1>3. ASSUME NEW h \in Hosts, interface[h].frames_waited # << >>
      PROVE  Head(interface[h].frames_waited).next_hop \notin DOMAIN interface[h].ip_map
  <2> DEFINE q == interface[h].frames_waited
  <2>1. q[1].next_hop \notin DOMAIN interface[h].ip_map
    BY Zenon, <1>3 DEF IInv, HostInv, HeadUnknown
  <2>2. Head(q) = q[1]
    BY DEF Head
  <2> QED BY Zenon, <2>1, <2>2
<1> QED
  BY Zenon, <1>1, <1>2, <1>3 DEF SentOnce, HeadWaitsForAddress

(***************************************************************************)
(* The inductive invariant holds always.                                   *)
(***************************************************************************)
LEMMA InterfaceIInv ==
    Spec => []IInv
<1>1. Init => IInv
  BY InitIInv
<1>2. IInv /\ [Next]_vars => IInv'
  BY NextIInv
<1> QED
  BY <1>1, <1>2, PTL DEF Spec

(***************************************************************************)
(* Among any hosts with distinct addresses, whatever frames are lost or    *)
(* damaged and whatever expires, a datagram given to send_datagram is in   *)
(* one place: the queue behind ARP neither drops nor repeats it, and only  *)
(* its next hop passes it up.                                              *)
(***************************************************************************)
THEOREM InterfaceSentOnce ==
    Spec => []SentOnce
<1>1. IInv => SentOnce
  BY SMTT(30), IInvImplies
<1> QED
  BY <1>1, InterfaceIInv, PTL

(***************************************************************************)
(* The datagram at the head of a queue is one whose next hop is unknown:   *)
(* the loop of recv_frame sends as far as it can.                          *)
(***************************************************************************)
THEOREM InterfaceHeadWaitsForAddress ==
    Spec => []HeadWaitsForAddress
<1>1. IInv => HeadWaitsForAddress
  BY IInvImplies
<1> QED
  BY <1>1, InterfaceIInv, PTL

(***************************************************************************)
(* No host broadcasts a request for an address twice within ARP_TIME: the  *)
(* ARP timer holds exactly the requests of that time.                      *)
(***************************************************************************)
THEOREM InterfaceAsksSeldom ==
    Spec => AsksSeldom
<1>1. IInv /\ [Next]_vars => [Seldom]_vars
  BY NextIInv
<1>2. Spec => [][Seldom]_vars
  BY <1>1, InterfaceIInv, PTL DEF Spec
<1> QED
  BY <1>2 DEF AsksSeldom, Seldom

(***************************************************************************)
(* The interfaces implement DatagramService: every step of send_datagram,  *)
(* recv_frame or tick, on any number of hosts and with any loss, sends,    *)
(* delivers or loses one pending datagram, or shows nothing above.         *)
(***************************************************************************)
THEOREM InterfaceImplementsService ==
    Spec => ImplementsService
<1>1. Init => Service!Init
  BY DEF Init, Service!Init
<1>2. IInv /\ [Next]_vars => [Service!Next]_(Service!service)
  BY NextIInv DEF Serves
<1> QED
  BY <1>1, <1>2, InterfaceIInv, PTL DEF Spec, ImplementsService, Service!Spec
================================================================================
