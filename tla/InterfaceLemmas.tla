---------------------------- MODULE InterfaceLemmas ----------------------------
(***************************************************************************)
(* Lemmas about the operations of NetworkInterface on one interface, for   *)
(* every set of hosts with distinct addresses and all time limits: what    *)
(* send_datagram, recv_frame and tick, and the helpers they call, keep of  *)
(* the invariant of InterfaceProofs, and how often they leave a datagram   *)
(* in the queue behind ARP and in the frames to be carried.                *)
(***************************************************************************)
EXTENDS InterfaceSpec, TLAPS, SequenceTheorems, FiniteSetTheorems, FunctionTheorems,
        WellFoundedInduction

Entries == [mac : Macs, age : Nat]

\* A map of the class, from addresses, with values in V.
Maps(V) == UNION {[D -> V] : D \in SUBSET IPs}

Waiting == [dgram : Datagrams, next_hop : IPs]

Interfaces ==
    [ethernet_address : Macs, ip_address : IPs, frames_out : Seq(Frames),
     frames_waited : Seq(Waiting), ip_map : Maps(Entries), ARP_timer : Maps(Nat)]

\* A datagram of S on its way from h to another host.
Underway(d, h, S) == d \in S /\ d.from = h /\ d.to \in Hosts /\ d.to # h

\* A frame of h says what is true: it goes to the Ethernet address of the
\* datagram's next hop, or tells the addresses of h.
Truthful(f, h, S) ==
    /\ f.ok
    /\ f.type = "IPv4" => Underway(f.payload, h, S) /\ f.dst = Mac[f.payload.to]
    /\ f.type = "ARP" => /\ f.payload.sender_ip_address = Ip[h]
                         /\ f.payload.sender_ethernet_address = Mac[h]

\* The interface of h, when the datagrams of S have been sent.
HostOK(n, h, S) ==
    /\ n \in Interfaces
    /\ n.ethernet_address = Mac[h] /\ n.ip_address = Ip[h]
    /\ \A g \in Hosts : Ip[g] \in DOMAIN n.ip_map => n.ip_map[Ip[g]].mac = Mac[g]
    /\ \A i \in 1 .. Len(n.frames_waited) :
          LET w == n.frames_waited[i]
          IN  Underway(w.dgram, h, S) /\ w.next_hop = Ip[w.dgram.to]
    /\ \A i \in 1 .. Len(n.frames_out) : Truthful(n.frames_out[i], h, S)

\* The queue behind ARP is not empty without need.
HeadUnknown(n) ==
    n.frames_waited # << >> => n.frames_waited[1].next_hop \notin DOMAIN n.ip_map

\* What is remembered of the requests is what was asked within ARP_TIME.
Remembers(n, since) ==
    /\ since \in [IPs -> 0 .. LongAgo]
    /\ \A ip \in IPs : /\ ip \in DOMAIN n.ARP_timer <=> since[ip] # LongAgo
                       /\ ip \in DOMAIN n.ARP_timer => n.ARP_timer[ip] = since[ip]

\* An ARP message says a host's true addresses.
Speaks(arp) ==
    \E e \in Hosts : arp.sender_ip_address = Ip[e] /\ arp.sender_ethernet_address = Mac[e]

\* The interface n with the frames r added to those to be carried.
Queued(n, r) == [n EXCEPT !.frames_out = @ \o r]

\* The addresses requested by the frames r.
RequestsIn(r) == {r[i].payload.target_ip_address : i \in {j \in 1 .. Len(r) : IsRequest(r[j])}}

\* How often the elements of T occur in q.
Occ(q, T) == Cardinality({i \in 1 .. Len(q) : q[i] \in T})

WaitingFor(d) == {w \in Waiting : w.dgram = d}

FramesOf(d) == {f \in Frames : f.type = "IPv4" /\ f.payload = d}

\* How often an interface holds d.
Held(n, d) == Occ(n.frames_waited, WaitingFor(d)) + Occ(n.frames_out, FramesOf(d))

--------------------------------------------------------------------------------
(***************************************************************************)
(* Counting occurrences in a sequence: a count is a number, and what does  *)
(* not occur counts zero.                                                  *)
(***************************************************************************)
LEMMA OccType ==
    ASSUME NEW X, NEW q \in Seq(X), NEW T
    PROVE  /\ IsFiniteSet({i \in 1 .. Len(q) : q[i] \in T})
           /\ Occ(q, T) \in Nat
           /\ (\A i \in 1 .. Len(q) : q[i] \notin T) => Occ(q, T) = 0
<1> DEFINE A == {i \in 1 .. Len(q) : q[i] \in T}
<1>1. IsFiniteSet(1 .. Len(q))
  BY FS_Interval
<1>2. IsFiniteSet(A)
  BY <1>1, FS_Subset
<1>3. Cardinality(A) \in Nat
  BY <1>2, FS_CardinalityType
<1>4. ASSUME \A i \in 1 .. Len(q) : q[i] \notin T PROVE Cardinality(A) = 0
  <2>1. A = {}
    BY Zenon, <1>4
  <2> QED BY Zenon, <2>1, FS_EmptySet
<1> QED
  BY Zenon, <1>2, <1>3, <1>4 DEF Occ

(***************************************************************************)
(* The counts of two sequences add up.                                     *)
(***************************************************************************)
LEMMA OccConcat ==
    ASSUME NEW X, NEW q \in Seq(X), NEW r \in Seq(X), NEW T
    PROVE  Occ(q \o r, T) = Occ(q, T) + Occ(r, T)
<1> DEFINE n == Len(q)
           m == Len(r)
           A == {i \in 1 .. n : q[i] \in T}
           B == {i \in 1 .. m : r[i] \in T}
           C == {i \in 1 .. (n + m) : (q \o r)[i] \in T}
           D == {i \in (n + 1) .. (n + m) : r[i - n] \in T}
           f == [i \in B |-> i + n]
<1>1. n \in Nat /\ m \in Nat /\ Len(q \o r) = n + m
  OBVIOUS
<1>2. \A i \in 1 .. (n + m) : (q \o r)[i] = IF i <= n THEN q[i] ELSE r[i - n]
  OBVIOUS
<1>3. IsFiniteSet(A) /\ IsFiniteSet(B) /\ Cardinality(A) \in Nat /\ Cardinality(B) \in Nat
  BY Zenon, OccType DEF Occ
<1>4. A \cap D = {}
  BY <1>1
<1>5. C = A \cup D
  <2>1. \A i \in 1 .. (n + m) : (i <= n /\ i \in 1 .. n) \/ (~(i <= n) /\ i \in (n + 1) .. (n + m))
    BY <1>1
  <2>2. \A i \in 1 .. n : i <= n /\ i \in 1 .. (n + m) /\ i \notin (n + 1) .. (n + m)
    BY <1>1
  <2>3. \A i \in (n + 1) .. (n + m) : ~(i <= n) /\ i \in 1 .. (n + m)
    BY <1>1
  <2>4. \A i : i \in C <=> i \in A \/ i \in D
    BY Zenon, <1>2, <2>1, <2>2, <2>3
  <2> QED BY Zenon, <2>4
<1>6. ExistsBijection(B, D)
  <2>1. f \in [B -> D]
    <3>1. ASSUME NEW i \in B PROVE i + n \in D
      <4>1. i + n \in (n + 1) .. (n + m) /\ (i + n) - n = i
        BY <1>1
      <4> QED BY Zenon, <4>1
    <3> QED BY Zenon, <3>1
  <2>2. \A x, y \in B : f[x] = f[y] => x = y
    <3>1. \A x, y \in 1 .. m : x + n = y + n => x = y
      BY <1>1
    <3> QED BY Zenon, <3>1
  <2>3. \A z \in D : \E x \in B : f[x] = z
    <3>1. ASSUME NEW z \in D PROVE z - n \in B /\ f[z - n] = z
      <4>1. z - n \in 1 .. m /\ (z - n) + n = z
        BY <1>1
      <4> QED BY Zenon, <4>1
    <3> QED BY Zenon, <3>1
  <2> HIDE DEF B, D, f
  <2>4. f \in Bijection(B, D)
    BY Zenon, <2>1, <2>2, <2>3, Fun_IsBij
  <2> QED BY <2>4 DEF ExistsBijection
<1>7. IsFiniteSet(D) /\ Cardinality(D) = Cardinality(B)
  <2> HIDE DEF B, D
  <2> QED BY <1>3, <1>6, FS_Bijection
<1> HIDE DEF A, B, C, D
<1>8. Cardinality(A \cup D) = Cardinality(A) + Cardinality(D) - Cardinality(A \cap D)
  BY <1>3, <1>7, FS_Union
<1>9. Cardinality(A \cap D) = 0
  BY Zenon, <1>4, FS_EmptySet
<1>10. Cardinality(C) = Cardinality(A) + Cardinality(B)
  BY <1>3, <1>5, <1>7, <1>8, <1>9
<1> QED
  BY Zenon, <1>1, <1>10 DEF Occ, A, B, C

(***************************************************************************)
(* The count of one element.                                               *)
(***************************************************************************)
LEMMA OccOne ==
    ASSUME NEW x, NEW T
    PROVE  Occ(<<x>>, T) = IF x \in T THEN 1 ELSE 0
<1> DEFINE A == {i \in 1 .. Len(<<x>>) : <<x>>[i] \in T}
<1>1. Len(<<x>>) = 1 /\ <<x>>[1] = x /\ 1 .. 1 = {1}
  OBVIOUS
<1>2. A = IF x \in T THEN {1} ELSE {}
  BY Zenon, <1>1
<1>3. Cardinality({1}) = 1 /\ Cardinality({}) = 0
  BY Zenon, FS_Singleton, FS_EmptySet
<1> QED
  BY Zenon, <1>2, <1>3 DEF Occ

(***************************************************************************)
(* The count with an element appended.                                     *)
(***************************************************************************)
LEMMA OccAppend ==
    ASSUME NEW X, NEW q \in Seq(X), NEW x \in X, NEW T
    PROVE  Occ(Append(q, x), T) = Occ(q, T) + (IF x \in T THEN 1 ELSE 0)
<1>1. Append(q, x) = q \o <<x>> /\ <<x>> \in Seq(X)
  BY AppendIsConcat
<1>2. Occ(q \o <<x>>, T) = Occ(q, T) + Occ(<<x>>, T)
  BY Zenon, <1>1, OccConcat
<1> QED
  BY Zenon, <1>1, <1>2, OccOne

(***************************************************************************)
(* The count with the first element taken off.                             *)
(***************************************************************************)
LEMMA OccTail ==
    ASSUME NEW X, NEW q \in Seq(X), q # << >>, NEW T
    PROVE  Occ(q, T) = (IF Head(q) \in T THEN 1 ELSE 0) + Occ(Tail(q), T)
<1>1. /\ Head(q) \in X /\ Tail(q) \in Seq(X) /\ <<Head(q)>> \in Seq(X)
  BY HeadTailProperties
<1>2. q = <<Head(q)>> \o Tail(q)
  <2> DEFINE r == <<Head(q)>> \o Tail(q)
  <2>1. Len(q) \in Nat /\ Len(q) # 0 /\ Head(q) = q[1] /\ Len(Tail(q)) = Len(q) - 1
        /\ \A i \in 1 .. Len(Tail(q)) : Tail(q)[i] = q[i + 1]
    BY EmptySeq, HeadTailProperties
  <2>2. /\ r \in Seq(X) /\ Len(r) = 1 + Len(Tail(q))
        /\ \A i \in 1 .. (1 + Len(Tail(q))) :
              r[i] = IF i <= 1 THEN <<Head(q)>>[i] ELSE Tail(q)[i - 1]
    BY <1>1
  <2>3. Len(r) = Len(q)
    BY <2>1, <2>2
  <2>4. ASSUME NEW i \in 1 .. Len(q) PROVE q[i] = r[i]
    <3>1. CASE i = 1
      BY <2>1, <2>2, <3>1
    <3>2. CASE i # 1
      <4>1. i \in 1 .. (1 + Len(Tail(q))) /\ ~(i <= 1) /\ i - 1 \in 1 .. Len(Tail(q))
            /\ (i - 1) + 1 = i
        BY <2>1, <3>2
      <4> QED BY Zenon, <2>1, <2>2, <4>1
    <3> QED BY <3>1, <3>2
  <2> HIDE DEF r
  <2>5. q = r
    BY Zenon, <2>2, <2>3, <2>4, SeqEqual
  <2> QED BY <2>5 DEF r
<1>3. Occ(<<Head(q)>> \o Tail(q), T) = Occ(<<Head(q)>>, T) + Occ(Tail(q), T)
  BY Zenon, <1>1, OccConcat
<1> QED
  BY Zenon, <1>2, <1>3, OccOne

(***************************************************************************)
(* Cutting a sequence in two.                                              *)
(***************************************************************************)
LEMMA OccSplit ==
    ASSUME NEW X, NEW q \in Seq(X), NEW k \in 0 .. Len(q), NEW T
    PROVE  LET r == SubSeq(q, k + 1, Len(q))
           IN  /\ r \in Seq(X)
               /\ Len(r) = Len(q) - k
               /\ \A i \in 1 .. Len(r) : r[i] = q[k + i]
               /\ Occ(q, T) = Cardinality({i \in 1 .. k : q[i] \in T}) + Occ(r, T)
<1> DEFINE n == Len(q)
           one == 1
           m == k + 1
           p == SubSeq(q, one, k)
           r == SubSeq(q, m, n)
<1>1. n \in Nat /\ k \in Nat /\ k <= n /\ one \in Int /\ m \in Int /\ one = 1 /\ k \in Int /\ n \in Int
  OBVIOUS
<1>2. \A i \in one .. k : q[i] \in X
  <2>1. \A i \in one .. k : i \in 1 .. n
    BY <1>1
  <2> QED BY Zenon, <2>1, ElementOfSeq
<1>3. \A i \in m .. n : q[i] \in X
  <2>1. \A i \in m .. n : i \in 1 .. n
    BY <1>1
  <2> QED BY Zenon, <2>1, ElementOfSeq
<1> HIDE DEF one, m, n
<1>4. /\ p \in Seq(X) /\ Len(p) = IF one <= k THEN k - one + 1 ELSE 0
      /\ \A i \in 1 .. k - one + 1 : p[i] = q[one + i - 1]
  BY <1>1, <1>2, SubSeqProperties
<1>5. /\ r \in Seq(X) /\ Len(r) = IF m <= n THEN n - m + 1 ELSE 0
      /\ \A i \in 1 .. n - m + 1 : r[i] = q[m + i - 1]
  BY SMTT(30), <1>1, <1>3, SubSeqProperties
<1>6. p \o r = q
  <2>1. one \in 1 .. n + 1 /\ k \in one - 1 .. n /\ n \in k .. n
    BY <1>1
  <2>2. SubSeq(q, one, k) \o SubSeq(q, k + 1, n) = SubSeq(q, one, n)
    BY Zenon, <2>1, ConcatAdjacentSubSeq DEF n
  <2>3. SubSeq(q, one, n) = q
    BY Zenon, <1>1, SubSeqFull DEF n
  <2> QED BY Zenon, <2>2, <2>3 DEF m
<1> HIDE DEF p, r
<1>7. Len(p) = k /\ \A i \in 1 .. k : p[i] = q[i]
  <2>1. Len(p) = k /\ \A i \in 1 .. k : i \in 1 .. k - one + 1 /\ one + i - 1 = i
    BY <1>1, <1>4
  <2> QED BY Zenon, <1>4, <2>1
<1>8. Len(r) = n - k /\ \A i \in 1 .. Len(r) : r[i] = q[k + i]
  <2>1. Len(r) = n - k /\ \A i \in 1 .. Len(r) : i \in 1 .. n - m + 1 /\ m + i - 1 = k + i
    BY <1>1, <1>5 DEF m
  <2> QED BY Zenon, <1>5, <2>1
<1>9. Occ(q, T) = Occ(p, T) + Occ(r, T)
  BY Zenon, <1>4, <1>5, <1>6, OccConcat
<1>10. {i \in 1 .. Len(p) : p[i] \in T} = {i \in 1 .. k : q[i] \in T}
  BY Zenon, <1>7
<1> QED
  BY Zenon, <1>5, <1>8, <1>9, <1>10 DEF Occ, r, m, n

--------------------------------------------------------------------------------
(***************************************************************************)
(* What is in the maps of the class.                                       *)
(***************************************************************************)
LEMMA MapType ==
    ASSUME NEW V, NEW m
    PROVE  m \in Maps(V) <=> DOMAIN m \subseteq IPs /\ m \in [DOMAIN m -> V]
<1>1. ASSUME m \in Maps(V)
      PROVE  DOMAIN m \subseteq IPs /\ m \in [DOMAIN m -> V]
  <2>1. PICK D \in SUBSET IPs : m \in [D -> V]
    BY Zenon, <1>1 DEF Maps
  <2> QED BY Zenon, <2>1
<1> QED
  BY Zenon, <1>1 DEF Maps

(***************************************************************************)
(* Put keeps the types of a map.                                           *)
(***************************************************************************)
LEMMA PutType ==
    ASSUME NEW V, NEW m \in Maps(V), NEW k \in IPs, NEW v \in V
    PROVE  Put(m, k, v) \in Maps(V)
<1> DEFINE p == Put(m, k, v)
<1>1. DOMAIN m \subseteq IPs /\ m \in [DOMAIN m -> V]
  BY Zenon, MapType
<1>2. p \in [DOMAIN m \cup {k} -> V]
  BY <1>1 DEF Put
<1> HIDE DEF p
<1>3. DOMAIN p \subseteq IPs /\ p \in [DOMAIN p -> V]
  BY Zenon, <1>1, <1>2
<1> QED
  BY Zenon, <1>3, MapType DEF p

(***************************************************************************)
(* The parts of an interface.                                              *)
(***************************************************************************)
LEMMA InterfaceParts ==
    ASSUME NEW n \in Interfaces
    PROVE  /\ n.ethernet_address \in Macs /\ n.ip_address \in IPs
           /\ n.frames_out \in Seq(Frames) /\ Len(n.frames_out) \in Nat
           /\ n.frames_waited \in Seq(Waiting) /\ Len(n.frames_waited) \in Nat
           /\ n.ip_map \in Maps(Entries) /\ n.ARP_timer \in Maps(Nat)
           /\ DOMAIN n.ip_map \subseteq IPs /\ n.ip_map \in [DOMAIN n.ip_map -> Entries]
           /\ DOMAIN n.ARP_timer \subseteq IPs /\ n.ARP_timer \in [DOMAIN n.ARP_timer -> Nat]
<1>1. /\ n.ethernet_address \in Macs /\ n.ip_address \in IPs
      /\ n.frames_out \in Seq(Frames) /\ n.frames_waited \in Seq(Waiting)
      /\ n.ip_map \in Maps(Entries) /\ n.ARP_timer \in Maps(Nat)
  BY DEF Interfaces
<1>2. Len(n.frames_out) \in Nat /\ Len(n.frames_waited) \in Nat
  BY <1>1, LenProperties
<1>3. DOMAIN n.ip_map \subseteq IPs /\ n.ip_map \in [DOMAIN n.ip_map -> Entries]
  BY Zenon, <1>1, MapType
<1>4. DOMAIN n.ARP_timer \subseteq IPs /\ n.ARP_timer \in [DOMAIN n.ARP_timer -> Nat]
  BY Zenon, <1>1, MapType
<1> QED
  BY Zenon, <1>1, <1>2, <1>3, <1>4

(***************************************************************************)
(* A datagram in a frame of the class, and what it carries.                *)
(***************************************************************************)
LEMMA DatagramFrame ==
    ASSUME NEW n \in Interfaces, NEW dst \in Macs, NEW d \in Datagrams
    PROVE  LET f == FrameOf(n, dst, "IPv4", d)
           IN  f \in Frames /\ f.ok /\ f.type = "IPv4" /\ f.payload = d /\ f.dst = dst
<1>1. n.ethernet_address \in Macs
  BY InterfaceParts
<1> QED
  BY <1>1 DEF FrameOf, Frames

(***************************************************************************)
(* An ARP message in a frame of the class, and what it carries.            *)
(***************************************************************************)
LEMMA ArpFrame ==
    ASSUME NEW n \in Interfaces, NEW dst \in Macs \cup {ETHERNET_BROADCAST},
           NEW op \in {"REQUEST", "REPLY"}, NEW ip \in IPs,
           NEW arp, arp = [opcode |-> op, sender_ethernet_address |-> n.ethernet_address,
                           sender_ip_address |-> n.ip_address, target_ip_address |-> ip]
    PROVE  LET f == FrameOf(n, dst, "ARP", arp)
           IN  f \in Frames /\ f.ok /\ f.type = "ARP" /\ f.payload = arp
<1>1. n.ethernet_address \in Macs /\ n.ip_address \in IPs
  BY InterfaceParts
<1>2. arp \in ARPMessages
  BY <1>1 DEF ARPMessages
<1> QED
  BY <1>1, <1>2 DEF FrameOf, Frames

(***************************************************************************)
(* Queueing frames changes frames_out only, and counts the datagrams in    *)
(* them.                                                                   *)
(***************************************************************************)
LEMMA QueueParts ==
    ASSUME NEW n \in Interfaces, NEW r \in Seq(Frames)
    PROVE  LET m == Queued(n, r)
           IN  /\ m \in Interfaces
               /\ m.ethernet_address = n.ethernet_address /\ m.ip_address = n.ip_address
               /\ m.frames_out = n.frames_out \o r
               /\ m.frames_waited = n.frames_waited
               /\ m.ip_map = n.ip_map /\ m.ARP_timer = n.ARP_timer
               /\ \A d : Held(m, d) = Held(n, d) + Occ(r, FramesOf(d))
<1> DEFINE q == n.frames_out \o r
           m == Queued(n, r)
<1>1. n.frames_out \in Seq(Frames) /\ n.frames_waited \in Seq(Waiting)
  BY Zenon, InterfaceParts
<1>2. q \in Seq(Frames)
  BY <1>1
<1>3. m = [n EXCEPT !.frames_out = q]
  BY Zenon DEF Queued
<1> HIDE DEF q, m
<1>4. /\ m \in Interfaces /\ m.ethernet_address = n.ethernet_address
      /\ m.ip_address = n.ip_address
      /\ m.frames_out = q /\ m.frames_waited = n.frames_waited
      /\ m.ip_map = n.ip_map /\ m.ARP_timer = n.ARP_timer
  BY Zenon, <1>2, <1>3 DEF Interfaces
<1>5. ASSUME NEW d PROVE Held(m, d) = Held(n, d) + Occ(r, FramesOf(d))
  <2> DEFINE a == Occ(n.frames_waited, WaitingFor(d))
             b == Occ(n.frames_out, FramesOf(d))
             c == Occ(r, FramesOf(d))
  <2>1. a \in Nat /\ b \in Nat /\ c \in Nat
    BY Zenon, <1>1, OccType
  <2>2. Occ(m.frames_out, FramesOf(d)) = b + c
    <3>1. Occ(n.frames_out \o r, FramesOf(d)) = b + c
      BY <1>1, OccConcat
    <3> QED BY Zenon, <1>4, <3>1 DEF q
  <2>3. Held(m, d) = a + (b + c) /\ Held(n, d) = a + b
    BY Zenon, <1>4, <2>2 DEF Held
  <2> HIDE DEF a, b, c
  <2>4. a + (b + c) = (a + b) + c
    BY <2>1
  <2> QED BY Zenon, <2>3, <2>4 DEF c
<1> QED
  BY Zenon, <1>4, <1>5 DEF q, m

(***************************************************************************)
(* Queueing truthful frames keeps an interface as it should be.            *)
(***************************************************************************)
LEMMA QueueTruthful ==
    ASSUME NEW n, NEW h, NEW S, HostOK(n, h, S),
           NEW r \in Seq(Frames), \A i \in 1 .. Len(r) : Truthful(r[i], h, S)
    PROVE  HostOK(Queued(n, r), h, S)
<1> DEFINE q == n.frames_out \o r
           m == Queued(n, r)
<1>1. /\ n \in Interfaces /\ n.frames_out \in Seq(Frames) /\ Len(n.frames_out) \in Nat
      /\ Len(r) \in Nat
  BY InterfaceParts, LenProperties DEF HostOK
<1>2. /\ Len(q) = Len(n.frames_out) + Len(r)
      /\ \A i \in 1 .. (Len(n.frames_out) + Len(r)) :
            q[i] = IF i <= Len(n.frames_out) THEN n.frames_out[i] ELSE r[i - Len(n.frames_out)]
  BY <1>1
<1>3. /\ m \in Interfaces /\ m.ethernet_address = n.ethernet_address
      /\ m.ip_address = n.ip_address
      /\ m.frames_out = q /\ m.frames_waited = n.frames_waited
      /\ m.ip_map = n.ip_map
  BY Zenon, <1>1, QueueParts
<1> HIDE DEF q, m
<1>4. \A i \in 1 .. Len(q) : Truthful(q[i], h, S)
  <2>1. ASSUME NEW i \in 1 .. Len(q) PROVE Truthful(q[i], h, S)
    <3>1. CASE i <= Len(n.frames_out)
      <4>1. i \in 1 .. Len(n.frames_out) /\ q[i] = n.frames_out[i]
        BY <1>1, <1>2, <3>1
      <4> QED BY Zenon, <4>1 DEF HostOK
    <3>2. CASE ~(i <= Len(n.frames_out))
      <4>1. i - Len(n.frames_out) \in 1 .. Len(r) /\ q[i] = r[i - Len(n.frames_out)]
        BY SMTT(30), <1>1, <1>2, <3>2
      <4> QED BY Zenon, <4>1
    <3> QED BY <3>1, <3>2
  <2> QED BY Zenon, <2>1
<1> QED
  BY Zenon, <1>3, <1>4 DEF HostOK, m

(***************************************************************************)
(* The ARP timer does not matter to HostOK.                                *)
(***************************************************************************)
LEMMA HostSame ==
    ASSUME NEW n, NEW h, NEW S, HostOK(n, h, S), NEW m \in Interfaces,
           m.ethernet_address = n.ethernet_address, m.ip_address = n.ip_address,
           m.frames_out = n.frames_out, m.frames_waited = n.frames_waited,
           m.ip_map = n.ip_map
    PROVE  HostOK(m, h, S)
BY SMTT(30) DEF HostOK

(***************************************************************************)
(* An interface that has seen S has seen more than S.                      *)
(***************************************************************************)
LEMMA HostGrows ==
    ASSUME NEW n, NEW h, NEW S, HostOK(n, h, S), NEW T, S \subseteq T
    PROVE  HostOK(n, h, T)
<1>1. \A d : Underway(d, h, S) => Underway(d, h, T)
  BY Zenon DEF Underway
<1>2. \A f : Truthful(f, h, S) => Truthful(f, h, T)
  BY Zenon, <1>1 DEF Truthful
<1> QED
  BY Zenon, <1>1, <1>2 DEF HostOK

(***************************************************************************)
(* The requests among the frames a step adds.                              *)
(***************************************************************************)
LEMMA RequestsAdded ==
    ASSUME NEW n, NEW m, n.frames_out \in Seq(Frames), NEW r \in Seq(Frames),
           m.frames_out = n.frames_out \o r
    PROVE  Requested(n, m) = RequestsIn(r)
<1> DEFINE q == n.frames_out
           k == Len(q)
           l == Len(r)
           a == k + 1
           b == k + l
           p == q \o r
           new == SubSeq(p, a, b)
<1>1. /\ k \in Nat /\ l \in Nat /\ q \o r \in Seq(Frames) /\ Len(q \o r) = b
      /\ \A i \in 1 .. b : (q \o r)[i] = IF i <= k THEN q[i] ELSE r[i - k]
  OBVIOUS
<1>2. a \in Int /\ b \in Int /\ \A i \in a .. b : i \in 1 .. b
  BY <1>1
<1>3. \A i \in a .. b : p[i] \in Frames
  BY Zenon, <1>1, <1>2, ElementOfSeq
<1>4. NewFrames(n, m) = new
  BY Zenon, <1>1 DEF NewFrames
<1> HIDE DEF a, b, p
<1>5. /\ new \in Seq(Frames)
      /\ Len(new) = IF a <= b THEN b - a + 1 ELSE 0
      /\ \A i \in 1 .. b - a + 1 : new[i] = p[a + i - 1]
  BY <1>2, <1>3, SubSeqProperties
<1> HIDE DEF new
<1>6. Len(new) = l
  BY <1>1, <1>5 DEF a, b
<1>7. ASSUME NEW i \in 1 .. l PROVE new[i] = r[i]
  <2>1. /\ i \in 1 .. b - a + 1 /\ a + i - 1 = k + i /\ k + i \in 1 .. b
        /\ ~(k + i <= k) /\ (k + i) - k = i
    BY <1>1 DEF a, b
  <2>2. p[k + i] = r[i]
    BY Zenon, <1>1, <2>1 DEF p
  <2> QED BY Zenon, <1>5, <2>1, <2>2
<1>8. new = r
  BY Zenon, <1>5, <1>6, <1>7, SeqEqual
<1>9. Range(r) = {r[i] : i \in 1 .. l}
  <2>1. DOMAIN r = 1 .. l
    BY <1>1
  <2> QED BY Zenon, <2>1 DEF Range
<1> QED
  <2>1. Requested(n, m) = {f.payload.target_ip_address : f \in {x \in {r[i] : i \in 1 .. l} : IsRequest(x)}}
    BY Zenon, <1>4, <1>8, <1>9 DEF Requested
  <2>2. \A ip : ip \in Requested(n, m) <=>
            \E i \in 1 .. l : IsRequest(r[i]) /\ ip = r[i].payload.target_ip_address
    BY Zenon, <2>1
  <2>3. \A ip : ip \in RequestsIn(r) <=>
            \E i \in 1 .. l : IsRequest(r[i]) /\ ip = r[i].payload.target_ip_address
    BY Zenon DEF RequestsIn
  <2> QED BY Zenon, <2>2, <2>3

(***************************************************************************)
(* A step that adds no request requests nothing.                           *)
(***************************************************************************)
LEMMA NothingRequested ==
    ASSUME NEW n, NEW m, n.frames_out \in Seq(Frames), NEW r \in Seq(Frames),
           m.frames_out = n.frames_out \o r, \A i \in 1 .. Len(r) : ~IsRequest(r[i])
    PROVE  Requested(n, m) = {}
<1>1. Requested(n, m) = RequestsIn(r)
  BY Zenon, RequestsAdded
<1>2. RequestsIn(r) = {}
  BY Zenon DEF RequestsIn
<1> QED
  BY Zenon, <1>1, <1>2

--------------------------------------------------------------------------------
\* What send_datagram makes of the interface n of h, which has seen the sends S
\* and asked for addresses as long ago as since says.
SendOK(n, h, S, since, d, g) ==
    LET m == send_datagram(n, d, Ip[g])
        after == [ip \in IPs |-> IF ip \in Requested(n, m) THEN 0 ELSE since[ip]]
    IN  /\ HostOK(m, h, S \cup {d}) /\ HeadUnknown(m)
        /\ \A e : Held(m, e) = Held(n, e) + (IF e = d THEN 1 ELSE 0)
        /\ \A ip \in Requested(n, m) : since[ip] = LongAgo
        /\ Remembers(m, after)

(***************************************************************************)
(* send_datagram puts the datagram into a frame or the queue, exactly      *)
(* once, and asks for an address only when it remembers no request for it. *)
(***************************************************************************)
LEMMA SendKeeps ==
    ASSUME NEW h \in Hosts, NEW g \in Hosts, h # g, NEW n, NEW S, HostOK(n, h, S),
           HeadUnknown(n), NEW since, Remembers(n, since),
           NEW d \in Datagrams, d.from = h, d.to = g
    PROVE  SendOK(n, h, S, since, d, g)
<1> SUFFICES ASSUME NEW m, m = send_datagram(n, d, Ip[g]),
                    NEW after,
                    after = [ip \in IPs |-> IF ip \in Requested(n, m) THEN 0 ELSE since[ip]]
             PROVE  /\ HostOK(m, h, S \cup {d}) /\ HeadUnknown(m)
                    /\ \A e : Held(m, e) = Held(n, e) + (IF e = d THEN 1 ELSE 0)
                    /\ \A ip \in Requested(n, m) : since[ip] = LongAgo
                    /\ Remembers(m, after)
  BY Zenon DEF SendOK
<1> DEFINE ip == Ip[g]
           T == S \cup {d}
           w == [dgram |-> d, next_hop |-> ip]
<1>1. /\ n \in Interfaces /\ n.frames_out \in Seq(Frames) /\ n.frames_waited \in Seq(Waiting)
      /\ Len(n.frames_waited) \in Nat
      /\ DOMAIN n.ip_map \subseteq IPs /\ n.ip_map \in [DOMAIN n.ip_map -> Entries]
      /\ n.ARP_timer \in Maps(Nat)
  BY Zenon, InterfaceParts DEF HostOK
<1>2. ip \in IPs /\ Mac[g] \in Macs /\ Mac[h] \in Macs /\ Ip[h] \in IPs
  BY InterfaceSpecAssumption
<1>3. HostOK(n, h, T) /\ Underway(d, h, T)
  BY Zenon, HostGrows DEF Underway
<1> HIDE DEF T
<1>4. /\ since \in [IPs -> 0 .. LongAgo] /\ LongAgo \in Nat /\ LongAgo # 0
  BY InterfaceAssumption DEF Remembers, LongAgo
<1>5. CASE ip \in DOMAIN n.ip_map
  <2> DEFINE f == FrameOf(n, n.ip_map[ip].mac, "IPv4", d)
             r == <<f>>
  <2>1. n.ip_map[ip].mac = Mac[g]
    BY Zenon, <1>5 DEF HostOK
  <2>2. f \in Frames /\ f.ok /\ f.type = "IPv4" /\ f.payload = d /\ f.dst = Mac[g]
    <3> DEFINE mac == n.ip_map[ip].mac
    <3>1. mac \in Macs /\ mac = Mac[g]
      BY Zenon, <1>2, <2>1
    <3> HIDE DEF mac
    <3>2. LET x == FrameOf(n, mac, "IPv4", d)
          IN  x \in Frames /\ x.ok /\ x.type = "IPv4" /\ x.payload = d /\ x.dst = mac
      BY SMTT(30), <1>1, <3>1, DatagramFrame
    <3> QED BY Zenon, <3>1, <3>2 DEF mac
  <2>3. m = [n EXCEPT !.frames_out = Append(@, f)]
    BY SMTT(30), <1>5 DEF send_datagram, send_frame
  <2> HIDE DEF f
  <2>4. /\ r \in Seq(Frames) /\ Len(r) = 1 /\ r[1] = f /\ \A i \in 1 .. Len(r) : i = 1
    BY <2>2
  <2>5. m = Queued(n, r)
    <3>1. Append(n.frames_out, f) = n.frames_out \o r
      BY SMTT(30), <1>1, <2>2, AppendIsConcat
    <3> QED BY Zenon, <2>3, <3>1 DEF Queued
  <2>6. \A i \in 1 .. Len(r) : Truthful(r[i], h, T) /\ ~IsRequest(r[i])
    <3>1. Truthful(f, h, T) /\ ~IsRequest(f)
      BY <1>3, <2>2 DEF Truthful, IsRequest
    <3> QED BY Zenon, <2>4, <3>1
  <2>7. \A e : Occ(r, FramesOf(e)) = IF e = d THEN 1 ELSE 0
    <3>1. \A e : f \in FramesOf(e) <=> e = d
      BY Zenon, <2>2 DEF FramesOf
    <3> QED BY Zenon, <3>1, OccOne
  <2> HIDE DEF r
  <2>8. /\ HostOK(m, h, T) /\ m.frames_out = n.frames_out \o r
        /\ m.frames_waited = n.frames_waited
        /\ m.ip_map = n.ip_map /\ m.ARP_timer = n.ARP_timer
        /\ \A e : Held(m, e) = Held(n, e) + Occ(r, FramesOf(e))
    <3>1. \A i \in 1 .. Len(r) : Truthful(r[i], h, T)
      BY Zenon, <2>6
    <3>2. r \in Seq(Frames)
      BY <2>4
    <3>3. HostOK(Queued(n, r), h, T)
      BY Zenon, <1>3, <3>1, <3>2, QueueTruthful
    <3>4. LET x == Queued(n, r)
          IN  /\ x.frames_out = n.frames_out \o r
              /\ x.frames_waited = n.frames_waited
              /\ x.ip_map = n.ip_map /\ x.ARP_timer = n.ARP_timer
              /\ \A e : Held(x, e) = Held(n, e) + Occ(r, FramesOf(e))
      BY Zenon, <1>1, <3>2, QueueParts
    <3> QED BY SMTT(30), <2>5, <3>3, <3>4
  <2>9. HeadUnknown(m)
    BY Zenon, <2>8 DEF HeadUnknown
  <2>10. Requested(n, m) = {}
    BY Zenon, <1>1, <2>4, <2>6, <2>8, NothingRequested
  <2>11. after = since
    BY <1>4, <2>10
  <2>12. Remembers(m, after)
    BY Zenon, <2>8, <2>11 DEF Remembers
  <2> QED BY Zenon, <2>7, <2>8, <2>9, <2>10, <2>12 DEF T
<1> DEFINE wq == Append(n.frames_waited, w)
           v  == [n EXCEPT !.frames_waited = wq]
<1>6. ASSUME ip \notin DOMAIN n.ip_map
      PROVE  /\ HostOK(v, h, T) /\ HeadUnknown(v)
             /\ v.frames_out = n.frames_out /\ v.ip_map = n.ip_map
             /\ v.ARP_timer = n.ARP_timer
             /\ \A e : Held(v, e) = Held(n, e) + (IF e = d THEN 1 ELSE 0)
  <2>1. w \in Waiting /\ w.dgram = d /\ w.next_hop = ip
    BY <1>2 DEF Waiting
  <2> HIDE DEF w
  <2>2. /\ wq \in Seq(Waiting) /\ Len(wq) = Len(n.frames_waited) + 1
        /\ \A i \in 1 .. Len(n.frames_waited) : wq[i] = n.frames_waited[i]
        /\ wq[Len(n.frames_waited) + 1] = w
    BY <1>1, <2>1, AppendProperties
  <2>3. \A e : Occ(wq, WaitingFor(e)) = Occ(n.frames_waited, WaitingFor(e))
                                        + (IF e = d THEN 1 ELSE 0)
    <3>1. \A e : w \in WaitingFor(e) <=> e = d
      BY Zenon, <2>1 DEF WaitingFor
    <3> QED BY SMTT(30), <1>1, <2>1, <3>1, OccAppend
  <2> HIDE DEF wq
  <2>4. /\ v \in Interfaces /\ v.ethernet_address = n.ethernet_address
        /\ v.ip_address = n.ip_address
        /\ v.frames_out = n.frames_out /\ v.frames_waited = wq
        /\ v.ip_map = n.ip_map /\ v.ARP_timer = n.ARP_timer
    BY Zenon, <1>1, <2>2 DEF Interfaces
  <2> HIDE DEF v
  <2>5. ASSUME NEW i \in 1 .. Len(wq)
        PROVE  Underway(wq[i].dgram, h, T) /\ wq[i].next_hop = Ip[wq[i].dgram.to]
    <3>1. CASE i \in 1 .. Len(n.frames_waited)
      BY Zenon, <1>3, <2>2, <3>1 DEF HostOK
    <3>2. CASE i \notin 1 .. Len(n.frames_waited)
      <4>1. i = Len(n.frames_waited) + 1
        BY SMTT(30), <1>1, <2>2, <3>2
      <4> QED BY Zenon, <1>3, <2>1, <2>2, <4>1
    <3> QED BY <3>1, <3>2
  <2>6. HostOK(v, h, T)
    BY Zenon, <1>3, <2>4, <2>5 DEF HostOK
  <2>7. HeadUnknown(v)
    <3>1. CASE n.frames_waited = << >>
      <4>1. Len(n.frames_waited) + 1 = 1
        BY <3>1
      <4> QED BY Zenon, <1>6, <2>1, <2>2, <2>4, <4>1 DEF HeadUnknown
    <3>2. CASE n.frames_waited # << >>
      <4>1. 1 \in 1 .. Len(n.frames_waited)
        BY <1>1, <3>2, EmptySeq
      <4> QED BY Zenon, <2>2, <2>4, <3>2, <4>1 DEF HeadUnknown
    <3> QED BY <3>1, <3>2
  <2>8. ASSUME NEW e PROVE Held(v, e) = Held(n, e) + (IF e = d THEN 1 ELSE 0)
    <3> DEFINE a == Occ(n.frames_waited, WaitingFor(e))
               b == Occ(n.frames_out, FramesOf(e))
               c == IF e = d THEN 1 ELSE 0
    <3>1. a \in Nat /\ b \in Nat /\ c \in Nat
      BY Zenon, <1>1, OccType
    <3>2. Held(v, e) = (a + c) + b /\ Held(n, e) = a + b
      BY Zenon, <2>3, <2>4 DEF Held
    <3> HIDE DEF a, b, c
    <3>3. (a + c) + b = (a + b) + c
      BY <3>1
    <3> QED BY Zenon, <3>2, <3>3 DEF c
  <2> QED BY Zenon, <2>4, <2>6, <2>7, <2>8
<1>7. CASE ip \notin DOMAIN n.ip_map /\ ip \in DOMAIN n.ARP_timer
  <2>1. m = v
    BY <1>7 DEF send_datagram
  <2> HIDE DEF v
  <2> DEFINE r == << >>
  <2>2. /\ r \in Seq(Frames) /\ \A i \in 1 .. Len(r) : ~IsRequest(r[i])
        /\ n.frames_out \o r = n.frames_out
    BY <1>1, ConcatEmptySeq
  <2> HIDE DEF r
  <2>3. m.frames_out = n.frames_out \o r
    BY Zenon, <1>6, <1>7, <2>1, <2>2
  <2>4. Requested(n, m) = {}
    BY Zenon, <1>1, <2>2, <2>3, NothingRequested
  <2>5. after = since
    BY <1>4, <2>4
  <2>6. Remembers(m, after)
    BY Zenon, <1>6, <1>7, <2>1, <2>5 DEF Remembers
  <2> QED BY Zenon, <1>6, <1>7, <2>1, <2>4, <2>6 DEF T
<1>8. CASE ip \notin DOMAIN n.ip_map /\ ip \notin DOMAIN n.ARP_timer
  <2> DEFINE arp == [opcode |-> "REQUEST", sender_ethernet_address |-> v.ethernet_address,
                     sender_ip_address |-> v.ip_address, target_ip_address |-> ip]
             f == FrameOf(v, ETHERNET_BROADCAST, "ARP", arp)
             r == <<f>>
             u == Queued(v, r)
             zero == 0
             p == Put(n.ARP_timer, ip, zero)
  <2>1. /\ HostOK(v, h, T) /\ HeadUnknown(v) /\ v \in Interfaces
        /\ v.frames_out = n.frames_out /\ v.ip_map = n.ip_map
        /\ v.ARP_timer = n.ARP_timer
        /\ \A e : Held(v, e) = Held(n, e) + (IF e = d THEN 1 ELSE 0)
        /\ v.ethernet_address = Mac[h] /\ v.ip_address = Ip[h]
    BY Zenon, <1>6, <1>8 DEF HostOK
  <2>2. m = [send_ARP(v, "REQUEST", ETHERNET_BROADCAST, ip) EXCEPT !.ARP_timer = Put(@, ip, 0)]
    BY <1>8 DEF send_datagram
  <2>3. send_ARP(v, "REQUEST", ETHERNET_BROADCAST, ip) = [v EXCEPT !.frames_out = Append(@, f)]
    BY DEF send_ARP
  <2> HIDE DEF v
  <2>4. f \in Frames /\ f.ok /\ f.type = "ARP" /\ f.payload = arp
    BY SMTT(30), <1>2, <2>1, ArpFrame
  <2>5. /\ arp.target_ip_address = ip /\ arp.sender_ip_address = Ip[h]
        /\ arp.sender_ethernet_address = Mac[h] /\ arp.opcode = "REQUEST"
    BY SMTT(30), <2>1
  <2> HIDE DEF f, arp
  <2>6. /\ r \in Seq(Frames) /\ Len(r) = 1 /\ r[1] = f /\ \A i \in 1 .. Len(r) : i = 1
    BY <2>4
  <2>7. Append(v.frames_out, f) = v.frames_out \o r
    BY Zenon, <1>1, <2>1, <2>4, AppendIsConcat
  <2>8. m = [u EXCEPT !.ARP_timer = Put(@, ip, zero)]
    BY Zenon, <2>2, <2>3, <2>7 DEF Queued
  <2>9. \A i \in 1 .. Len(r) : Truthful(r[i], h, T)
    <3>1. Truthful(f, h, T)
      BY <2>4, <2>5 DEF Truthful
    <3> QED BY Zenon, <2>6, <3>1
  <2>10. \A e : Occ(r, FramesOf(e)) = 0
    <3>1. \A e : f \notin FramesOf(e)
      BY <2>4 DEF FramesOf
    <3> QED BY Zenon, <3>1, OccOne
  <2> HIDE DEF r, u
  <2>11. /\ HostOK(u, h, T) /\ u.frames_out = v.frames_out \o r
         /\ u.frames_waited = v.frames_waited /\ u.ip_map = v.ip_map
         /\ u.ARP_timer = v.ARP_timer
         /\ \A e : Held(u, e) = Held(v, e) + Occ(r, FramesOf(e))
    <3>1. r \in Seq(Frames)
      BY <2>6
    <3>2. HostOK(Queued(v, r), h, T)
      BY Zenon, <2>1, <2>9, <3>1, QueueTruthful
    <3>3. LET x == Queued(v, r)
          IN  /\ x.frames_out = v.frames_out \o r
              /\ x.frames_waited = v.frames_waited
              /\ x.ip_map = v.ip_map /\ x.ARP_timer = v.ARP_timer
              /\ \A e : Held(x, e) = Held(v, e) + Occ(r, FramesOf(e))
      BY Zenon, <2>1, <3>1, QueueParts
    <3> QED BY SMTT(30), <3>2, <3>3 DEF u
  <2>12. /\ p \in Maps(Nat) /\ DOMAIN p = DOMAIN n.ARP_timer \cup {ip} /\ p[ip] = 0
         /\ \A j \in DOMAIN n.ARP_timer : j # ip => p[j] = n.ARP_timer[j]
    <3>1. zero \in Nat /\ zero = 0
      OBVIOUS
    <3> HIDE DEF zero
    <3>2. p \in Maps(Nat)
      BY Zenon, <1>1, <1>2, <3>1, PutType
    <3>3. /\ DOMAIN p = DOMAIN n.ARP_timer \cup {ip} /\ p[ip] = zero
          /\ \A j \in DOMAIN n.ARP_timer : j # ip => p[j] = n.ARP_timer[j]
      BY DEF Put
    <3> HIDE DEF p
    <3> QED BY Zenon, <3>1, <3>2, <3>3
  <2> HIDE DEF p
  <2>13. u \in Interfaces /\ m = [u EXCEPT !.ARP_timer = p]
    BY Zenon, <2>1, <2>8, <2>11 DEF HostOK, p
  <2>14. /\ m \in Interfaces /\ m.ethernet_address = u.ethernet_address
         /\ m.ip_address = u.ip_address
         /\ m.frames_out = u.frames_out /\ m.frames_waited = u.frames_waited
         /\ m.ip_map = u.ip_map /\ m.ARP_timer = p
    BY Zenon, <2>12, <2>13 DEF Interfaces
  <2>15. HostOK(m, h, T)
    BY Zenon, <2>11, <2>14, HostSame
  <2>16. HeadUnknown(m)
    BY Zenon, <2>1, <2>11, <2>14 DEF HeadUnknown
  <2>17. \A e : Held(m, e) = Held(n, e) + (IF e = d THEN 1 ELSE 0)
    <3>1. ASSUME NEW e PROVE Held(m, e) = Held(v, e)
      <4>1. Held(m, e) = Held(u, e)
        BY Zenon, <2>14 DEF Held
      <4>2. Held(u, e) = Held(v, e) + 0
        BY <2>10, <2>11
      <4>3. Held(v, e) \in Nat
        <5>1. v.frames_out \in Seq(Frames) /\ v.frames_waited \in Seq(Waiting)
          BY Zenon, <2>1, InterfaceParts
        <5>2. /\ Occ(v.frames_waited, WaitingFor(e)) \in Nat
              /\ Occ(v.frames_out, FramesOf(e)) \in Nat
          BY Zenon, <5>1, OccType
        <5> QED BY <5>2 DEF Held
      <4> QED BY <4>1, <4>2, <4>3
    <3> QED BY Zenon, <2>1, <3>1
  <2>18. \A j : j \in Requested(n, m) <=> j = ip
    <3>1. m.frames_out = n.frames_out \o r
      BY Zenon, <2>1, <2>11, <2>14
    <3>2. Requested(n, m) = RequestsIn(r)
      BY Zenon, <1>1, <2>6, <3>1, RequestsAdded
    <3>3. IsRequest(f) /\ f.payload.target_ip_address = ip
      BY Zenon, <2>4, <2>5 DEF IsRequest
    <3>4. 1 \in 1 .. Len(r)
      BY <2>6
    <3> QED BY Zenon, <2>6, <3>2, <3>3, <3>4 DEF RequestsIn
  <2>19. since[ip] = LongAgo
    BY Zenon, <1>2, <1>8 DEF Remembers
  <2>20. Remembers(m, after)
    <3>1. after \in [IPs -> 0 .. LongAgo]
      BY <1>4
    <3>2. after[ip] = 0 /\ \A j \in IPs : j # ip => after[j] = since[j]
      BY Zenon, <1>2, <2>18
    <3>3. ASSUME NEW j \in IPs
          PROVE  /\ j \in DOMAIN m.ARP_timer <=> after[j] # LongAgo
                 /\ j \in DOMAIN m.ARP_timer => m.ARP_timer[j] = after[j]
      <4>1. /\ j \in DOMAIN n.ARP_timer <=> since[j] # LongAgo
            /\ j \in DOMAIN n.ARP_timer => n.ARP_timer[j] = since[j]
        BY Zenon DEF Remembers
      <4>2. CASE j = ip
        BY Zenon, <1>4, <2>12, <2>14, <3>2, <4>2
      <4>3. CASE j # ip
        BY Zenon, <2>12, <2>14, <3>2, <4>1, <4>3
      <4> QED BY Zenon, <4>2, <4>3
    <3> QED BY Zenon, <3>1, <3>3 DEF Remembers
  <2> QED BY Zenon, <2>15, <2>16, <2>17, <2>18, <2>19, <2>20 DEF T
<1> QED
  BY Zenon, <1>5, <1>7, <1>8

--------------------------------------------------------------------------------
(***************************************************************************)
(* The loop at the end of recv_frame sends a prefix of the queue, up to    *)
(* the first datagram whose next hop is unknown.                           *)
(***************************************************************************)
LEMMA SendablePrefix ==
    ASSUME NEW n, n.frames_waited \in Seq(Waiting)
    PROVE  LET w == n.frames_waited
               k == Sendable(n)
           IN  /\ k \in 0 .. Len(w)
               /\ \A i \in 1 .. k : w[i].next_hop \in DOMAIN n.ip_map
               /\ k < Len(w) => w[k + 1].next_hop \notin DOMAIN n.ip_map
<1> DEFINE w == n.frames_waited
           l == Len(w)
           k == Sendable(n)
           P(j) == /\ \A i \in 1 .. j : w[i].next_hop \in DOMAIN n.ip_map
                   /\ j < l => w[j + 1].next_hop \notin DOMAIN n.ip_map
           T == {x \in 0 .. l : x < l => w[x + 1].next_hop \notin DOMAIN n.ip_map}
           R == OpToRel(<, Nat)
<1>1. l \in Nat
  BY LenProperties
<1>2. l \in T /\ T \subseteq Nat
  BY <1>1
<1>3. \E x \in T : \A y \in T : ~(y < x)
  <2>1. IsWellFoundedOn(R, Nat)
    BY Zenon, NatLessThanWellFounded
  <2>2. \A x, y \in Nat : x < y => <<x, y>> \in R
    BY DEF OpToRel
  <2> HIDE DEF R, T
  <2>3. \E x \in T : \A y \in T : ~(<<y, x>> \in R)
    BY Zenon, <1>2, <2>1, WFMin
  <2> QED BY Zenon, <1>2, <2>2, <2>3
<1>4. PICK x \in T : \A y \in T : ~(y < x)
  BY Zenon, <1>3
<1>5. P(x) /\ x \in 0 .. l
  <2>1. ASSUME NEW i \in 1 .. x, w[i].next_hop \notin DOMAIN n.ip_map PROVE FALSE
    <3>1. x \in 0 .. l /\ i - 1 \in 0 .. l /\ i - 1 < x /\ (i - 1) + 1 = i
      BY <1>1, <1>4
    <3>2. i - 1 \in T
      BY Zenon, <2>1, <3>1
    <3> QED BY Zenon, <1>4, <3>1, <3>2
  <2> QED BY Zenon, <1>4, <2>1
<1>6. k = CHOOSE j \in 0 .. l : P(j)
  BY Zenon DEF Sendable
<1> HIDE DEF P, k, T
<1>7. k \in 0 .. l /\ P(k)
  BY Zenon, <1>5, <1>6
<1> QED
  BY Zenon, <1>7 DEF P, k

(***************************************************************************)
(* SendWaited moves a datagram from the queue to a frame for its next hop, *)
(* or leaves it in the queue: its copies stay as many.                     *)
(***************************************************************************)
LEMMA FlushKeeps ==
    ASSUME NEW h \in Hosts, NEW n, NEW S, HostOK(n, h, S)
    PROVE  LET m == SendWaited(n)
           IN  /\ HostOK(m, h, S) /\ HeadUnknown(m)
               /\ m.ARP_timer = n.ARP_timer
               /\ \A d : Held(m, d) = Held(n, d)
               /\ \E r \in Seq(Frames) : /\ m.frames_out = n.frames_out \o r
                                         /\ \A i \in 1 .. Len(r) : ~IsRequest(r[i])
<1> DEFINE m == SendWaited(n)
           w == n.frames_waited
           k == Sendable(n)
           f(i) == FrameOf(n, n.ip_map[w[i].next_hop].mac, "IPv4", w[i].dgram)
           r == [i \in 1 .. k |-> f(i)]
           rest == SubSeq(w, k + 1, Len(w))
           u == Queued(n, r)
<1>1. /\ n \in Interfaces /\ n.frames_out \in Seq(Frames) /\ w \in Seq(Waiting)
      /\ Len(w) \in Nat
  BY Zenon, InterfaceParts DEF HostOK
<1>2. /\ k \in 0 .. Len(w)
      /\ \A i \in 1 .. k : w[i].next_hop \in DOMAIN n.ip_map
      /\ k < Len(w) => w[k + 1].next_hop \notin DOMAIN n.ip_map
  BY Zenon, <1>1, SendablePrefix
<1>3. m = [u EXCEPT !.frames_waited = rest]
  <2>1. m = [n EXCEPT !.frames_out = @ \o r, !.frames_waited = rest]
    BY DEF SendWaited
  <2> HIDE DEF r, rest
  <2> QED BY Zenon, <1>1, <2>1 DEF Queued, Interfaces
<1> HIDE DEF k, m
<1>4. k \in Nat /\ \A i \in 1 .. k : i \in 1 .. Len(w)
  BY <1>1, <1>2
<1>5. ASSUME NEW i \in 1 .. k
      PROVE  /\ f(i) \in Frames /\ f(i).ok /\ f(i).type = "IPv4" /\ f(i).payload = w[i].dgram
             /\ Truthful(f(i), h, S) /\ ~IsRequest(f(i)) /\ w[i] \in Waiting
  <2> DEFINE mac == n.ip_map[w[i].next_hop].mac
  <2>1. w[i] \in Waiting /\ Underway(w[i].dgram, h, S) /\ w[i].next_hop = Ip[w[i].dgram.to]
    BY Zenon, <1>1, <1>4, ElementOfSeq DEF HostOK
  <2>2. w[i].dgram \in Datagrams /\ w[i].dgram.to \in Hosts
    BY Zenon, <2>1 DEF Waiting, Underway
  <2>3. mac = Mac[w[i].dgram.to]
    BY Zenon, <1>2, <2>1, <2>2 DEF HostOK
  <2>4. mac \in Macs
    BY <2>2, <2>3, InterfaceSpecAssumption
  <2> DEFINE d == w[i].dgram
  <2> HIDE DEF mac, d
  <2>5. LET x == FrameOf(n, mac, "IPv4", d)
        IN  x \in Frames /\ x.ok /\ x.type = "IPv4" /\ x.payload = d /\ x.dst = mac
    BY Zenon, <1>1, <2>2, <2>4, DatagramFrame DEF d
  <2>6. f(i) = FrameOf(n, mac, "IPv4", d)
    BY DEF mac, d
  <2> HIDE DEF f
  <2>7. /\ f(i) \in Frames /\ f(i).ok /\ f(i).type = "IPv4" /\ f(i).payload = d
        /\ f(i).dst = mac
    BY Zenon, <2>5, <2>6
  <2>8. ~IsRequest(f(i))
    BY <2>7 DEF IsRequest
  <2>9. Truthful(f(i), h, S)
    BY <2>1, <2>3, <2>7 DEF Truthful, d
  <2> QED BY Zenon, <2>1, <2>7, <2>8, <2>9 DEF d
<1>6. /\ r \in Seq(Frames) /\ Len(r) = k /\ \A i \in 1 .. k : r[i] = f(i)
  <2>1. \A i \in 1 .. k : f(i) \in Frames
    BY Zenon, <1>5
  <2> HIDE DEF f
  <2> QED BY <1>4, <2>1
<1> HIDE DEF r, f
<1>7. \A i \in 1 .. Len(r) : Truthful(r[i], h, S) /\ ~IsRequest(r[i])
  BY Zenon, <1>5, <1>6
<1>8. HostOK(u, h, S)
  <2>1. \A i \in 1 .. Len(r) : Truthful(r[i], h, S)
    BY Zenon, <1>7
  <2> QED BY Zenon, <1>6, <2>1, QueueTruthful
<1>9. /\ u \in Interfaces /\ u.ethernet_address = n.ethernet_address
      /\ u.ip_address = n.ip_address
      /\ u.frames_out = n.frames_out \o r /\ u.frames_waited = w
      /\ u.ip_map = n.ip_map /\ u.ARP_timer = n.ARP_timer
      /\ \A d : Held(u, d) = Held(n, d) + Occ(r, FramesOf(d))
  BY Zenon, <1>1, <1>6, QueueParts
<1> HIDE DEF u, rest
<1>10. /\ rest \in Seq(Waiting) /\ Len(rest) = Len(w) - k
       /\ \A i \in 1 .. Len(rest) : rest[i] = w[k + i]
       /\ \A T : Occ(w, T) = Cardinality({i \in 1 .. k : w[i] \in T}) + Occ(rest, T)
  <2>1. ASSUME NEW T
        PROVE  /\ rest \in Seq(Waiting) /\ Len(rest) = Len(w) - k
               /\ \A i \in 1 .. Len(rest) : rest[i] = w[k + i]
               /\ Occ(w, T) = Cardinality({i \in 1 .. k : w[i] \in T}) + Occ(rest, T)
    <3>1. w \in Seq(Waiting) /\ k \in 0 .. Len(w)
      BY Zenon, <1>1, <1>2
    <3> DEFINE x == SubSeq(w, k + 1, Len(w))
    <3>2. rest = x
      BY DEF rest
    <3> HIDE DEF w
    <3>3. /\ x \in Seq(Waiting) /\ Len(x) = Len(w) - k
          /\ \A i \in 1 .. Len(x) : x[i] = w[k + i]
          /\ Occ(w, T) = Cardinality({i \in 1 .. k : w[i] \in T}) + Occ(x, T)
      BY Zenon, <3>1, OccSplit
    <3> HIDE DEF x
    <3> QED BY Zenon, <3>2, <3>3
  <2> QED BY Zenon, <2>1
<1>11. /\ m \in Interfaces /\ m.ethernet_address = u.ethernet_address
       /\ m.ip_address = u.ip_address
       /\ m.frames_out = u.frames_out /\ m.frames_waited = rest
       /\ m.ip_map = u.ip_map /\ m.ARP_timer = u.ARP_timer
  BY Zenon, <1>3, <1>9, <1>10 DEF Interfaces
<1>12. HostOK(m, h, S)
  <2>1. ASSUME NEW i \in 1 .. Len(rest)
        PROVE  Underway(rest[i].dgram, h, S) /\ rest[i].next_hop = Ip[rest[i].dgram.to]
    <3>1. k + i \in 1 .. Len(w) /\ rest[i] = w[k + i]
      BY <1>1, <1>2, <1>4, <1>10
    <3> QED BY Zenon, <3>1 DEF HostOK
  <2>2. /\ u.ethernet_address = Mac[h] /\ u.ip_address = Ip[h]
        /\ \A g \in Hosts : Ip[g] \in DOMAIN u.ip_map => u.ip_map[Ip[g]].mac = Mac[g]
        /\ \A i \in 1 .. Len(u.frames_out) : Truthful(u.frames_out[i], h, S)
    BY Zenon, <1>8 DEF HostOK
  <2>3. /\ m.ethernet_address = Mac[h] /\ m.ip_address = Ip[h]
        /\ \A g \in Hosts : Ip[g] \in DOMAIN m.ip_map => m.ip_map[Ip[g]].mac = Mac[g]
        /\ \A i \in 1 .. Len(m.frames_out) : Truthful(m.frames_out[i], h, S)
    BY <1>11, <2>2
  <2>4. \A i \in 1 .. Len(m.frames_waited) :
           LET x == m.frames_waited[i]
           IN  Underway(x.dgram, h, S) /\ x.next_hop = Ip[x.dgram.to]
    BY Zenon, <1>11, <2>1
  <2> QED BY Zenon, <1>11, <2>3, <2>4 DEF HostOK
<1>13. HeadUnknown(m)
  <2>1. ASSUME rest # << >> PROVE rest[1].next_hop \notin DOMAIN n.ip_map
    <3>1. 1 \in 1 .. Len(rest) /\ k < Len(w)
      BY <1>1, <1>4, <1>10, <2>1, EmptySeq
    <3>2. rest[1] = w[k + 1]
      BY Zenon, <1>10, <3>1
    <3> QED BY Zenon, <1>2, <3>1, <3>2
  <2> QED BY Zenon, <1>9, <1>11, <2>1 DEF HeadUnknown
<1>14. ASSUME NEW d PROVE Held(m, d) = Held(n, d)
  <2> DEFINE A == {i \in 1 .. k : w[i] \in WaitingFor(d)}
             c == Cardinality(A)
             a == Occ(rest, WaitingFor(d))
             b == Occ(n.frames_out, FramesOf(d))
             e == Occ(r, FramesOf(d))
  <2>1. \A i \in 1 .. k : r[i] \in FramesOf(d) <=> w[i] \in WaitingFor(d)
    BY Zenon, <1>5, <1>6 DEF FramesOf, WaitingFor
  <2>2. {i \in 1 .. Len(r) : r[i] \in FramesOf(d)} = A
    BY Zenon, <1>6, <2>1
  <2>3. e = c
    BY Zenon, <2>2 DEF Occ
  <2>4. a \in Nat /\ b \in Nat /\ e \in Nat
    BY Zenon, <1>1, <1>6, <1>10, OccType
  <2>5. Held(n, d) = (c + a) + b
    BY Zenon, <1>10 DEF Held
  <2>6. Held(m, d) = a + Occ(u.frames_out, FramesOf(d))
    BY Zenon, <1>11 DEF Held
  <2>7. Occ(u.frames_out, FramesOf(d)) = b + e
    <3>1. Occ(n.frames_out \o r, FramesOf(d)) = b + e
      BY <1>1, <1>6, OccConcat
    <3> QED BY Zenon, <1>9, <3>1
  <2> HIDE DEF a, b, c, e
  <2>8. a + (b + c) = (c + a) + b
    BY <2>3, <2>4
  <2> QED BY Zenon, <2>3, <2>5, <2>6, <2>7, <2>8
<1>15. r \in Seq(Frames) /\ m.frames_out = n.frames_out \o r
       /\ \A i \in 1 .. Len(r) : ~IsRequest(r[i])
  BY Zenon, <1>6, <1>7, <1>9, <1>11
<1> QED
  BY Zenon, <1>9, <1>11, <1>12, <1>13, <1>14, <1>15 DEF m

(***************************************************************************)
(* An ARP message of host e teaches its true address, and changes nothing  *)
(* else.                                                                   *)
(***************************************************************************)
LEMMA LearnKeeps ==
    ASSUME NEW h \in Hosts, NEW n, NEW S, HostOK(n, h, S), NEW arp, Speaks(arp)
    PROVE  LET m == Learn(n, arp)
           IN  /\ HostOK(m, h, S) /\ m.frames_out = n.frames_out
               /\ m.frames_waited = n.frames_waited /\ m.ARP_timer = n.ARP_timer
<1> PICK e \in Hosts : arp.sender_ip_address = Ip[e] /\ arp.sender_ethernet_address = Mac[e]
  BY Zenon DEF Speaks
<1> DEFINE m == Learn(n, arp)
           ip == Ip[e]
           entry == [mac |-> Mac[e], age |-> 0]
           p == Put(n.ip_map, ip, entry)
<1>1. /\ n \in Interfaces /\ n.ip_map \in Maps(Entries)
  BY Zenon, InterfaceParts DEF HostOK
<1>2. ip \in IPs /\ entry \in Entries /\ entry.mac = Mac[e]
  BY InterfaceSpecAssumption DEF Entries
<1>3. m = [n EXCEPT !.ip_map = p]
  BY DEF Learn
<1> HIDE DEF entry, m
<1>4. p \in Maps(Entries)
  BY Zenon, <1>1, <1>2, PutType
<1>5. /\ p[ip] = entry
      /\ \A j \in DOMAIN p : j # ip => j \in DOMAIN n.ip_map /\ p[j] = n.ip_map[j]
  BY DEF Put
<1> HIDE DEF p
<1>6. /\ m \in Interfaces /\ m.ethernet_address = n.ethernet_address
      /\ m.ip_address = n.ip_address
      /\ m.frames_out = n.frames_out /\ m.frames_waited = n.frames_waited
      /\ m.ip_map = p /\ m.ARP_timer = n.ARP_timer
  BY Zenon, <1>1, <1>3, <1>4 DEF Interfaces
<1>7. ASSUME NEW g \in Hosts, Ip[g] \in DOMAIN p PROVE p[Ip[g]].mac = Mac[g]
  <2>1. CASE g = e
    BY Zenon, <1>2, <1>5, <2>1
  <2>2. CASE g # e
    <3>1. Ip[g] # ip
      BY Zenon, <2>2, InterfaceSpecAssumption
    <3> QED BY Zenon, <1>5, <1>7, <3>1 DEF HostOK
  <2> QED BY Zenon, <2>1, <2>2
<1>8. /\ m.ethernet_address = Mac[h] /\ m.ip_address = Ip[h]
      /\ \A i \in 1 .. Len(m.frames_waited) :
            LET w == m.frames_waited[i]
            IN  Underway(w.dgram, h, S) /\ w.next_hop = Ip[w.dgram.to]
      /\ \A i \in 1 .. Len(m.frames_out) : Truthful(m.frames_out[i], h, S)
  BY SMTT(30), <1>6 DEF HostOK
<1>9. \A g \in Hosts : Ip[g] \in DOMAIN m.ip_map => m.ip_map[Ip[g]].mac = Mac[g]
  BY Zenon, <1>6, <1>7
<1> QED
  <2>1. HostOK(m, h, S)
    BY Zenon, <1>6, <1>8, <1>9 DEF HostOK
  <2> QED BY Zenon, <1>6, <2>1 DEF m

(***************************************************************************)
(* The answer to a request is a truthful frame, and no request.            *)
(***************************************************************************)
LEMMA ReplyKeeps ==
    ASSUME NEW h \in Hosts, NEW n, NEW S, HostOK(n, h, S), NEW arp \in ARPMessages
    PROVE  LET m == Reply(n, arp)
           IN  /\ HostOK(m, h, S)
               /\ m.ARP_timer = n.ARP_timer
               /\ \A d : Held(m, d) = Held(n, d)
               /\ \E r \in Seq(Frames) : /\ m.frames_out = n.frames_out \o r
                                         /\ \A i \in 1 .. Len(r) : ~IsRequest(r[i])
<1> DEFINE m == Reply(n, arp)
<1>0. m = n \/ m = send_ARP(n, "REPLY", arp.sender_ethernet_address, arp.sender_ip_address)
  BY Zenon DEF Reply
<1> HIDE DEF m
<1> SUFFICES /\ HostOK(m, h, S) /\ m.ARP_timer = n.ARP_timer
             /\ \A d : Held(m, d) = Held(n, d)
             /\ \E r \in Seq(Frames) : /\ m.frames_out = n.frames_out \o r
                                       /\ \A i \in 1 .. Len(r) : ~IsRequest(r[i])
  BY Zenon DEF m
<1>1. /\ n \in Interfaces /\ n.frames_out \in Seq(Frames) /\ n.frames_waited \in Seq(Waiting)
      /\ n.ethernet_address = Mac[h] /\ n.ip_address = Ip[h]
      /\ n.ethernet_address \in Macs /\ n.ip_address \in IPs
  BY Zenon, InterfaceParts DEF HostOK
<1>2. CASE m = n
  <2> DEFINE r == << >>
  <2>1. /\ r \in Seq(Frames) /\ \A i \in 1 .. Len(r) : ~IsRequest(r[i])
        /\ n.frames_out = n.frames_out \o r
    BY <1>1, ConcatEmptySeq
  <2> HIDE DEF r
  <2> QED BY Zenon, <1>2, <2>1
<1>3. CASE m = send_ARP(n, "REPLY", arp.sender_ethernet_address, arp.sender_ip_address)
  <2> DEFINE mac == arp.sender_ethernet_address
             ip == arp.sender_ip_address
             msg == [opcode |-> "REPLY", sender_ethernet_address |-> n.ethernet_address,
                     sender_ip_address |-> n.ip_address, target_ip_address |-> ip]
             f == FrameOf(n, mac, "ARP", msg)
             r == <<f>>
             u == Queued(n, r)
  <2>1. mac \in Macs \cup {ETHERNET_BROADCAST} /\ ip \in IPs
    BY DEF ARPMessages
  <2>2. m = [n EXCEPT !.frames_out = Append(@, f)]
    BY <1>3 DEF send_ARP
  <2> HIDE DEF mac, ip
  <2>3. f \in Frames /\ f.ok /\ f.type = "ARP" /\ f.payload = msg
    <3>1. msg \in ARPMessages
      BY <1>1, <2>1 DEF ARPMessages
    <3> HIDE DEF msg
    <3> QED BY <1>1, <2>1, <3>1 DEF FrameOf, Frames
  <2>4. /\ msg.opcode = "REPLY" /\ msg.sender_ip_address = Ip[h]
        /\ msg.sender_ethernet_address = Mac[h]
    BY <1>1
  <2> HIDE DEF f, msg
  <2>5. /\ r \in Seq(Frames) /\ Len(r) = 1 /\ r[1] = f /\ \A i \in 1 .. Len(r) : i = 1
    BY <2>3
  <2>6. m = u
    <3>1. Append(n.frames_out, f) = n.frames_out \o r
      BY Zenon, <1>1, <2>3, AppendIsConcat
    <3> QED BY Zenon, <2>2, <3>1 DEF Queued
  <2>7. \A i \in 1 .. Len(r) : Truthful(r[i], h, S) /\ ~IsRequest(r[i])
    <3>1. Truthful(f, h, S) /\ ~IsRequest(f)
      BY <2>3, <2>4 DEF Truthful, IsRequest
    <3> QED BY Zenon, <2>5, <3>1
  <2>8. \A e : Occ(r, FramesOf(e)) = 0
    <3>1. \A e : f \notin FramesOf(e)
      BY <2>3 DEF FramesOf
    <3> QED BY Zenon, <3>1, OccOne
  <2> HIDE DEF r
  <2>9. r \in Seq(Frames) /\ \A i \in 1 .. Len(r) : Truthful(r[i], h, S)
    BY Zenon, <2>5, <2>7
  <2>10. HostOK(u, h, S)
    BY Zenon, <2>9, QueueTruthful
  <2>11. /\ u.frames_out = n.frames_out \o r /\ u.ARP_timer = n.ARP_timer
         /\ \A e : Held(u, e) = Held(n, e) + Occ(r, FramesOf(e))
    BY Zenon, <1>1, <2>9, QueueParts
  <2> HIDE DEF u
  <2>12. ASSUME NEW d PROVE Held(u, d) = Held(n, d)
    <3>1. Held(u, d) = Held(n, d) + 0
      BY <2>8, <2>11
    <3>2. Held(n, d) \in Nat
      <4>1. /\ Occ(n.frames_waited, WaitingFor(d)) \in Nat
            /\ Occ(n.frames_out, FramesOf(d)) \in Nat
        BY Zenon, <1>1, OccType
      <4> QED BY <4>1 DEF Held
    <3> QED BY <3>1, <3>2
  <2> QED BY Zenon, <2>6, <2>7, <2>9, <2>10, <2>11, <2>12
<1> QED
  BY Zenon, <1>0, <1>2, <1>3

(***************************************************************************)
(* recv_frame keeps the interface as it should be: it holds every datagram *)
(* as often as before, sends what it can, and requests nothing.            *)
(***************************************************************************)
LEMMA RecvKeeps ==
    ASSUME NEW h \in Hosts, NEW n, NEW S, HostOK(n, h, S), HeadUnknown(n),
           NEW f \in Frames, f.type = "ARP" => Speaks(f.payload)
    PROVE  LET m == recv_frame(n, f)
           IN  /\ HostOK(m, h, S) /\ HeadUnknown(m)
               /\ m.ARP_timer = n.ARP_timer
               /\ \A d : Held(m, d) = Held(n, d)
               /\ Requested(n, m) = {}
<1> DEFINE m == recv_frame(n, f)
<1>0. \/ m = n
      \/ f.type = "ARP" /\ m = SendWaited(Reply(Learn(n, f.payload), f.payload))
  BY Zenon DEF recv_frame
<1> HIDE DEF m
<1> SUFFICES /\ HostOK(m, h, S) /\ HeadUnknown(m) /\ m.ARP_timer = n.ARP_timer
             /\ (\A d : Held(m, d) = Held(n, d)) /\ Requested(n, m) = {}
  BY Zenon DEF m
<1>1. n.frames_out \in Seq(Frames)
  BY Zenon, InterfaceParts DEF HostOK
<1>2. CASE m = n
  <2> DEFINE r == << >>
  <2>1. /\ r \in Seq(Frames) /\ \A i \in 1 .. Len(r) : ~IsRequest(r[i])
        /\ n.frames_out = n.frames_out \o r
    BY <1>1, ConcatEmptySeq
  <2> HIDE DEF r
  <2>2. Requested(n, m) = {}
    BY Zenon, <1>1, <1>2, <2>1, NothingRequested
  <2> QED BY Zenon, <1>2, <2>2
<1>3. CASE f.type = "ARP" /\ m = SendWaited(Reply(Learn(n, f.payload), f.payload))
  <2> DEFINE arp == f.payload
             a == Learn(n, arp)
             b == Reply(a, arp)
  <2>1. arp \in ARPMessages
    BY <1>3 DEF Frames
  <2>2. m = SendWaited(b)
    BY <1>3
  <2>3. Speaks(arp)
    BY <1>3
  <2> HIDE DEF arp
  <2>4. /\ HostOK(a, h, S) /\ a.frames_out = n.frames_out
        /\ a.frames_waited = n.frames_waited /\ a.ARP_timer = n.ARP_timer
    BY Zenon, <2>3, LearnKeeps
  <2>5. \A d : Held(a, d) = Held(n, d)
    BY Zenon, <2>4 DEF Held
  <2> HIDE DEF a
  <2>6. /\ HostOK(b, h, S) /\ b.ARP_timer = a.ARP_timer
        /\ \A d : Held(b, d) = Held(a, d)
        /\ \E r \in Seq(Frames) : /\ b.frames_out = a.frames_out \o r
                                  /\ \A i \in 1 .. Len(r) : ~IsRequest(r[i])
    BY Zenon, <2>1, <2>4, ReplyKeeps
  <2> HIDE DEF b
  <2>7. /\ HostOK(m, h, S) /\ HeadUnknown(m) /\ m.ARP_timer = b.ARP_timer
        /\ \A d : Held(m, d) = Held(b, d)
        /\ \E r \in Seq(Frames) : /\ m.frames_out = b.frames_out \o r
                                  /\ \A i \in 1 .. Len(r) : ~IsRequest(r[i])
    <3> DEFINE c == SendWaited(b)
    <3>1. /\ HostOK(c, h, S) /\ HeadUnknown(c) /\ c.ARP_timer = b.ARP_timer
          /\ \A d : Held(c, d) = Held(b, d)
          /\ \E r \in Seq(Frames) : /\ c.frames_out = b.frames_out \o r
                                    /\ \A i \in 1 .. Len(r) : ~IsRequest(r[i])
      BY Zenon, <2>6, FlushKeeps
    <3> HIDE DEF c
    <3>2. m = c
      BY Zenon, <2>2 DEF c
    <3> QED BY Zenon, <3>1, <3>2
  <2>8. PICK r1 \in Seq(Frames) : /\ b.frames_out = a.frames_out \o r1
                                  /\ \A i \in 1 .. Len(r1) : ~IsRequest(r1[i])
    BY Zenon, <2>6
  <2>9. PICK r2 \in Seq(Frames) : /\ m.frames_out = b.frames_out \o r2
                                  /\ \A i \in 1 .. Len(r2) : ~IsRequest(r2[i])
    BY Zenon, <2>7
  <2> DEFINE r == r1 \o r2
  <2>10. m.frames_out = n.frames_out \o r
    <3>1. m.frames_out = (n.frames_out \o r1) \o r2
      BY Zenon, <2>4, <2>8, <2>9
    <3> DEFINE q == n.frames_out
    <3>2. q \in Seq(Frames)
      BY <1>1
    <3> HIDE DEF q
    <3>3. (q \o r1) \o r2 = q \o (r1 \o r2)
      BY <3>2, ConcatAssociative
    <3> QED BY Zenon, <3>1, <3>3 DEF q
  <2>11. /\ r \in Seq(Frames) /\ Len(r) = Len(r1) + Len(r2)
         /\ Len(r1) \in Nat /\ Len(r2) \in Nat
         /\ \A i \in 1 .. (Len(r1) + Len(r2)) :
               r[i] = IF i <= Len(r1) THEN r1[i] ELSE r2[i - Len(r1)]
    OBVIOUS
  <2> HIDE DEF r
  <2>12. ASSUME NEW i \in 1 .. Len(r) PROVE ~IsRequest(r[i])
    <3>1. CASE i <= Len(r1)
      <4>1. i \in 1 .. Len(r1) /\ r[i] = r1[i]
        BY <2>11, <3>1
      <4> QED BY Zenon, <2>8, <4>1
    <3>2. CASE ~(i <= Len(r1))
      <4>1. i - Len(r1) \in 1 .. Len(r2) /\ r[i] = r2[i - Len(r1)]
        BY <2>11, <3>2
      <4> QED BY Zenon, <2>9, <4>1
    <3> QED BY <3>1, <3>2
  <2>13. Requested(n, m) = {}
    BY Zenon, <1>1, <2>10, <2>11, <2>12, NothingRequested
  <2> QED BY Zenon, <2>4, <2>5, <2>6, <2>7, <2>13
<1> QED
  BY Zenon, <1>0, <1>2, <1>3

(***************************************************************************)
(* When the Ethernet takes the oldest frame of h, it was a truthful one,   *)
(* and the interface holds that much less.                                 *)
(***************************************************************************)
LEMMA CarryKeeps ==
    ASSUME NEW h \in Hosts, NEW n, NEW S, HostOK(n, h, S), HeadUnknown(n),
           n.frames_out # << >>
    PROVE  LET m == [n EXCEPT !.frames_out = Tail(@)]
               f == Head(n.frames_out)
           IN  /\ HostOK(m, h, S) /\ HeadUnknown(m)
               /\ m.ARP_timer = n.ARP_timer
               /\ \A d : Held(n, d) = Held(m, d) + (IF f \in FramesOf(d) THEN 1 ELSE 0)
               /\ Requested(n, m) = {}
               /\ f \in Frames /\ Truthful(f, h, S)
<1> DEFINE q == n.frames_out
           f == Head(q)
           t == Tail(q)
           m == [n EXCEPT !.frames_out = Tail(@)]
<1>1. /\ n \in Interfaces /\ q \in Seq(Frames) /\ Len(q) \in Nat
      /\ n.frames_waited \in Seq(Waiting)
  BY Zenon, InterfaceParts DEF HostOK
<1>2. /\ Len(q) # 0 /\ f = q[1] /\ f \in Frames
      /\ t \in Seq(Frames) /\ Len(t) = Len(q) - 1 /\ \A i \in 1 .. Len(t) : t[i] = q[i + 1]
  BY <1>1, EmptySeq, HeadTailProperties
<1>3. 1 \in 1 .. Len(q) /\ \A i \in 1 .. Len(t) : i + 1 \in 1 .. Len(q)
  BY <1>1, <1>2
<1>4. /\ Truthful(f, h, S)
      /\ \A i \in 1 .. Len(t) : Truthful(t[i], h, S)
  BY Zenon, <1>2, <1>3 DEF HostOK
<1>5. m = [n EXCEPT !.frames_out = t]
  OBVIOUS
<1>6. \A d : Occ(q, FramesOf(d)) = (IF f \in FramesOf(d) THEN 1 ELSE 0) + Occ(t, FramesOf(d))
  BY Zenon, <1>1, OccTail
<1> HIDE DEF t, f, m
<1>7. /\ m \in Interfaces /\ m.ethernet_address = n.ethernet_address
      /\ m.ip_address = n.ip_address
      /\ m.frames_out = t /\ m.frames_waited = n.frames_waited
      /\ m.ip_map = n.ip_map /\ m.ARP_timer = n.ARP_timer
  BY Zenon, <1>1, <1>2, <1>5 DEF Interfaces
<1>8. HostOK(m, h, S)
  <2>1. /\ m.ethernet_address = Mac[h] /\ m.ip_address = Ip[h]
        /\ \A g \in Hosts : Ip[g] \in DOMAIN m.ip_map => m.ip_map[Ip[g]].mac = Mac[g]
        /\ \A i \in 1 .. Len(m.frames_waited) :
              LET w == m.frames_waited[i]
              IN  Underway(w.dgram, h, S) /\ w.next_hop = Ip[w.dgram.to]
    BY SMTT(30), <1>7 DEF HostOK
  <2>2. \A i \in 1 .. Len(m.frames_out) : Truthful(m.frames_out[i], h, S)
    BY Zenon, <1>4, <1>7
  <2> QED BY Zenon, <1>7, <2>1, <2>2 DEF HostOK
<1>9. HeadUnknown(m)
  BY Zenon, <1>7 DEF HeadUnknown
<1>10. ASSUME NEW d
       PROVE  Held(n, d) = Held(m, d) + (IF f \in FramesOf(d) THEN 1 ELSE 0)
  <2> DEFINE a == Occ(n.frames_waited, WaitingFor(d))
             b == Occ(t, FramesOf(d))
             c == IF f \in FramesOf(d) THEN 1 ELSE 0
  <2>1. a \in Nat /\ b \in Nat /\ c \in Nat
    BY Zenon, <1>1, <1>2, OccType
  <2>2. Held(n, d) = a + (c + b) /\ Held(m, d) = a + b
    BY Zenon, <1>6, <1>7 DEF Held
  <2> HIDE DEF a, b, c
  <2>3. a + (c + b) = (a + b) + c
    BY <2>1
  <2> QED BY Zenon, <2>2, <2>3 DEF c
<1>11. Requested(n, m) = {}
  <2> DEFINE x == Len(q) + 1
             y == Len(t)
             new == SubSeq(t, x, y)
  <2>1. x \in Int /\ y \in Int /\ y < x
    BY <1>1, <1>2
  <2>2. NewFrames(n, m) = new
    BY Zenon, <1>7 DEF NewFrames
  <2> HIDE DEF x, y
  <2>3. new = << >>
    BY <2>1, SubSeqEmpty
  <2>4. Range(<< >>) = {}
    BY DEF Range
  <2> QED BY Zenon, <2>2, <2>3, <2>4 DEF Requested
<1> QED
  BY Zenon, <1>2, <1>4, <1>7, <1>8, <1>9, <1>10, <1>11 DEF m, f

(***************************************************************************)
(* tick forgets addresses and requests that are too old, and remembers the *)
(* other requests as what they are.                                        *)
(***************************************************************************)
LEMMA TickKeeps ==
    ASSUME NEW h \in Hosts, NEW n, NEW S, HostOK(n, h, S), HeadUnknown(n),
           NEW since, Remembers(n, since)
    PROVE  LET m == InterfaceTick(n, 1)
               after == [ip \in IPs |-> IF since[ip] < LongAgo THEN since[ip] + 1 ELSE LongAgo]
           IN  /\ HostOK(m, h, S) /\ HeadUnknown(m) /\ Remembers(m, after)
               /\ \A d : Held(m, d) = Held(n, d)
               /\ Requested(n, m) = {}
<1> DEFINE m == InterfaceTick(n, 1)
           after == [ip \in IPs |-> IF since[ip] < LongAgo THEN since[ip] + 1 ELSE LongAgo]
           A == {ip \in DOMAIN n.ip_map : n.ip_map[ip].age + 1 <= MAPPING_TIME_LIMIT}
           B == {ip \in DOMAIN n.ARP_timer : n.ARP_timer[ip] + 1 <= ARP_TIME}
           p == [ip \in A |-> [n.ip_map[ip] EXCEPT !.age = @ + 1]]
           t == [ip \in B |-> n.ARP_timer[ip] + 1]
<1>1. /\ n \in Interfaces /\ n.frames_out \in Seq(Frames)
      /\ DOMAIN n.ip_map \subseteq IPs /\ n.ip_map \in [DOMAIN n.ip_map -> Entries]
      /\ DOMAIN n.ARP_timer \subseteq IPs /\ n.ARP_timer \in [DOMAIN n.ARP_timer -> Nat]
  BY Zenon, InterfaceParts DEF HostOK
<1>2. m = [n EXCEPT !.ip_map = p, !.ARP_timer = t]
  BY DEF InterfaceTick
<1>3. \A ip \in A : p[ip] \in Entries /\ p[ip].mac = n.ip_map[ip].mac
  <2>1. ASSUME NEW ip \in A PROVE p[ip] \in Entries /\ p[ip].mac = n.ip_map[ip].mac
    <3>1. n.ip_map[ip] \in Entries /\ p[ip] = [n.ip_map[ip] EXCEPT !.age = @ + 1]
      BY <1>1
    <3> QED BY <3>1 DEF Entries
  <2> QED BY Zenon, <2>1
<1>4. p \in Maps(Entries) /\ DOMAIN p = A
  <2>1. DOMAIN p = A /\ A \subseteq IPs
    BY <1>1
  <2>2. p \in [A -> Entries]
    BY Zenon, <1>3
  <2> HIDE DEF p, A
  <2> QED BY Zenon, <2>1, <2>2, MapType
<1>5. t \in Maps(Nat) /\ DOMAIN t = B
  <2>1. DOMAIN t = B /\ B \subseteq IPs
    BY <1>1
  <2>2. t \in [B -> Nat]
    BY <1>1
  <2> HIDE DEF t, B
  <2> QED BY Zenon, <2>1, <2>2, MapType
<1>6. \A ip \in B : t[ip] = n.ARP_timer[ip] + 1
  BY Zenon
<1> HIDE DEF m, p, t
<1>7. /\ m \in Interfaces /\ m.ethernet_address = n.ethernet_address
      /\ m.ip_address = n.ip_address
      /\ m.frames_out = n.frames_out /\ m.frames_waited = n.frames_waited
      /\ m.ip_map = p /\ m.ARP_timer = t
  BY Zenon, <1>1, <1>2, <1>4, <1>5 DEF Interfaces
<1>8. HostOK(m, h, S)
  <2>1. ASSUME NEW g \in Hosts, Ip[g] \in DOMAIN p PROVE p[Ip[g]].mac = Mac[g]
    BY Zenon, <1>3, <1>4, <2>1 DEF HostOK
  <2>2. /\ m.ethernet_address = Mac[h] /\ m.ip_address = Ip[h]
        /\ \A i \in 1 .. Len(m.frames_out) : Truthful(m.frames_out[i], h, S)
        /\ \A i \in 1 .. Len(m.frames_waited) :
              LET w == m.frames_waited[i]
              IN  Underway(w.dgram, h, S) /\ w.next_hop = Ip[w.dgram.to]
    BY SMTT(30), <1>7 DEF HostOK
  <2>3. \A g \in Hosts : Ip[g] \in DOMAIN m.ip_map => m.ip_map[Ip[g]].mac = Mac[g]
    BY Zenon, <1>7, <2>1
  <2> QED BY Zenon, <1>7, <2>2, <2>3 DEF HostOK
<1>9. HeadUnknown(m)
  BY Zenon, <1>4, <1>7 DEF HeadUnknown
<1>10. Remembers(m, after)
  <2>1. since \in [IPs -> 0 .. LongAgo] /\ LongAgo = ARP_TIME + 1 /\ ARP_TIME \in Nat
    BY InterfaceAssumption DEF Remembers, LongAgo
  <2>2. after \in [IPs -> 0 .. LongAgo]
    BY <2>1
  <2>3. ASSUME NEW ip \in IPs
        PROVE  /\ ip \in B <=> after[ip] # LongAgo
               /\ ip \in B => t[ip] = after[ip]
    <3>1. after[ip] = IF since[ip] < LongAgo THEN since[ip] + 1 ELSE LongAgo
      BY Zenon
    <3>2. /\ ip \in DOMAIN n.ARP_timer <=> since[ip] # LongAgo
          /\ ip \in DOMAIN n.ARP_timer => n.ARP_timer[ip] = since[ip]
      BY Zenon DEF Remembers
    <3>3. since[ip] \in 0 .. LongAgo
      BY Zenon, <2>1
    <3>4. ip \in B <=> ip \in DOMAIN n.ARP_timer /\ n.ARP_timer[ip] + 1 <= ARP_TIME
      BY Zenon
    <3> HIDE DEF after, B
    <3>5. ip \in B <=> after[ip] # LongAgo
      BY SMTT(30), <2>1, <3>1, <3>2, <3>3, <3>4
    <3>6. ASSUME ip \in B PROVE t[ip] = after[ip]
      <4>1. t[ip] = since[ip] + 1
        BY Zenon, <1>6, <3>2, <3>4, <3>6
      <4>2. since[ip] < LongAgo
        BY SMTT(30), <2>1, <3>2, <3>3, <3>4, <3>6
      <4> QED BY Zenon, <3>1, <4>1, <4>2
    <3> QED BY Zenon, <3>5, <3>6
  <2> HIDE DEF after
  <2> QED BY Zenon, <1>5, <1>7, <2>2, <2>3 DEF Remembers
<1>11. \A d : Held(m, d) = Held(n, d)
  BY Zenon, <1>7 DEF Held
<1>12. Requested(n, m) = {}
  <2> DEFINE r == << >>
  <2>1. /\ r \in Seq(Frames) /\ \A i \in 1 .. Len(r) : ~IsRequest(r[i])
        /\ n.frames_out = n.frames_out \o r
    BY <1>1, ConcatEmptySeq
  <2> HIDE DEF r
  <2>2. m.frames_out = n.frames_out \o r
    BY Zenon, <1>7, <2>1
  <2> QED BY Zenon, <1>1, <2>1, <2>2, NothingRequested
<1> QED
  BY Zenon, <1>8, <1>9, <1>10, <1>11, <1>12 DEF m

================================================================================
