------------------------------ MODULE NetworkSpec ------------------------------
(***************************************************************************)
(* Routers and hosts joined by links, as apps/network_simulator.cc builds  *)
(* and drives them: hosts send datagrams to their gateway, routers route,  *)
(* links carry frames.  The simulator does this in rounds; here routers    *)
(* and links work in any order, and traffic starts at any time.            *)
(***************************************************************************)
EXTENDS Router

CONSTANTS
    Hosts, Routers,
    HostNic,      \* HostNic[h]: the NetworkInterface of host h
    Gateway,      \* Gateway[h]: the next hop of everything h sends
    RouterNics,   \* RouterNics[r]: the NetworkInterfaces of router r, in order
    Tables,       \* the routing tables (one for each router) to start with
    Links,        \* sequences of ports; a port is <<node, number>>
    Traffic,      \* [id, from, dst, ttl, at, hops]: h = from sends to dst, and
                  \* host at (or Nobody) gets it after so many hops
    Nobody,
    MaxSends      \* bound: how many datagrams are sent in all

ASSUME NetworkAssumption ==
    /\ Nobody \notin Hosts /\ MaxSends \in Nat
    /\ \A t \in Traffic : t.from \in Hosts /\ t.at \in Hosts \cup {Nobody}
    /\ \A tables \in Tables, r \in Routers : Range(tables[r]) \subseteq RouteTableEntries

VARIABLES
    router,      \* router[r]: the Router r
    host,        \* host[h]: the Host h: its interface and what it expects
    unexpected,  \* whether the check() of some host has thrown
    sent         \* history: the traffic started so far

vars == <<router, host, unexpected, sent>>

RouterOf(nics, table) ==
    FoldLeft(add_route,
             FoldLeft(LAMBDA r, nic : add_interface(r, Async(nic)), NewRouter, nics), table)

NewHost(h) == [interface |-> Async(HostNic[h]), expecting |-> {}]

Init ==
    /\ \E tables \in Tables : router = [r \in Routers |-> RouterOf(RouterNics[r], tables[r])]
    /\ host = [h \in Hosts |-> NewHost(h)]
    /\ unexpected = FALSE
    /\ sent = {}

--------------------------------------------------------------------------------
send_to(h, dgram) ==
    [host[h] EXCEPT !.interface = AsyncSendDatagram(@, dgram, Gateway[h])]

\* One test of the simulator: a host sends, another (or none) is told to expect
\* the datagram with its ttl lowered by every router on the way.
Start(t) ==
    LET dgram    == [id |-> t.id, dst |-> t.dst, ttl |-> t.ttl]
        expected == [dgram EXCEPT !.ttl = t.ttl - t.hops]
    IN  /\ t \notin sent /\ Cardinality(sent) < MaxSends
        /\ sent' = sent \cup {t}
        /\ host' = [h \in Hosts |->
              LET one == IF h = t.from THEN send_to(h, dgram) ELSE host[h]
              IN  IF h = t.at THEN [one EXCEPT !.expecting = @ \cup {expected}] ELSE one]
        /\ UNCHANGED <<router, unexpected>>

Route(r) ==
    /\ router' = [router EXCEPT ![r] = route(@)]
    /\ UNCHANGED <<host, unexpected, sent>>

Port(p) == IF p[1] \in Hosts THEN host[p[1]].interface ELSE router[p[1]].interfaces[p[2]]

\* The frames the others of the link hold for p, in the order of their delivery.
Incoming(link, p) ==
    FlattenSeq([i \in DOMAIN link |-> IF link[i] = p THEN << >> ELSE Port(link[i]).nic.frames_out])

\* Mutant of AfterExchange: the queues are not cleared.
NotCleared(link, p) == FoldLeft(AsyncRecvFrame, Port(p), Incoming(link, p))

\* Mutant of AfterExchange: what was queued during the exchange is cleared too.
AllCleared(link, p) ==
    [FoldLeft(AsyncRecvFrame, Port(p), Incoming(link, p)) EXCEPT !.nic.frames_out = << >>]

\* Only the frames that were there before the exchange are cleared.
AfterExchange(link, p) ==
    LET had == Len(Port(p).nic.frames_out)
    IN  [FoldLeft(AsyncRecvFrame, Port(p), Incoming(link, p)) EXCEPT
            !.nic.frames_out = SubSeq(@, had + 1, Len(@))]

exchange_frames(link) ==
    /\ host' = [h \in Hosts |->
          IF <<h, 1>> \in Range(link)
          THEN [host[h] EXCEPT !.interface = AfterExchange(link, <<h, 1>>)]
          ELSE host[h]]
    /\ router' = [r \in Routers |-> [router[r] EXCEPT !.interfaces = [i \in DOMAIN @ |->
          IF <<r, i>> \in Range(link) THEN AfterExchange(link, <<r, i>>) ELSE @[i]]]]
    /\ UNCHANGED <<unexpected, sent>>

expecting(expectations, dgram) == dgram \in expectations

remove_expectation(expectations, dgram) == expectations \ {dgram}

\* The loop of check().  That nothing remains expected when all is done is
\* AllDelivered.
check(h) ==
    LET received == host[h].interface.datagrams_out
        left(n)  == FoldLeft(remove_expectation, host[h].expecting, SubSeq(received, 1, n))
    IN  /\ host' = [host EXCEPT
              ![h].interface.datagrams_out = << >>,
              ![h].expecting = left(Len(received))]
        /\ unexpected' = (unexpected \/ \E i \in DOMAIN received : ~expecting(left(i - 1), received[i]))
        /\ UNCHANGED <<router, sent>>

Next ==
    \/ \E t \in Traffic : Start(t)
    \/ \E r \in Routers : Route(r)
    \/ \E link \in Links : exchange_frames(link)
    \/ \E h \in Hosts : check(h)

Spec == Init /\ [][Next]_vars

\* Weak fairness, with the enabling conditions written out: simulate() routes, and
\* serves every link, round after round, and every host is checked in the end.
FairSpec ==
    /\ Spec
    /\ \A r \in Routers :
          \/ []<><<Route(r)>>_vars
          \/ []<>(\A i \in DOMAIN router[r].interfaces : router[r].interfaces[i].datagrams_out = << >>)
    /\ \A link \in Links :
          \/ []<><<exchange_frames(link)>>_vars
          \/ []<>(\A p \in Range(link) : Port(p).nic.frames_out = << >>)
    /\ \A h \in Hosts :
          \/ []<><<check(h)>>_vars
          \/ []<>(host[h].interface.datagrams_out = << >>)

--------------------------------------------------------------------------------
Ports == UNION {Range(link) : link \in Links}

TypeOK ==
    /\ \A p \in Ports :
          IsInterface(Port(p).nic) /\ Range(Port(p).datagrams_out) \subseteq Datagrams
    /\ \A r \in Routers : Range(router[r].routing_table) \subseteq RouteTableEntries
    /\ \A h \in Hosts : host[h].expecting \subseteq Datagrams
    /\ unexpected \in BOOLEAN /\ sent \subseteq Traffic

(***************************************************************************)
(* "as specified by the route with the longest prefix_length that matches  *)
(* the datagram's destination address": whatever the order of the table,   *)
(* the scan of route_one_datagram finds a route if one matches, none that  *)
(* matches is longer, and among equals the one added last is taken.        *)
(***************************************************************************)
LongestPrefixWins ==
    \A r \in Routers, ip \in IPs :
        LET table    == router[r].routing_table
            SameBit(e, i) == (ip \div 2^i) % 2 = (e.route_prefix \div 2^i) % 2
            matching == {k \in DOMAIN table :
                            \A i \in AddressBits - table[k].prefix_length .. AddressBits - 1 :
                                SameBit(table[k], i)}
            best     == {k \in matching : \A j \in matching :
                            \/ table[j].prefix_length < table[k].prefix_length
                            \/ table[j].prefix_length = table[k].prefix_length /\ j <= k}
        IN  MatchedEntry(table, ip) = SetToSeq({table[k] : k \in best})

(***************************************************************************)
(* No check() of a host throws "received unexpected Internet datagram":    *)
(* a host gets only what is meant for it, once, with a ttl lowered by      *)
(* exactly the routers on the way; what has run out of hops never arrives. *)
(***************************************************************************)
OnlyTheExpected == ~unexpected

\* How many copies of datagram t there are in queues and frames.
CopiesOf(t) ==
    LET count(p) ==
            LET n == Port(p).nic
            IN  Cardinality({i \in DOMAIN Port(p).datagrams_out : Port(p).datagrams_out[i].id = t.id})
              + Cardinality({i \in DOMAIN n.frames_waited : n.frames_waited[i].dgram.id = t.id})
              + Cardinality({i \in DOMAIN n.frames_out :
                    n.frames_out[i].type = "IPv4" /\ n.frames_out[i].payload.id = t.id})
    IN  SumFunction([p \in Ports |-> count(p)])

(***************************************************************************)
(* Queues behind ARP, exchanges that copy frame queues and routers that    *)
(* drain one interface after another neither duplicate a datagram nor lose *)
(* one that somebody still expects, though routes form a loop.             *)
(***************************************************************************)
NoneDuplicatedNoneLost ==
    \A t \in sent :
        /\ CopiesOf(t) <= 1
        /\ \A h \in Hosts : (\E d \in host[h].expecting : d.id = t.id) => CopiesOf(t) = 1

(***************************************************************************)
(* Every test of the simulator ends: what is expected arrives, and what is *)
(* caught in a loop of routes dies out, so that check() finds nothing      *)
(* missing ("did NOT receive an expected Internet datagram").              *)
(***************************************************************************)
AllDelivered ==
    <>[](/\ \A h \in Hosts : host[h].expecting = {}
         /\ \A t \in sent : CopiesOf(t) = 0)
================================================================================
