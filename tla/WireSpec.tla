-------------------------------- MODULE WireSpec --------------------------------
(***************************************************************************)
(* Endpoints that exchange TCP segments through their adapters: some       *)
(* connect to one server, which listens.  Between them bytes travel, over  *)
(* TUN devices (then any endpoint may get a datagram to see), between UDP  *)
(* sockets, or as the ARP frames of TAP devices; they are lost, repeated,  *)
(* and a few are damaged or cut off.  What a TCPConnection would do with   *)
(* the segments is the matter of ConnectionSpec; here it writes any of a   *)
(* few.                                                                    *)
(***************************************************************************)
EXTENDS Adapters, FiniteSets

CONSTANTS
    Clients, Server,   \* the endpoints
    AddressOf,         \* their addresses: endpoint -> <<IPv4 address, port>>
    ServerBinds,       \* the address the server's adapter is configured with
    Segments,          \* the segments a connection may write
    Damage(_),         \* the bytes that the network may put in the place of one
    ArpMessages,       \* the ARP messages a NetworkInterface may send
    MaxWrites,         \* bound: different segments written
    MaxWire,           \* bound: datagrams under way
    MaxFaults          \* bound: datagrams damaged or cut off

Endpoints == Clients \cup {Server}

ASSUME WireAssumption ==
    /\ Server \notin Clients
    /\ \A e \in Endpoints : AddressOf[e] \in (Words \X Words) \X Words
    /\ ServerBinds \in {AddressOf[Server][1], AnyAddress} \X {AddressOf[Server][2]}
    /\ MaxWrites \in Nat /\ MaxWire \in Nat /\ MaxFaults \in Nat

VARIABLES
    medium,    \* "tun", "udp" or "tap"
    adapter,   \* the adapter of every endpoint
    wire,      \* the datagrams under way: bytes, of what was written, damage
    handed,    \* history: what every adapter has handed to its connection
    written,   \* history: who has written which segment to whom
    faults

vars == <<medium, adapter, wire, handed, written, faults>>

Init ==
    /\ medium \in {"tun", "udp", "tap"}
    /\ adapter = [e \in Endpoints |->
                    IF e = Server THEN NewAdapter(ServerBinds, <<AnyAddress, 0>>, TRUE)
                    ELSE NewAdapter(AddressOf[e], AddressOf[Server], FALSE)]
    /\ wire = {}
    /\ handed = [e \in Endpoints |-> {}]
    /\ written = {} /\ faults = 0

\* A connection that listens writes nothing.  It may write a segment again.
Write(e, seg) ==
    LET a == adapter[e]
        w == [by |-> e, to |-> a.destination, seg |-> seg]
    IN  /\ medium # "tap" /\ ~a.listening /\ Cardinality(wire) < MaxWire
        /\ written' = written \cup {w} /\ Cardinality(written') <= MaxWrites
        /\ wire' = wire \cup {[of |-> w, intact |-> TRUE,
                               bytes |-> IF medium = "tun" THEN TunWrite(a, seg) ELSE UdpWrite(a, seg)]}
        /\ UNCHANGED <<medium, adapter, handed, faults>>

\* send_pending(): the frame of NetworkInterface::send_ARP goes to the TAP device.
SendArp(m) ==
    LET frame == [dst |-> m.target_ethernet_address, src |-> m.sender_ethernet_address,
                  type |-> TYPE_ARP, payload |-> ARPMessageSerialize(m)]
    IN  /\ medium = "tap" /\ Cardinality(wire) < MaxWire
        /\ wire' = wire \cup {[of |-> m, intact |-> TRUE, bytes |-> EthernetFrameSerialize(frame)]}
        /\ UNCHANGED <<medium, adapter, handed, written, faults>>

ReadOf(e, d) ==
    IF medium = "tun" THEN TunRead(adapter[e], d.bytes)
    ELSE UdpRead(adapter[e], AddressOf[d.of.by], d.bytes)

\* A UDP socket gets what is sent to its address.  The datagram may come again, and
\* the adapter may be a LossyFdAdapter.
Read(e, d) ==
    LET read == ReadOf(e, d)
    IN  /\ medium # "tap" /\ (medium = "udp" => d.of.to = AddressOf[e])
        /\ adapter' = [adapter EXCEPT ![e] = read.adapter]
        /\ \E drop \in BOOLEAN :
              LET seg == LossyRead(read, drop).seg
              IN  handed' = IF seg = None THEN handed
                            ELSE [handed EXCEPT ![e] = @ \cup {[seg |-> seg, by |-> d.of.by]}]
        /\ wire' \in {wire, wire \ {d}}
        /\ UNCHANGED <<medium, written, faults>>

Spoil(d, bytes) ==
    /\ faults < MaxFaults /\ d.intact
    /\ wire' = (wire \ {d}) \cup {[d EXCEPT !.bytes = bytes, !.intact = FALSE]}
    /\ faults' = faults + 1
    /\ UNCHANGED <<medium, adapter, handed, written>>

DamageByte(d) ==
    \E i \in DOMAIN d.bytes : \E byte \in Damage(d.bytes[i]) : Spoil(d, [d.bytes EXCEPT ![i] = byte])

\* recv() on a UDP socket does not return a part of a datagram.
CutOff(d) == medium # "udp" /\ \E n \in 0 .. Len(d.bytes) - 1 : Spoil(d, SubSeq(d.bytes, 1, n))

Lose(d) == wire' = wire \ {d} /\ UNCHANGED <<medium, adapter, handed, written, faults>>

Next ==
    \/ \E e \in Endpoints, seg \in Segments : Write(e, seg)
    \/ \E m \in ArpMessages : SendArp(m)
    \/ \E e \in Endpoints, d \in wire : Read(e, d)
    \/ \E d \in wire : DamageByte(d) \/ CutOff(d) \/ Lose(d)

Spec == Init /\ [][Next]_vars

--------------------------------------------------------------------------------
\* What a connection sees of a segment: not its checksum.
Visible(e, seg, by) ==
    [WithPorts([source |-> AddressOf[by], destination |-> AddressOf[e]], seg) EXCEPT !.header.cksum = 0]

Same(e, got, seg, by) == [got EXCEPT !.header.cksum = 0] = Visible(e, seg, by)

TypeOK ==
    /\ \A e \in Endpoints : LET a == adapter[e]
                            IN  /\ a.source \in (Words \X Words) \X Words
                                /\ a.destination \in (Words \X Words) \X Words
                                /\ a.listening \in BOOLEAN
                                /\ a.listening => a = NewAdapter(ServerBinds, <<AnyAddress, 0>>, TRUE)
    /\ \A d \in wire : \A i \in DOMAIN d.bytes : d.bytes[i] \in Bytes
    /\ Cardinality(written) <= MaxWrites /\ faults \in 0 .. MaxFaults

(***************************************************************************)
(* Whatever happens to datagrams under way, and to whomever they are shown,*)
(* an adapter hands its connection only segments that one peer wrote to    *)
(* it, as the peer wrote them.                                             *)
(***************************************************************************)
OnlyThePeersSegments ==
    \A e \in Endpoints : \A g, h \in handed[e] :
        /\ g.by = h.by
        /\ \E w \in written : w.by = g.by /\ w.to = AddressOf[e] /\ Same(e, g.seg, w.seg, w.by)

(***************************************************************************)
(* A listening adapter is won by a SYN, never by a segment with RST or by  *)
(* a damaged one: it then replies to a client that wrote one to it, from   *)
(* the address that client wrote to.                                       *)
(***************************************************************************)
ASynWins ==
    ~adapter[Server].listening =>
        \E w \in written :
            /\ adapter[Server].destination = AddressOf[w.by] /\ w.to = AddressOf[Server]
            /\ "syn" \in w.seg.header.flags /\ "rst" \notin w.seg.header.flags
            /\ medium = "tun" => adapter[Server].source = w.to

(***************************************************************************)
(* An adapter never refuses what its peer sends it, nor a SYN when it      *)
(* listens: the bytes of an intact datagram give back the segment.         *)
(***************************************************************************)
IntactIsTaken ==
    medium # "tap" =>
        \A d \in wire, e \in Endpoints :
            /\ d.intact /\ d.of.to = AddressOf[e]
            /\ IF adapter[e].listening
               THEN "syn" \in d.of.seg.header.flags /\ "rst" \notin d.of.seg.header.flags
               ELSE adapter[e].destination = AddressOf[d.of.by]
            => LET r == ReadOf(e, d) IN r.seg # None /\ Same(e, r.seg, d.of.seg, d.of.by)

(***************************************************************************)
(* An ARP message survives the way through bytes and frames as it is, and  *)
(* one that is cut off is never taken for a message.                       *)
(***************************************************************************)
ArpSurvives ==
    medium = "tap" =>
        \A d \in wire :
            LET f == EthernetFrameParse(d.bytes)
            IN  IF d.intact
                THEN /\ f.type = TYPE_ARP /\ f.dst = d.of.target_ethernet_address
                     /\ ARPMessageParse(f.payload) = "NoError" /\ ARPMessageFields(f.payload) = d.of
                ELSE Len(d.bytes) < EthernetHeaderLength + ARPMessageLength /\ f.type = TYPE_ARP =>
                         ARPMessageParse(f.payload) = "PacketTooShort"

(***************************************************************************)
(* "It is important to check for (at least) the following potential        *)
(* errors: ... the checksum is bad": a datagram whose IPv4 header does not *)
(* add up is not parsed.                                                   *)
(***************************************************************************)
BadHeaderIsRefused ==
    medium = "tun" =>
        \A d \in wire : IPv4HeaderParse(d.bytes).result = "BadChecksum" =>
                            IPv4DatagramParse(d.bytes).result # "NoError"
================================================================================
