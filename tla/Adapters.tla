-------------------------------- MODULE Adapters --------------------------------
(***************************************************************************)
(* The adapters between a TCPConnection and the devices: FdAdapterBase,    *)
(* TCPOverUDPSocketAdapter, TCPOverIPv4Adapter with                        *)
(* TCPOverIPv4OverTunFdAdapter, and LossyFdAdapter (libsponge/tcp_helpers: *)
(* fd_adapter, tcp_over_ip, tuntap_adapter, lossy_fd_adapter).             *)
(*                                                                         *)
(* An Address is <<IPv4 address, port>>.  A read that returns an empty     *)
(* optional is None.                                                       *)
(***************************************************************************)
EXTENDS Packets

None == [header |-> NewTCPHeader, payload |-> <<"none">>]

AnyAddress == <<0, 0>>

NewAdapter(source, destination, listening) ==
    [source |-> source, destination |-> destination, listening |-> listening]

\* read(): what it returns, and the adapter after it.
Refused(a) == [adapter |-> a, seg |-> None]

Taken(a, seg) == [adapter |-> a, seg |-> [header |-> seg.header, payload |-> seg.payload]]

\* Mutant of Accepts: any segment will do.
AnySegment(a, source, destination, seg) ==
    Taken([source |-> source, destination |-> destination, listening |-> FALSE], seg)

\* "should we target this source in reply?"
Accepts(a, source, destination, seg) ==
    IF "syn" \in seg.header.flags /\ "rst" \notin seg.header.flags
    THEN Taken([source |-> source, destination |-> destination, listening |-> FALSE], seg)
    ELSE Refused(a)

--------------------------------------------------------------------------------
unwrap_tcp_in_ip(a, dgram) ==
    LET seg == TCPSegmentParse(dgram.payload, pseudo_cksum(dgram.header))
    IN  IF \/ ~a.listening /\ dgram.header.dst # a.source[1]
           \/ ~a.listening /\ dgram.header.src # a.destination[1]
           \/ dgram.header.proto # PROTO_TCP
           \/ seg.result # "NoError"
           \/ seg.header.dport # a.source[2]
        THEN Refused(a)
        ELSE IF a.listening
        THEN Accepts(a, <<dgram.header.dst, a.source[2]>>, <<dgram.header.src, seg.header.sport>>, seg)
        ELSE IF seg.header.sport # a.destination[2] THEN Refused(a)
        ELSE Taken(a, seg)

\* The segment that goes out has the ports of the adapter.
WithPorts(a, seg) ==
    [seg EXCEPT !.header.sport = a.source[2], !.header.dport = a.destination[2]]

wrap_tcp_in_ip(a, seg) ==
    LET h == [NewIPv4Header EXCEPT
                 !.src = a.source[1], !.dst = a.destination[1],
                 !.len = 4 * NewIPv4Header.hlen + 4 * seg.header.doff + Len(seg.payload)]
    IN  [header |-> h, payload |-> TCPSegmentSerialize(WithPorts(a, seg), pseudo_cksum(h))]

\* TCPOverIPv4OverTunFdAdapter: bytes of the TUN device.
TunRead(a, bytes) ==
    LET dgram == IPv4DatagramParse(bytes)
    IN  IF dgram.result # "NoError" THEN Refused(a) ELSE unwrap_tcp_in_ip(a, dgram)

TunWrite(a, seg) ==
    LET dgram == wrap_tcp_in_ip(a, seg) IN IPv4DatagramSerialize(dgram.header, dgram.payload)

--------------------------------------------------------------------------------
\* TCPOverUDPSocketAdapter: the payload of a UDP datagram, and where it comes from.
UdpRead(a, source_address, bytes) ==
    LET seg == TCPSegmentParse(bytes, 0)
    IN  IF ~a.listening /\ source_address # a.destination THEN Refused(a)
        ELSE IF seg.result # "NoError" THEN Refused(a)
        ELSE IF a.listening THEN Accepts(a, a.source, source_address, seg)
        ELSE Taken(a, seg)

UdpWrite(a, seg) == TCPSegmentSerialize(WithPorts(a, seg), 0)

\* LossyFdAdapter::read drops what the adapter has already read.
LossyRead(read, drop) == IF drop THEN [read EXCEPT !.seg = None] ELSE read
================================================================================
