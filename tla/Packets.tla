-------------------------------- MODULE Packets --------------------------------
(***************************************************************************)
(* What goes over the wire: the byte layouts of TCP segments, IPv4         *)
(* datagrams, Ethernet frames and ARP messages (libsponge/tcp_helpers),    *)
(* with the big-endian conversions of util/parser.cc and the checksum of   *)
(* util/util.cc.  Widths are the real ones.  A 32-bit number is the pair   *)
(* of its 16-bit halves, an array of bytes a sequence.                     *)
(*                                                                         *)
(* parse(bytes) is split into the result it returns and what it leaves in  *)
(* the object.                                                             *)
(***************************************************************************)
EXTENDS Integers, SequencesExt

Bytes == 0 .. 255

Words == 0 .. 65535

\* NetUnparser.
u8(val) == <<val % 256>>

u16(val) == <<(val \div 256) % 256, val % 256>>

u32(val) == u16(val[1]) \o u16(val[2])

\* NetParser, at an offset from the start of the buffer.
U8(b, i) == b[i + 1]

U16(b, i) == 256 * b[i + 1] + b[i + 2]

U32(b, i) == <<U16(b, i), U16(b, i + 2)>>

remove_prefix(b, n) == SubSeq(b, n + 1, Len(b))

\* string::resize to n bytes, of a string that is not longer.
Resized(b, n) == b \o [k \in 1 .. (n - Len(b)) |-> 0]

--------------------------------------------------------------------------------
\* InternetChecksum(sum), one or more add() (the parity goes on from one to the
\* next), and value(), whose loop runs at most twice on 32 bits.
Added(sum, data) ==
    sum + MapThenSumSet(LAMBDA i : IF i % 2 = 1 THEN 256 * data[i] ELSE data[i], DOMAIN data)

Carried(sum) == (sum \div 65536) + (sum % 65536)

InternetChecksum(sum, data) == 65535 - Carried(Carried(Added(sum, data)))

--------------------------------------------------------------------------------
IPv4HeaderLength == 20

PROTO_TCP == 6

NewIPv4Header ==
    [ver |-> 4, hlen |-> 5, tos |-> 0, len |-> 0, id |-> 0, df |-> TRUE, mf |-> FALSE, offset |-> 0,
     ttl |-> 128, proto |-> PROTO_TCP, cksum |-> 0, src |-> <<0, 0>>, dst |-> <<0, 0>>]

IPv4HeaderSerialize(h) ==
    LET fo_val == (IF h.df THEN 16384 ELSE 0) + (IF h.mf THEN 8192 ELSE 0) + (h.offset % 8192)
    IN  Resized(u8(16 * h.ver + (h.hlen % 16)) \o u8(h.tos) \o u16(h.len) \o u16(h.id)
                    \o u16(fo_val) \o u8(h.ttl) \o u8(h.proto) \o u16(h.cksum)
                    \o u32(h.src) \o u32(h.dst),
                4 * h.hlen)

IPv4HeaderFields(b) ==
    [ver |-> U8(b, 0) \div 16, hlen |-> U8(b, 0) % 16, tos |-> U8(b, 1), len |-> U16(b, 2),
     id |-> U16(b, 4), df |-> (U16(b, 6) \div 16384) % 2 = 1, mf |-> (U16(b, 6) \div 8192) % 2 = 1,
     offset |-> U16(b, 6) % 8192, ttl |-> U8(b, 8), proto |-> U8(b, 9), cksum |-> U16(b, 10),
     src |-> U32(b, 12), dst |-> U32(b, 16)]

\* IPv4Header::parse: its result, the header, and what is left in the NetParser.
IPv4HeaderParse(b) ==
    IF Len(b) < IPv4HeaderLength
    THEN [result |-> "PacketTooShort", header |-> NewIPv4Header, rest |-> b]
    ELSE LET h == IPv4HeaderFields(b)
             early(result) ==
                 [result |-> result, header |-> h, rest |-> remove_prefix(b, IPv4HeaderLength)]
         IN  CASE Len(b) < 4 * h.hlen -> early("PacketTooShort")
               [] Len(b) >= 4 * h.hlen /\ h.ver # 4 -> early("WrongIPVersion")
               [] Len(b) >= 4 * h.hlen /\ h.ver = 4 /\ h.hlen < 5 -> early("HeaderTooShort")
               [] Len(b) >= 4 * h.hlen /\ h.ver = 4 /\ h.hlen >= 5 /\ Len(b) # h.len ->
                     early("TruncatedPacket")
               [] OTHER ->
                     [result |-> IF InternetChecksum(0, SubSeq(b, 1, 4 * h.hlen)) = 0
                                 THEN "NoError" ELSE "BadChecksum",
                      header |-> h, rest |-> remove_prefix(b, 4 * h.hlen)]

payload_length(h) == (h.len - 4 * h.hlen) % 65536

pseudo_cksum(h) == h.src[1] + h.src[2] + h.dst[1] + h.dst[2] + h.proto + payload_length(h)

\* IPv4Datagram::parse does not look at the result of IPv4Header::parse, and every
\* NetParser error has been caught there.
IPv4DatagramParse(b) ==
    LET p == IPv4HeaderParse(b)
    IN  [result |-> IF Len(p.rest) = payload_length(p.header) THEN "NoError" ELSE "PacketTooShort",
         header |-> p.header, payload |-> p.rest]

IPv4DatagramSerialize(header, payload) ==
    LET zeroed == [header EXCEPT !.cksum = 0]
        summed == [zeroed EXCEPT !.cksum = InternetChecksum(0, IPv4HeaderSerialize(zeroed))]
    IN  IPv4HeaderSerialize(summed) \o payload

--------------------------------------------------------------------------------
TCPHeaderLength == 20

\* The bits of the flags byte; the six bool fields are the set of those that hold.
FlagBit == [fin |-> 1, syn |-> 2, rst |-> 4, psh |-> 8, ack |-> 16, urg |-> 32]

NewTCPHeader ==
    [sport |-> 0, dport |-> 0, seqno |-> <<0, 0>>, ackno |-> <<0, 0>>, doff |-> 5, flags |-> {},
     win |-> 0, cksum |-> 0, uptr |-> 0]

TCPHeaderSerialize(h) ==
    Resized(u16(h.sport) \o u16(h.dport) \o u32(h.seqno) \o u32(h.ackno) \o u8(16 * h.doff)
                \o u8(FoldSet(LAMBDA f, acc : acc + FlagBit[f], 0, h.flags))
                \o u16(h.win) \o u16(h.cksum) \o u16(h.uptr),
            4 * h.doff)

TCPHeaderFields(b) ==
    [sport |-> U16(b, 0), dport |-> U16(b, 2), seqno |-> U32(b, 4), ackno |-> U32(b, 8),
     doff |-> U8(b, 12) \div 16,
     flags |-> {f \in DOMAIN FlagBit : (U8(b, 13) \div FlagBit[f]) % 2 = 1},
     win |-> U16(b, 14), cksum |-> U16(b, 16), uptr |-> U16(b, 18)]

\* Mutant of TCPSegmentParse: the checksum is not looked at.
Unchecked(b, sum) ==
    LET h == TCPHeaderFields(b)
    IN  IF Len(b) < TCPHeaderLength \/ Len(b) < 4 * h.doff
        THEN [result |-> "PacketTooShort", header |-> NewTCPHeader, payload |-> << >>]
        ELSE [result |-> "NoError", header |-> h, payload |-> remove_prefix(b, 4 * h.doff)]

\* TCPSegment::parse, which drops the "HeaderTooShort" of TCPHeader::parse: with a doff
\* below 5 the payload is all that follows the fields.
TCPSegmentParse(b, sum) ==
    LET failed(result) == [result |-> result, header |-> NewTCPHeader, payload |-> << >>]
        h == TCPHeaderFields(b)
    IN  IF InternetChecksum(sum, b) # 0 THEN failed("BadChecksum")
        ELSE IF Len(b) < TCPHeaderLength \/ Len(b) < 4 * h.doff THEN failed("PacketTooShort")
        ELSE [result |-> "NoError", header |-> h,
              payload |-> remove_prefix(b, IF h.doff < 5 THEN TCPHeaderLength ELSE 4 * h.doff)]

\* Mutant of TCPSegmentSerialize: the pseudo-header is not summed up.
NoPseudoHeader(seg, sum) ==
    LET zeroed == [seg.header EXCEPT !.cksum = 0]
        cksum  == InternetChecksum(0, TCPHeaderSerialize(zeroed) \o seg.payload)
    IN  TCPHeaderSerialize([zeroed EXCEPT !.cksum = cksum]) \o seg.payload

TCPSegmentSerialize(seg, sum) ==
    LET zeroed == [seg.header EXCEPT !.cksum = 0]
        cksum  == InternetChecksum(sum, TCPHeaderSerialize(zeroed) \o seg.payload)
    IN  TCPHeaderSerialize([zeroed EXCEPT !.cksum = cksum]) \o seg.payload

--------------------------------------------------------------------------------
EthernetHeaderLength == 14

TYPE_IPv4 == 2048

TYPE_ARP == 2054

EthernetFrameSerialize(f) == f.dst \o f.src \o u16(f.type) \o f.payload

\* EthernetFrame::parse: a frame that is too short leaves a header of zeros.
EthernetFrameParse(b) ==
    IF Len(b) < EthernetHeaderLength
    THEN [dst |-> Resized(<< >>, 6), src |-> Resized(<< >>, 6), type |-> 0, payload |-> b]
    ELSE [dst |-> SubSeq(b, 1, 6), src |-> SubSeq(b, 7, 12), type |-> U16(b, 12),
          payload |-> remove_prefix(b, EthernetHeaderLength)]

ARPMessageLength == 28

supported(m) ==
    /\ m.hardware_type = 1 /\ m.protocol_type = TYPE_IPv4
    /\ m.hardware_address_size = 6 /\ m.protocol_address_size = 4
    /\ m.opcode \in {1, 2}

ARPMessageSerialize(m) ==
    u16(m.hardware_type) \o u16(m.protocol_type) \o u8(m.hardware_address_size)
        \o u8(m.protocol_address_size) \o u16(m.opcode)
        \o m.sender_ethernet_address \o u32(m.sender_ip_address)
        \o m.target_ethernet_address \o u32(m.target_ip_address)

\* Mutant of ARPMessageFields: sender and target are exchanged.
EndsExchanged(b) ==
    [hardware_type |-> U16(b, 0), protocol_type |-> U16(b, 2), hardware_address_size |-> U8(b, 4),
     protocol_address_size |-> U8(b, 5), opcode |-> U16(b, 6),
     target_ethernet_address |-> SubSeq(b, 9, 14), target_ip_address |-> U32(b, 14),
     sender_ethernet_address |-> SubSeq(b, 19, 24), sender_ip_address |-> U32(b, 24)]

ARPMessageFields(b) ==
    [hardware_type |-> U16(b, 0), protocol_type |-> U16(b, 2), hardware_address_size |-> U8(b, 4),
     protocol_address_size |-> U8(b, 5), opcode |-> U16(b, 6),
     sender_ethernet_address |-> SubSeq(b, 9, 14), sender_ip_address |-> U32(b, 14),
     target_ethernet_address |-> SubSeq(b, 19, 24), target_ip_address |-> U32(b, 24)]

ARPMessageParse(b) ==
    IF Len(b) < ARPMessageLength THEN "PacketTooShort"
    ELSE IF supported(ARPMessageFields(b)) THEN "NoError" ELSE "Unsupported"
================================================================================
