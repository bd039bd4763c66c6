----------------------------- MODULE ReceiverSpec -----------------------------
(***************************************************************************)
(* A TCPReceiver facing a peer with a stream of StreamLen bytes over a     *)
(* network that loses, repeats and reorders segments.  The peer keeps to   *)
(* the window the receiver advertised; a repeated segment may be as old as *)
(* MaxStale sequence numbers.                                              *)
(***************************************************************************)
EXTENDS TCPReceiver, PeerStream

CONSTANTS
    PeerIsn,        \* the initial sequence numbers the peer may choose
    MaxSynPayload,  \* the most payload the peer puts into its SYN
    MaxPayload,     \* the most payload the peer puts into any other segment
    MaxStale        \* bound: how far behind the window a segment may start

ASSUME ReceiverAssumption ==
    /\ PeerIsn \subseteq WrappingInt
    /\ MaxSynPayload \in Nat
    /\ MaxPayload \in Nat
    /\ MaxStale \in Nat
    /\ SizeMod > StreamLen + Capacity + SeqMod + 3

VARIABLES
    receiver,
    isn,        \* the peer's initial sequence number
    promised    \* the furthest window edge advertised to the peer

vars == <<receiver, isn, promised>>

fu == receiver.reassembler.first_unassembled

out == receiver.reassembler.output

Init ==
    /\ receiver = NewReceiver(Capacity)
    /\ isn \in PeerIsn
    /\ promised = 0

Segment(abs, isSyn, isFin, payload) ==
    [seqno |-> wrap(abs, isn), syn |-> isSyn, fin |-> isFin, payload |-> payload]

\* segment_received, after which the connection advertises ackno and window.
Receive(seg) ==
    /\ receiver' = ReceiverSegment(receiver, seg)
    /\ promised' = IF receiver'.isn = None THEN promised
                   ELSE receiver'.reassembler.first_unassembled + window_size(receiver')
    /\ UNCHANGED isn

\* The peer's SYN, first or repeated.
Syn(len, isFin) ==
    /\ len <= MaxSynPayload
    /\ len <= StreamLen
    /\ isFin => len = StreamLen
    /\ fu < MaxStale
    /\ Receive(Segment(0, TRUE, isFin, Excerpt(0, len)))

\* Payload, perhaps with the FIN, that starts inside the promised window; the
\* window being closed does not stop the one-byte probe that starts at its end.
Data(index, len, isFin) ==
    /\ index + len <= StreamLen
    /\ index <= promised
    /\ fu < index + MaxStale
    /\ isFin => index + len = StreamLen
    /\ Receive(Segment(index + 1, FALSE, isFin, Excerpt(index, len)))

\* A bare acknowledgment, sent with the number the peer will use next.
BareAck(abs) ==
    /\ fu < abs + MaxStale
    /\ abs <= promised + 2
    /\ Receive(Segment(abs, FALSE, FALSE, << >>))

\* The application reads from stream_out().  Nothing is sent: the peer learns of
\* the larger window with the next acknowledgment.
Read(len) ==
    /\ out.buffer # << >>
    /\ receiver' = [receiver EXCEPT !.reassembler.output = AfterRead(@, len)]
    /\ UNCHANGED <<isn, promised>>

Next ==
    \/ \E len \in 0 .. StreamLen, isFin \in BOOLEAN : Syn(len, isFin)
    \/ \E index \in 0 .. StreamLen, len \in 0 .. MaxPayload, isFin \in BOOLEAN :
          Data(index, len, isFin)
    \/ \E abs \in 1 .. (StreamLen + 2) : BareAck(abs)
    \/ \E len \in 1 .. Capacity : Read(len)

Spec == Init /\ [][Next]_vars

-------------------------------------------------------------------------------
TypeOK ==
    /\ receiver \in Receivers
    /\ isn \in WrappingInt
    /\ promised \in Nat

(***************************************************************************)
(* Whatever is lost, repeated or reordered, and wherever the 32-bit        *)
(* sequence numbers wrap, the application reads byte 0, 1, 2, ... of the   *)
(* peer's stream, each exactly once.                                       *)
(***************************************************************************)
InOrder ==
    /\ \A k \in 1 .. Len(out.buffer) : out.buffer[k] = (out.bytes_read + k) - 1
    /\ out.bytes_written = out.bytes_read + Len(out.buffer)

(***************************************************************************)
(* ackno() is "the sequence number of the first byte in the stream that    *)
(* the receiver hasn't received": it covers the SYN, exactly the bytes     *)
(* written to the output, and the FIN if and only if the output has ended. *)
(***************************************************************************)
AcksWhatItHas ==
    receiver.isn # None =>
        receiver.ackno = wrap(1 + out.bytes_written + (IF out.input_end THEN 1 ELSE 0), isn)

(***************************************************************************)
(* The receiver never takes back window it has offered: the index at the   *)
(* end of the advertised window never decreases.                           *)
(***************************************************************************)
WindowNeverShrinks == [][promised' >= promised]_vars
===============================================================================
