------------------------------- MODULE SenderSpec -------------------------------
(***************************************************************************)
(* A TCPSender between an application that writes a stream of at most      *)
(* StreamLen bytes (byte i is the number i), a clock, and a network that   *)
(* may hand it any acknowledgment number with any window, at any time.     *)
(***************************************************************************)
EXTENDS TCPSender, FiniteSets

CONSTANTS
    SendCapacity,  \* capacity of the outgoing stream
    RtTimeout,     \* the initial retransmission timeout
    Isns,          \* the initial sequence numbers tried
    Windows,       \* the window sizes the peer advertises
    StreamLen,     \* bound: bytes the application writes in all
    MaxRetx,       \* bound: consecutive retransmissions
    MaxOut         \* bound: segments waiting in segments_out

ASSUME SenderAssumption ==
    /\ SendCapacity \in Nat
    /\ RtTimeout \in Nat \ {0}
    /\ Isns \subseteq WrappingInt
    /\ Windows \subseteq Nat
    /\ StreamLen \in Nat
    /\ MaxRetx \in Nat
    /\ MaxOut \in Nat

VARIABLE sender

Init == \E isn \in Isns : sender = NewSender(SendCapacity, RtTimeout, isn)

Excerpt(index, len) == [k \in 1 .. len |-> (index + k) - 1]

\* The application's stream_in().write() and end_input().
Write(len) ==
    /\ ~sender.stream.input_end
    /\ sender.stream.bytes_written + len <= StreamLen
    /\ sender' = [sender EXCEPT
                    !.stream = write(@, Excerpt(@.bytes_written, len))]

EndInput ==
    /\ ~sender.stream.input_end
    /\ sender' = [sender EXCEPT !.stream = end_input(@)]

FillWindow ==
    /\ Len(sender.segments_out) <= MaxOut
    /\ sender' = fill_window(sender)

AckReceived(ackno, window) == sender' = ack_received(sender, ackno, window)

Tick(ms) ==
    /\ Len(sender.segments_out) <= MaxOut
    /\ sender.consecutive_retransmissions < MaxRetx
    /\ sender' = SenderTick(sender, ms)

SendEmpty(rst) ==
    /\ Len(sender.segments_out) <= MaxOut
    /\ sender' = send_empty_segment(sender, rst)

\* The connection empties segments_out() (TCPConnection::send_all).
Collect ==
    /\ sender.segments_out # << >>
    /\ sender' = [sender EXCEPT !.segments_out = << >>]

Next ==
    \/ \E len \in 1 .. StreamLen : Write(len)
    \/ EndInput
    \/ FillWindow
    \/ \E ackno \in WrappingInt, window \in Windows : AckReceived(ackno, window)
    \/ \E ms \in 1 .. RtTimeout : Tick(ms)
    \/ \E rst \in BOOLEAN : SendEmpty(rst)
    \/ Collect

Spec == Init /\ [][Next]_sender

--------------------------------------------------------------------------------
TypeOK == sender \in Senders

Backup == sender.segments_backup

EndOf(seg) == seg.abs + length_in_sequence_space(seg)

(***************************************************************************)
(* The timer runs exactly while something is unacknowledged, and is never  *)
(* left expired.  So tick() finds a segment at _segments_backup.front()    *)
(* whenever it retransmits, and nothing outstanding waits without a timer. *)
(***************************************************************************)
TimerArmed ==
    /\ sender.timer.active <=> Backup # << >>
    /\ ~sender.timer.expired
    /\ sender.timer.active => sender.timer.time_passed < sender.timer.RTO

(***************************************************************************)
(* The backup queue holds, in order and without gap, the segments from the *)
(* one that contains the first unacknowledged number up to next_seqno: what*)
(* tick() resends is the segment the peer waits for, and no acknowledged   *)
(* segment is kept.                                                        *)
(***************************************************************************)
OutstandingTiles ==
    /\ Backup = << >> <=> sender.abs_ackno = sender.next_seqno
    /\ \A i \in 1 .. (Len(Backup) - 1) : Backup[i + 1].abs = EndOf(Backup[i])
    /\ Backup # << >> =>
          /\ Backup[1].abs <= sender.abs_ackno
          /\ sender.abs_ackno < EndOf(Backup[1])
          /\ EndOf(Backup[Len(Backup)]) = sender.next_seqno

(***************************************************************************)
(* Every segment queued or kept for retransmission carries the bytes its   *)
(* sequence number stands for, and a FIN only after the last byte of an    *)
(* ended stream.                                                           *)
(***************************************************************************)
SegmentsAreHonest ==
    \A queue \in {sender.segments_out, Backup} : \A i \in 1 .. Len(queue) :
        LET seg == queue[i]
        IN  /\ seg.seqno = wrap(seg.abs, sender.isn)
            /\ \A k \in 1 .. Len(seg.payload) : seg.payload[k] = (seg.abs + k) - 2
            /\ EndOf(seg) <= sender.next_seqno
            /\ seg.syn <=> (seg.abs = 0 /\ EndOf(seg) = 1)
            /\ seg.fin => /\ sender.stream.input_end
                          /\ EndOf(seg) = sender.stream.bytes_written + 2

(***************************************************************************)
(* The timeout is the initial one doubled once per consecutive             *)
(* retransmission.                                                         *)
(***************************************************************************)
BackoffIsExponential ==
    sender.retransmission_timeout
        = RtTimeout * 2 ^ sender.consecutive_retransmissions

(***************************************************************************)
(* Nothing new is sent outside the window last advertised (a window of 0   *)
(* counting as 1), and what was sent is never un-sent or un-acknowledged.  *)
(***************************************************************************)
KeepsToTheWindow ==
    [][/\ sender'.next_seqno >= sender.next_seqno
       /\ sender'.abs_ackno >= sender.abs_ackno
       /\ sender'.next_seqno > sender.next_seqno =>
            sender'.next_seqno <= sender.abs_ackno + EffectiveWindow(sender)]_sender
===============================================================================
