------------------------------- MODULE TCPSender -------------------------------
(***************************************************************************)
(* The classes TCPSender and Timer of libsponge/tcp_sender.{hh,cc}, as     *)
(* operators on records.  A segment also keeps abs, the absolute number    *)
(* make_segment was given: properties read it, the sender never does.      *)
(***************************************************************************)
EXTENDS ByteStream, WrappingIntegers

CONSTANT MaxPayloadSize  \* TCPConfig::MAX_PAYLOAD_SIZE

ASSUME MaxPayloadAssumption == MaxPayloadSize \in Nat \ {0}

Timers == [RTO : Nat, active : BOOLEAN, time_passed : Nat, expired : BOOLEAN]

NewTimer == [RTO |-> 0, active |-> FALSE, time_passed |-> 0, expired |-> FALSE]

\* Mutant of stop_timer: it leaves the timer running.
StopsNothing(t) == t

stop_timer(t) == [t EXCEPT !.active = FALSE]

start_timer(rto) ==
    [RTO |-> rto, active |-> TRUE, time_passed |-> 0, expired |-> FALSE]

timer_tick(t, ms) ==
    IF ~t.active \/ t.expired THEN t
    ELSE [t EXCEPT !.time_passed = @ + ms, !.expired = t.time_passed + ms >= t.RTO]

-------------------------------------------------------------------------------
Segments ==
    [abs : Nat, seqno : WrappingInt, syn : BOOLEAN, fin : BOOLEAN,
     rst : BOOLEAN, payload : Seq(Nat)]

length_in_sequence_space(seg) ==
    Len(seg.payload) + (IF seg.syn THEN 1 ELSE 0) + (IF seg.fin THEN 1 ELSE 0)

make_segment(s, abs, isSyn, isFin, payload) ==
    [abs |-> abs, seqno |-> wrap(abs, s.isn), syn |-> isSyn, fin |-> isFin,
     rst |-> FALSE, payload |-> payload]

Senders ==
    [isn : WrappingInt, segments_out : Seq(Segments), segments_backup : Seq(Segments),
     initial_retransmission_timeout : Nat, retransmission_timeout : Nat,
     consecutive_retransmissions : Nat, stream : ByteStreams,
     next_seqno : Nat, abs_ackno : Nat, window_size : Nat,
     SYN_sent : BOOLEAN, FIN_sent : BOOLEAN, timer : Timers]

NewSender(capacity, rto, isn) ==
    [isn |-> isn, segments_out |-> << >>, segments_backup |-> << >>,
     initial_retransmission_timeout |-> rto, retransmission_timeout |-> rto,
     consecutive_retransmissions |-> 0, stream |-> NewByteStream(capacity),
     next_seqno |-> 0, abs_ackno |-> 0, window_size |-> 1,
     SYN_sent |-> FALSE, FIN_sent |-> FALSE, timer |-> NewTimer]

bytes_in_flight(s) == s.next_seqno - s.abs_ackno

\* Send segs for the first time: queue, keep for retransmission, arm the timer.
Transmit(s, segs, seqnos) ==
    [s EXCEPT !.segments_out = @ \o segs,
              !.segments_backup = @ \o segs,
              !.timer = IF @.active \/ segs = << >> THEN @
                        ELSE start_timer(s.retransmission_timeout),
              !.next_seqno = @ + seqnos]

\* Mutant of EffectiveWindow: a closed window is not probed.
NeverProbes(s) == s.window_size

\* A window of zero counts as one, so that the sender probes it.
EffectiveWindow(s) == IF s.window_size = 0 THEN 1 ELSE s.window_size

\* Mutant of FillSize: what is in flight does not count.
IgnoresFlight(s) == EffectiveWindow(s)

FillSize(s) ==
    IF EffectiveWindow(s) > bytes_in_flight(s)
    THEN EffectiveWindow(s) - bytes_in_flight(s) ELSE 0

\* What the loop of fill_window takes from the stream in all.
FillBytes(s) ==
    IF s.FIN_sent \/ s.stream.error THEN 0
    ELSE IF FillSize(s) < Len(s.stream.buffer) THEN FillSize(s)
    ELSE Len(s.stream.buffer)

\* Mutants of FillFin: an empty buffer is taken for the end of the stream;
\* there may be no room for the FIN.
FinWhenDrained(s) ==
    /\ ~s.FIN_sent
    /\ FillBytes(s) = Len(s.stream.buffer)
    /\ FillSize(s) > FillBytes(s)

FinUnwindowed(s) ==
    ~s.FIN_sent /\ s.stream.input_end /\ FillBytes(s) = Len(s.stream.buffer)

\* Does the loop send the FIN?  The stream must be at its end, and the FIN fit.
FillFin(s) ==
    /\ ~s.FIN_sent
    /\ s.stream.input_end
    /\ FillBytes(s) = Len(s.stream.buffer)
    /\ FillSize(s) > FillBytes(s)

\* The segments of the loop: full ones, then the remainder with the FIN if any.
FillSegments(s) ==
    LET bytes == FillBytes(s)
        count == IF bytes = 0 THEN (IF FillFin(s) THEN 1 ELSE 0)
                 ELSE (bytes + MaxPayloadSize - 1) \div MaxPayloadSize
        data  == Substr(s.stream.buffer, 0, bytes)
    IN  [j \in 1 .. count |->
            make_segment(s, s.next_seqno + (j - 1) * MaxPayloadSize, FALSE,
                         FillFin(s) /\ j = count,
                         Substr(data, (j - 1) * MaxPayloadSize, MaxPayloadSize))]

fill_window(s) ==
    IF ~s.SYN_sent
    THEN [Transmit(s, <<make_segment(s, s.next_seqno, TRUE, FALSE, << >>)>>, 1)
             EXCEPT !.SYN_sent = TRUE]
    ELSE [Transmit(s, FillSegments(s), FillBytes(s) + (IF FillFin(s) THEN 1 ELSE 0))
             EXCEPT !.stream = AfterRead(@, FillBytes(s)),
                    !.FIN_sent = @ \/ FillFin(s)]

-------------------------------------------------------------------------------
\* Mutant of check_seg_acked: off by one.
AckedLate(s, seg) ==
    unwrap(seg.seqno, s.isn, s.abs_ackno) + length_in_sequence_space(seg) < s.abs_ackno

check_seg_acked(s, seg) ==
    unwrap(seg.seqno, s.isn, s.abs_ackno) + length_in_sequence_space(seg) <= s.abs_ackno

\* How many segments the loop of ack_received pops off the backup queue.
AckedCount(s) ==
    CHOOSE k \in 0 .. Len(s.segments_backup) :
        /\ \A i \in 1 .. k : check_seg_acked(s, s.segments_backup[i])
        /\ k < Len(s.segments_backup) =>
               ~check_seg_acked(s, s.segments_backup[k + 1])

\* Only the first assignment asks whether the acknowledgment is new and possible.
NoteAck(s, ackno, window) ==
    LET abs == unwrap(ackno, s.isn, s.abs_ackno)
    IN  [s EXCEPT !.abs_ackno = IF abs > @ /\ abs <= s.next_seqno THEN abs ELSE @,
                  !.window_size = window]

ack_received(s, ackno, window) ==
    LET noted  == NoteAck(s, ackno, window)
        popped == AckedCount(noted)
        rest   == SubSeq(s.segments_backup, popped + 1, Len(s.segments_backup))
        rto    == s.initial_retransmission_timeout
    IN  [noted EXCEPT
            !.segments_backup = rest,
            !.timer = IF rest = << >> THEN stop_timer(@)
                      ELSE IF popped > 0 THEN start_timer(rto) ELSE @,
            !.retransmission_timeout = rto,
            !.consecutive_retransmissions = 0]

\* Mutant of BackOff: the timeout doubles though the window is closed.
BacksOffProbe(s) ==
    [s EXCEPT !.consecutive_retransmissions = IF s.window_size = 0 THEN @ ELSE @ + 1,
              !.retransmission_timeout = 2 * @]

\* Back off, unless the peer's window was closed.
BackOff(s) ==
    IF s.window_size = 0 THEN s
    ELSE [s EXCEPT !.consecutive_retransmissions = @ + 1,
                   !.retransmission_timeout = 2 * @]

SenderTick(s, ms) ==
    LET ticked == timer_tick(s.timer, ms)
        backed == BackOff(s)
    IN  IF ~ticked.expired THEN [s EXCEPT !.timer = ticked]
        ELSE [backed EXCEPT
                 !.segments_out = Append(@, Head(s.segments_backup)),
                 !.timer = start_timer(backed.retransmission_timeout)]

send_empty_segment(s, rst) ==
    [s EXCEPT !.segments_out =
        Append(@, [make_segment(s, s.next_seqno, FALSE, FALSE, << >>)
                      EXCEPT !.rst = rst])]
===============================================================================
