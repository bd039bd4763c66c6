----------------------------- MODULE TCPConnection -----------------------------
(***************************************************************************)
(* The class TCPConnection of libsponge/tcp_connection.{hh,cc}, and the    *)
(* summary of its state that TCPState gives, as operators on a record that *)
(* holds a sender and a receiver.                                          *)
(*                                                                         *)
(* _lingering is left out: it is initialised to false and only ever set to *)
(* false.  _time_since_last_segrecv is only compared with LingerTime, so   *)
(* it stops there.                                                         *)
(***************************************************************************)
EXTENDS TCPReceiver, TCPSender

CONSTANTS
    MaxRetxAttempts,  \* TCPConfig::MAX_RETX_ATTEMPTS
    LingerFactor,     \* the 10 of 10 * _cfg.rt_timeout
    MaxWindow         \* numeric_limits<uint16_t>::max()

ASSUME ConnectionAssumption ==
    /\ MaxRetxAttempts \in Nat
    /\ LingerFactor \in Nat \ {0}
    /\ MaxWindow \in Nat \ {0}

WireSegments ==
    [seqno : WrappingInt, syn : BOOLEAN, fin : BOOLEAN, rst : BOOLEAN,
     payload : Seq(Nat), ack : BOOLEAN, ackno : WrappingInt, win : 0 .. MaxWindow]

Connections ==
    [receiver : Receivers, sender : Senders, segments_out : Seq(WireSegments),
     linger_after_streams_finish : BOOLEAN, time_since_last_segrecv : Nat,
     active : BOOLEAN]

NewConnection(recv_capacity, send_capacity, rt_timeout, isn) ==
    [receiver |-> NewReceiver(recv_capacity),
     sender |-> NewSender(send_capacity, rt_timeout, isn),
     segments_out |-> << >>, linger_after_streams_finish |-> TRUE,
     time_since_last_segrecv |-> 0, active |-> TRUE]

inbound_stream(c) == c.receiver.reassembler.output

remaining_outbound_capacity(c) == remaining_capacity(c.sender.stream)

LingerTime(c) == LingerFactor * c.sender.initial_retransmission_timeout

--------------------------------------------------------------------------------
handle_sender_segment(r, seg) ==
    [seqno |-> seg.seqno, syn |-> seg.syn, fin |-> seg.fin, rst |-> seg.rst,
     payload |-> seg.payload, ack |-> r.ackno # None,
     ackno |-> IF r.ackno # None THEN r.ackno ELSE 0,
     win |-> IF window_size(r) > MaxWindow THEN MaxWindow ELSE window_size(r)]

send_all(c) ==
    LET out == c.sender.segments_out
    IN  [c EXCEPT
           !.sender.segments_out = << >>,
           !.segments_out = @ \o [i \in 1 .. Len(out) |->
                                     handle_sender_segment(c.receiver, out[i])]]

\* Mutant of PrereqsMet: the FIN need not have been acknowledged.
IgnoresInFlight(c) ==
    /\ inbound_stream(c).input_end
    /\ eof(c.sender.stream)
    /\ c.sender.next_seqno = c.sender.stream.bytes_written + 2

\* follow_prereq: what it returns, and what it does to the connection.
PrereqsMet(c) ==
    /\ inbound_stream(c).input_end
    /\ eof(c.sender.stream)
    /\ c.sender.next_seqno = c.sender.stream.bytes_written + 2
    /\ bytes_in_flight(c.sender) = 0

\* Mutant of NoteLinger: it does not matter which end closed first.
SkipsLingerAtEof(c) ==
    [c EXCEPT !.linger_after_streams_finish = @ /\ ~eof(inbound_stream(c))]

NoteLinger(c) ==
    [c EXCEPT !.linger_after_streams_finish =
                  @ /\ ~(eof(inbound_stream(c)) /\ ~c.sender.FIN_sent)]

\* The RST goes out on the first segment waiting to be sent, if there is one.
unclean_shutdown(c, rst_sent) ==
    LET filled == fill_window(c.sender)
        marked == IF filled.segments_out = << >> THEN send_empty_segment(filled, TRUE)
                  ELSE [filled EXCEPT !.segments_out[1].rst = TRUE]
        sent   == IF rst_sent THEN send_all([c EXCEPT !.sender = marked]) ELSE c
    IN  [sent EXCEPT !.receiver.reassembler.output = set_error(@),
                     !.sender.stream = set_error(@),
                     !.active = FALSE]

--------------------------------------------------------------------------------
\* Mutant of Answer: only a payload is acknowledged, not a FIN alone.
AnswersPayloadOnly(c, seg) ==
    LET filled == IF seg.syn /\ ~seg.ack THEN fill_window(c.sender) ELSE c.sender
    IN  IF filled.segments_out = << >> /\ seg.payload # << >>
        THEN send_empty_segment(filled, FALSE) ELSE filled

\* What the sender queues in answer to seg, once its parts were handed out.
Answer(c, seg) ==
    LET s         == c.sender
        keepAlive == c.receiver.ackno # None
                       /\ seg.seqno = (c.receiver.ackno + SeqMod - 1) % SeqMod
        filled    == IF seg.syn /\ ~seg.ack THEN fill_window(s) ELSE s
    IN  IF length_in_sequence_space(seg) = 0
        THEN IF keepAlive THEN send_empty_segment(s, FALSE) ELSE s
        ELSE IF filled.segments_out = << >> THEN send_empty_segment(filled, FALSE)
        ELSE filled

ConnectionSegment(c, seg) ==
    LET heard == [c EXCEPT !.time_since_last_segrecv = 0,
                           !.receiver = ReceiverSegment(@, seg)]
        acked == IF seg.ack
                 THEN [heard EXCEPT !.sender = ack_received(@, seg.ackno, seg.win)]
                 ELSE heard
        noted == NoteLinger(acked)
    IN  IF ~c.active THEN c
        ELSE IF seg.rst THEN unclean_shutdown(heard, FALSE)
        ELSE send_all([noted EXCEPT !.sender = Answer(noted, seg)])

ConnectionTick(c, ms) ==
    LET waited == c.time_since_last_segrecv + ms
        ticked == [c EXCEPT
                     !.sender = SenderTick(@, ms),
                     !.time_since_last_segrecv =
                         IF waited > LingerTime(c) THEN LingerTime(c) ELSE waited]
        pumped == send_all(IF ticked.sender.SYN_sent
                           THEN [ticked EXCEPT !.sender = fill_window(@)] ELSE ticked)
        noted  == NoteLinger(pumped)
    IN  IF ticked.sender.consecutive_retransmissions > MaxRetxAttempts
        THEN unclean_shutdown(ticked, TRUE)
        ELSE IF ~PrereqsMet(pumped) THEN noted
        ELSE [noted EXCEPT
                 !.active = @ /\ noted.linger_after_streams_finish
                              /\ noted.time_since_last_segrecv < LingerTime(c)]

ConnectionWrite(c, data) ==
    send_all([c EXCEPT !.sender = fill_window([@ EXCEPT !.stream = write(@, data)])])

end_input_stream(c) ==
    send_all([c EXCEPT !.sender = fill_window([@ EXCEPT !.stream = end_input(@)])])

connect(c) == send_all([c EXCEPT !.sender = fill_window(@)])

--------------------------------------------------------------------------------
(***************************************************************************)
(* TCPState: how the connection looks in terms of RFC 793.                 *)
(***************************************************************************)
ReceiverSummary(r) ==
    IF r.reassembler.output.error THEN "ERROR"
    ELSE IF r.ackno = None THEN "LISTEN"
    ELSE IF r.reassembler.output.input_end THEN "FIN_RECV" ELSE "SYN_RECV"

SenderSummary(s) ==
    IF s.stream.error THEN "ERROR"
    ELSE IF s.next_seqno = 0 THEN "CLOSED"
    ELSE IF s.next_seqno = bytes_in_flight(s) THEN "SYN_SENT"
    ELSE IF ~eof(s.stream) \/ s.next_seqno < s.stream.bytes_written + 2 THEN "SYN_ACKED"
    ELSE IF bytes_in_flight(s) # 0 THEN "FIN_SENT" ELSE "FIN_ACKED"

state(c) ==
    [receiver |-> ReceiverSummary(c.receiver), sender |-> SenderSummary(c.sender),
     active |-> c.active, linger |-> c.active /\ c.linger_after_streams_finish]

Official(receiver, sender, active, linger) ==
    [receiver |-> receiver, sender |-> sender, active |-> active, linger |-> linger]

OfficialState ==
    [LISTEN      |-> Official("LISTEN",   "CLOSED",    TRUE,  TRUE),
     SYN_RCVD    |-> Official("SYN_RECV", "SYN_SENT",  TRUE,  TRUE),
     SYN_SENT    |-> Official("LISTEN",   "SYN_SENT",  TRUE,  TRUE),
     ESTABLISHED |-> Official("SYN_RECV", "SYN_ACKED", TRUE,  TRUE),
     CLOSE_WAIT  |-> Official("FIN_RECV", "SYN_ACKED", TRUE,  FALSE),
     LAST_ACK    |-> Official("FIN_RECV", "FIN_SENT",  TRUE,  FALSE),
     CLOSING     |-> Official("FIN_RECV", "FIN_SENT",  TRUE,  TRUE),
     FIN_WAIT_1  |-> Official("SYN_RECV", "FIN_SENT",  TRUE,  TRUE),
     FIN_WAIT_2  |-> Official("SYN_RECV", "FIN_ACKED", TRUE,  TRUE),
     TIME_WAIT   |-> Official("FIN_RECV", "FIN_ACKED", TRUE,  TRUE),
     RESET       |-> Official("ERROR",    "ERROR",     FALSE, FALSE),
     CLOSED      |-> Official("FIN_RECV", "FIN_ACKED", FALSE, FALSE)]
================================================================================
