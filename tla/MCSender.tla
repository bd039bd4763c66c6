------------------------------- MODULE MCSender -------------------------------
(***************************************************************************)
(* TLC instances of SenderSpec, and fill_window's loop written as the code *)
(* has it, to compare with the closed form FillSegments.                   *)
(***************************************************************************)
EXTENDS SenderSpec

RECURSIVE FillLoop(_, _)
FillLoop(s, fill_size) ==
    LET room    == IF fill_size > MaxPayloadSize THEN MaxPayloadSize ELSE fill_size
        payload == ReadResult(s.stream, room)
        left    == [s EXCEPT !.stream = AfterRead(@, room)]
        fin     == fill_size > Len(payload) /\ eof(left.stream)
        segment == make_segment(s, s.next_seqno, FALSE, fin, payload)
        len     == length_in_sequence_space(segment)
    IN  IF fill_size = 0 \/ s.FIN_sent THEN s
        ELSE IF len = 0 THEN left
        ELSE FillLoop([Transmit(left, <<segment>>, len) EXCEPT !.FIN_sent = @ \/ fin],
                      fill_size - len)

(***************************************************************************)
(* The closed form of fill_window (how many bytes, cut where, FIN or not)  *)
(* leaves the sender exactly as the while loop of the code does.           *)
(***************************************************************************)
FillIsTheLoop ==
    sender.SYN_sent => fill_window(sender) = FillLoop(sender, FillSize(sender))
===============================================================================
