------------------------------- MODULE BytePipe -------------------------------
(***************************************************************************)
(* What a TCPConnection promises to the two applications for one direction *)
(* of a connection: a reliable pipe of bytes.  The reader never takes more *)
(* bytes than the writer wrote, sees the end of the stream only behind the *)
(* last of them, and gets nothing more once its side was reset; a writer   *)
(* that has closed, or whose side was reset, adds nothing.  Bytes are      *)
(* counted here; which byte comes out is a matter of the specification     *)
(* that implements this one.                                               *)
(* No segment, acknowledgment, window or timer is part of it.              *)
(***************************************************************************)
EXTENDS Naturals

VARIABLES
    written,    \* how many bytes the writer has written
    closed,     \* the writer has ended its stream
    cut,        \* the writer's side was reset
    delivered,  \* how many bytes have come out at the reader's side
    ended,      \* the end of the stream has come out there
    taken,      \* how many bytes the reader has read
    broken      \* the reader's side was reset

writer == <<written, closed, cut>>

reader == <<delivered, ended, taken, broken>>

Init ==
    /\ written = 0 /\ delivered = 0 /\ taken = 0
    /\ closed = FALSE /\ cut = FALSE /\ ended = FALSE /\ broken = FALSE

Write ==
    /\ ~closed /\ ~cut
    /\ written' > written
    /\ UNCHANGED <<closed, cut, reader>>

Close ==
    /\ ~closed
    /\ closed' = TRUE
    /\ UNCHANGED <<written, cut, reader>>

Cut ==
    /\ cut' = TRUE
    /\ UNCHANGED <<written, closed, reader>>

\* Bytes, the end, or bytes and the end come out, perhaps with a reset behind them.
Deliver ==
    /\ ~ended /\ ~broken
    /\ delivered' >= delivered /\ delivered' <= written
    /\ ended' \in BOOLEAN
    /\ ended' => closed /\ delivered' = written
    /\ broken' \in BOOLEAN
    /\ UNCHANGED <<writer, taken>>

Read ==
    /\ taken' > taken /\ taken' <= delivered
    /\ UNCHANGED <<writer, delivered, ended, broken>>

Break ==
    /\ broken' = TRUE
    /\ UNCHANGED <<writer, delivered, ended, taken>>

Next == Write \/ Close \/ Cut \/ Deliver \/ Read \/ Break

Spec == Init /\ [][Next]_<<writer, reader>>
===============================================================================
