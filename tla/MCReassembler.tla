----------------------------- MODULE MCReassembler -----------------------------
(***************************************************************************)
(* TLC instance of ReassemblerSpec, and push_substring's loop written as   *)
(* the code has it, to compare with the closed form ReadOut.               *)
(***************************************************************************)
EXTENDS ReassemblerSpec

\* std::set order of the pairs: by index, and a prefix before what extends it.
FrontOf(entries) ==
    CHOOSE e \in entries : \A f \in entries :
        e[1] < f[1] \/ (e[1] = f[1] /\ Len(e[2]) <= Len(f[2]))

RECURSIVE ReadOutLoop(_)
ReadOutLoop(r) ==
    LET ready == {e \in r.mapbuffer : Assemblable(r.first_unassembled, e[2], e[1])}
        e     == FrontOf(ready)
    IN  IF ready = {} THEN r
        ELSE ReadOutLoop([push_onestr(r, e[2], e[1]) EXCEPT !.mapbuffer = @ \ {e}])

(***************************************************************************)
(* For every excerpt that can arrive next, pushing the stored bytes in one *)
(* go (ReadOut) leaves the reassembler as the while loop of push_substring *)
(* does, which erases one entry per round and starts over.                 *)
(***************************************************************************)
ReadOutIsTheLoop ==
    \A index \in 0 .. StreamLen : \A len \in 0 .. (StreamLen - index), isEof \in BOOLEAN :
        (isEof => index + len = StreamLen) =>
            LET r == Insert(reassembler, Excerpt(index, len), index, isEof)
            IN  ReadOut(r) = ReadOutLoop(r)
===============================================================================
