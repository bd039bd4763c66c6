----------------------------- MODULE ReassemblerSpec -----------------------------
(***************************************************************************)
(* A StreamReassembler at work: a peer delivers excerpts of its stream in  *)
(* any order, as often as it likes; a reader takes bytes out of the output *)
(* stream.                                                                 *)
(***************************************************************************)
EXTENDS PeerStream, FiniteSets

CONSTANT Overshoot   \* how far past the first unacceptable index an excerpt may start

ASSUME ReassemblerAssumption == Overshoot \in Nat

VARIABLE reassembler

Init == reassembler = NewReassembler(Capacity)

\* push_substring with bytes of the stream.  A TCP peer that respects the
\* window it was given sends nothing that starts past its end (Overshoot = 0).
PushData(index, len, isEof) ==
    /\ index + len <= StreamLen
    /\ index <= get_first_unacceptable(reassembler) + Overshoot
    /\ isEof => index + len = StreamLen
    /\ reassembler' = push_substring(reassembler, Excerpt(index, len), index, isEof)

\* push_substring for a segment without payload: a bare acknowledgment lies
\* anywhere up to the number after the FIN; a repeated SYN has absolute number
\* 0, and its index 0 - 1 wraps to the largest size_t.
PushEmpty(index) ==
    reassembler' = push_substring(reassembler, << >>, index, FALSE)

Read(len) ==
    /\ reassembler.output.buffer # << >>
    /\ reassembler' = [reassembler EXCEPT !.output = AfterRead(@, len)]

Next ==
    \/ \E index \in 0 .. StreamLen, len \in 0 .. StreamLen, isEof \in BOOLEAN :
          PushData(index, len, isEof)
    \/ \E index \in (0 .. (StreamLen + 1)) \cup {SizeMod - 1} : PushEmpty(index)
    \/ \E len \in 1 .. Capacity : Read(len)

Spec == Init /\ [][Next]_reassembler

--------------------------------------------------------------------------------
TypeOK == reassembler \in Reassemblers

(***************************************************************************)
(* The reader gets byte 0, 1, 2, ... of the peer's stream, each exactly    *)
(* once: what waits in the output stream continues what was read, and      *)
(* every index push_onestr counts as assembled was really written.         *)
(***************************************************************************)
InOrder ==
    LET out == reassembler.output
    IN  /\ \A k \in 1 .. Len(out.buffer) : out.buffer[k] = (out.bytes_read + k) - 1
        /\ out.bytes_written = out.bytes_read + Len(out.buffer)
        /\ reassembler.first_unassembled = out.bytes_written

(***************************************************************************)
(* "The StreamReassembler will stay within the memory limits of the        *)
(* capacity": assembled and unassembled bytes together never exceed it,    *)
(* whatever push_substring was given.                                      *)
(***************************************************************************)
WithinCapacity ==
    Len(reassembler.output.buffer) + Cardinality(UnassembledIndices(reassembler))
        <= Capacity

(***************************************************************************)
(* push_onestr calls end_input() exactly when the last byte is written and *)
(* the peer has said which one it is: never early, never forgotten.        *)
(***************************************************************************)
EndsExactly ==
    reassembler.output.input_end
        <=> (reassembler.has_eof /\ reassembler.output.bytes_written = StreamLen)

(***************************************************************************)
(* The loop of push_substring stops only when nothing it holds touches the *)
(* assembled prefix: no byte that could be read out waits for more input.  *)
(***************************************************************************)
NothingLeftBehind ==
    \A e \in reassembler.mapbuffer :
        ~Assemblable(reassembler.first_unassembled, e[2], e[1])
===============================================================================
