------------------------------ MODULE TCPReceiver ------------------------------
(***************************************************************************)
(* The class TCPReceiver of libsponge/tcp_receiver.cc, as operators on a   *)
(* record.  A segment carries what the receiver reads of it: seqno, the    *)
(* flags syn and fin, and the payload.                                     *)
(***************************************************************************)
EXTENDS StreamReassembler, WrappingIntegers, FiniteSets

None == -1  \* an empty std::optional

Receivers ==
    [reassembler : Reassemblers, capacity : Nat,
     isn : WrappingInt \cup {None}, ackno : WrappingInt \cup {None}]

NewReceiver(capacity) ==
    [reassembler |-> NewReassembler(capacity), capacity |-> capacity,
     isn |-> None, ackno |-> None]

\* Mutant of window_size: stored substrings take window away.
WindowCountsStored(r) ==
    r.capacity - Len(r.reassembler.output.buffer) - Cardinality(r.reassembler.mapbuffer)

window_size(r) == r.capacity - Len(r.reassembler.output.buffer)

\* The first SYN: the acknowledgment counts the FIN the segment carries.
FirstSyn(r, seg) ==
    LET reasm == push_substring(r.reassembler, seg.payload, 0, seg.fin)
    IN  [r EXCEPT
           !.isn = seg.seqno,
           !.reassembler = reasm,
           !.ackno = wrap(1 + reasm.first_unassembled + (IF seg.fin THEN 1 ELSE 0),
                          seg.seqno)]

\* Mutants of LaterSegment: the SYN's number is not subtracted; the FIN is
\* acknowledged as soon as it arrives.
ForgetsSyn(r, seg) ==
    LET abs_seqno == unwrap(seg.seqno, r.isn, r.reassembler.first_unassembled)
        reasm     == push_substring(r.reassembler, seg.payload, abs_seqno, seg.fin)
    IN  [r EXCEPT
           !.reassembler = reasm,
           !.ackno = wrap(reasm.first_unassembled + 1
                              + (IF reach_end(reasm) THEN 1 ELSE 0), r.isn)]

AcksFinAtOnce(r, seg) ==
    LET abs_seqno == unwrap(seg.seqno, r.isn, r.reassembler.first_unassembled)
        reasm     == push_substring(r.reassembler, seg.payload, SizeSub(abs_seqno, 1), seg.fin)
    IN  [r EXCEPT
           !.reassembler = reasm,
           !.ackno = wrap(reasm.first_unassembled + 1 + (IF seg.fin THEN 1 ELSE 0), r.isn)]

\* Any later segment: the acknowledgment counts the FIN once all before it is in.
LaterSegment(r, seg) ==
    LET abs_seqno == unwrap(seg.seqno, r.isn, r.reassembler.first_unassembled)
        seg_idx   == SizeSub(abs_seqno, 1)
        reasm     == push_substring(r.reassembler, seg.payload, seg_idx, seg.fin)
    IN  [r EXCEPT
           !.reassembler = reasm,
           !.ackno = wrap(reasm.first_unassembled + 1
                              + (IF reach_end(reasm) THEN 1 ELSE 0), r.isn)]

ReceiverSegment(r, seg) ==
    IF r.isn = None /\ ~seg.syn THEN r
    ELSE IF r.isn = None THEN FirstSyn(r, seg)
    ELSE LaterSegment(r, seg)
===============================================================================
