--------------------------- MODULE StreamReassembler ---------------------------
(***************************************************************************)
(* The class StreamReassembler of libsponge/stream_reassembler.cc: it      *)
(* takes substrings of a stream in any order and writes the contiguous     *)
(* prefix into its output ByteStream.                                      *)
(*                                                                         *)
(* As in ByteStream, an object is a record and a method an operator from   *)
(* records to records.  _mapbuffer is a set of pairs <<index, string>>.    *)
(* size_t arithmetic wraps: SizeMod stands for 2^64.                       *)
(***************************************************************************)
EXTENDS ByteStream

CONSTANT SizeMod

ASSUME SizeModAssumption == SizeMod \in Nat \ {0, 1}

SizeT == 0 .. (SizeMod - 1)

SizeAdd(a, b) == IF a + b < SizeMod THEN a + b ELSE (a + b) - SizeMod

SizeSub(a, b) == IF a >= b THEN a - b ELSE (a + SizeMod) - b

Reassemblers ==
    [output : ByteStreams, has_eof : BOOLEAN, final_idx : SizeT,
     mapbuffer : SUBSET (SizeT \X Seq(Nat)), first_unassembled : Nat]

NewReassembler(capacity) ==
    [output |-> NewByteStream(capacity), has_eof |-> FALSE, final_idx |-> 0,
     mapbuffer |-> {}, first_unassembled |-> 0]

get_first_unacceptable(r) ==
    remaining_capacity(r.output) + r.first_unassembled

\* Mutant of reach_end: it does not ask whether the end is known.
EndsUnannounced(r) == SizeAdd(r.final_idx, 1) = r.first_unassembled

reach_end(r) == r.has_eof /\ SizeAdd(r.final_idx, 1) = r.first_unassembled

\* Mutant of truncation_data: it does not cut at the first unacceptable index.
TruncatesToEofOnly(r, data, index) ==
    IF r.has_eof /\ SizeAdd(index, Len(data)) > SizeAdd(r.final_idx, 1)
    THEN Substr(data, 0, SizeAdd(SizeSub(r.final_idx, index), 1))
    ELSE data

\* Both subtractions wrap when index lies past the limit they compute, and
\* substr() then keeps the whole string.
truncation_data(r, data, index) ==
    LET upToEof ==
            IF r.has_eof /\ SizeAdd(index, Len(data)) > SizeAdd(r.final_idx, 1)
            THEN Substr(data, 0, SizeAdd(SizeSub(r.final_idx, index), 1))
            ELSE data
    IN  IF SizeAdd(index, Len(upToEof)) > get_first_unacceptable(r)
        THEN Substr(upToEof, 0, SizeSub(get_first_unacceptable(r), index))
        ELSE upToEof

\* The return value of push_onestr when fu is the first unassembled index.
Assemblable(fu, data, index) ==
    index <= fu \/ SizeAdd(index, Len(data)) <= fu

\* Mutant of push_onestr: it writes again what overlaps the assembled prefix.
WritesOverlap(r, data, index) ==
    LET new   == IF index > r.first_unassembled THEN << >> ELSE data
        moved == [r EXCEPT !.output = write(@, new),
                           !.first_unassembled = @ + Len(new)]
    IN  IF reach_end(moved) THEN [moved EXCEPT !.output = end_input(@)] ELSE moved

\* push_onestr on a string it accepts.  The index moves by the length of the
\* new part of data, however much of it the output stream really takes.
push_onestr(r, data, index) ==
    LET fu    == r.first_unassembled
        new   == IF index > fu THEN << >> ELSE Substr(data, fu - index, Len(data))
        moved == [r EXCEPT !.output = write(@, new),
                           !.first_unassembled = @ + Len(new)]
    IN  IF reach_end(moved)
        THEN [moved EXCEPT !.output = end_input(@)]
        ELSE moved

--------------------------------------------------------------------------------
(***************************************************************************)
(* The loop that empties _mapbuffer.  The set is ordered by index, so the  *)
(* loop takes entries off its front as long as they touch the assembled    *)
(* prefix.  That is the same as pushing, in one go, the bytes stored from  *)
(* the first unassembled index up to the first index no entry holds.       *)
(***************************************************************************)
Holds(e, n) == e[1] <= n /\ n < e[1] + Len(e[2])

Stored(r, n) == \E e \in r.mapbuffer : Holds(e, n)

FirstGap(r) ==
    CHOOSE n \in {r.first_unassembled} \cup {e[1] + Len(e[2]) : e \in r.mapbuffer} :
        /\ n >= r.first_unassembled
        /\ ~Stored(r, n)
        /\ \A m \in r.first_unassembled .. (n - 1) : Stored(r, m)

\* Of the entries that hold index n the loop reaches one with least index first.
StoredByte(r, n) ==
    LET e == CHOOSE e \in r.mapbuffer :
                /\ Holds(e, n)
                /\ \A f \in r.mapbuffer : Holds(f, n) => e[1] <= f[1]
    IN  e[2][n - e[1] + 1]

\* Mutant of ReadOut: it erases only the entries that touched the prefix at first.
KeepsSwallowed(r) ==
    LET fu   == r.first_unassembled
        run  == [k \in 1 .. (FirstGap(r) - fu) |-> StoredByte(r, fu + k - 1)]
        rest == {e \in r.mapbuffer : ~Assemblable(fu, e[2], e[1])}
    IN  IF rest = r.mapbuffer THEN r
        ELSE push_onestr([r EXCEPT !.mapbuffer = rest], run, fu)

ReadOut(r) ==
    LET fu   == r.first_unassembled
        gap  == FirstGap(r)
        run  == [k \in 1 .. (gap - fu) |-> StoredByte(r, fu + k - 1)]
        rest == {e \in r.mapbuffer : ~Assemblable(gap, e[2], e[1])}
    IN  IF \A e \in r.mapbuffer : ~Assemblable(fu, e[2], e[1])
        THEN r
        ELSE push_onestr([r EXCEPT !.mapbuffer = rest], run, fu)

--------------------------------------------------------------------------------
NoteEof(r, data, index, isEof) ==
    IF isEof THEN [r EXCEPT !.has_eof = TRUE,
                            !.final_idx = SizeSub(SizeAdd(index, Len(data)), 1)]
    ELSE r

\* push_substring up to its loop.
Insert(r, data, index, isEof) ==
    LET noted  == NoteEof(r, data, index, isEof)
        new    == truncation_data(noted, data, index)
        pushed == IF Assemblable(noted.first_unassembled, new, index)
                  THEN push_onestr(noted, new, index)
                  ELSE noted
    IN  IF index > pushed.first_unassembled
        THEN [pushed EXCEPT !.mapbuffer = @ \cup {<<index, new>>}]
        ELSE pushed

push_substring(r, data, index, isEof) == ReadOut(Insert(r, data, index, isEof))

\* unassembled_bytes() counts an index once however often it is stored.
UnassembledIndices(r) ==
    UNION {e[1] .. (e[1] + Len(e[2]) - 1) : e \in r.mapbuffer}
===============================================================================
