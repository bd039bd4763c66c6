--------------------------- MODULE ReassemblerLemmas ---------------------------
(***************************************************************************)
(* What the methods of a StreamReassembler do to a reassembler that holds  *)
(* bytes of the peer's stream, at their place and inside the window: the   *)
(* facts the proofs about ReassemblerSpec and ReceiverSpec share.          *)
(***************************************************************************)
EXTENDS PeerStream, SharedLemmas, FiniteSetTheorems

\* An output stream in order, within its capacity and without error.
Flowing(o) ==
    /\ Orderly(o)
    /\ o.capacity = Capacity
    /\ ~o.error

\* A stored substring: bytes of the stream, at their place, inside the window.
EntryOK(e, limit) ==
    /\ IsExcerpt(e[2], e[1])
    /\ e[2] # << >> => /\ e[1] + Len(e[2]) <= limit
                       /\ e[1] + Len(e[2]) <= StreamLen

\* What holds between the statements of push_substring.
Loose(r) ==
    /\ r \in Reassemblers
    /\ Flowing(r.output)
    /\ r.first_unassembled = r.output.bytes_written
    /\ r.first_unassembled <= StreamLen
    /\ r.has_eof => SizeAdd(r.final_idx, 1) = StreamLen
    /\ r.output.input_end => r.has_eof /\ r.first_unassembled = StreamLen
    /\ \A e \in r.mapbuffer : EntryOK(e, r.output.bytes_read + Capacity)

\* What holds between calls: the end is noticed and nothing is left to read out.
Ended(r) == r.has_eof /\ r.first_unassembled = StreamLen => r.output.input_end

Settled(r) ==
    \A e \in r.mapbuffer : ~Assemblable(r.first_unassembled, e[2], e[1])

Good(r) == Loose(r) /\ Ended(r) /\ Settled(r)

--------------------------------------------------------------------------------
(***************************************************************************)
(* A stream that is in order takes all of an excerpt that continues it and *)
(* fits, and stays in order.                                               *)
(***************************************************************************)
LEMMA WriteExcerpt ==
    ASSUME NEW o, Flowing(o), NEW d, IsExcerpt(d, o.bytes_written),
           Len(d) <= Capacity - Len(o.buffer), o.input_end => d = << >>
    PROVE  /\ Flowing(write(o, d))
           /\ write(o, d).bytes_written = o.bytes_written + Len(d)
           /\ write(o, d).bytes_read = o.bytes_read
           /\ write(o, d).input_end = o.input_end
<1>1. /\ o \in ByteStreams /\ d \in Seq(Nat) /\ Len(d) \in Nat /\ o.capacity = Capacity
      /\ o.buffer \in Seq(Nat) /\ Len(o.buffer) \in Nat /\ Capacity \in Nat /\ ~o.error
  BY PeerStreamAssumption DEF Flowing, Orderly, IsExcerpt, ByteStreams
<1>2. WriteCount(o, d) = Len(d)
  BY <1>1 DEF WriteCount, remaining_capacity
<1>3. /\ Orderly(write(o, d))
      /\ write(o, d) = [o EXCEPT !.buffer = write(o, d).buffer,
                                 !.bytes_written = o.bytes_written + Len(d)]
  <2>1. Orderly(o)
    BY Zenon DEF Flowing
  <2>2. /\ Orderly(write(o, d))
        /\ write(o, d) = [o EXCEPT !.buffer = write(o, d).buffer,
                                   !.bytes_written = o.bytes_written + WriteCount(o, d)]
    BY Zenon, <2>1, WriteOrderly
  <2> QED BY Zenon, <1>2, <2>2
<1>4. /\ write(o, d).bytes_written = o.bytes_written + Len(d)
      /\ write(o, d).bytes_read = o.bytes_read
      /\ write(o, d).input_end = o.input_end
      /\ write(o, d).error = o.error
      /\ write(o, d).capacity = o.capacity
  BY Zenon, <1>1, <1>3 DEF ByteStreams
<1> QED
  BY <1>1, <1>3, <1>4 DEF Flowing

(***************************************************************************)
(* end_input() leaves a stream in order.                                   *)
(***************************************************************************)
LEMMA EndInputFlowing ==
    ASSUME NEW o, Flowing(o)
    PROVE  /\ Flowing(end_input(o))
           /\ end_input(o).input_end
           /\ end_input(o).bytes_read = o.bytes_read
           /\ end_input(o).bytes_written = o.bytes_written
<1>1. o \in ByteStreams
  BY DEF Flowing, Orderly
<1>2. end_input(o) \in ByteStreams
  BY Zenon, <1>1 DEF end_input, ByteStreams
<1>3. /\ end_input(o).input_end
      /\ end_input(o).bytes_read = o.bytes_read
      /\ end_input(o).bytes_written = o.bytes_written
      /\ end_input(o).buffer = o.buffer
      /\ end_input(o).error = o.error
      /\ end_input(o).capacity = o.capacity
  BY <1>1 DEF end_input, ByteStreams
<1> QED
  BY <1>2, <1>3 DEF Flowing, Orderly

(***************************************************************************)
(* push_onestr writes all that is new of an excerpt inside the window and  *)
(* calls end_input() at the end of the stream.                             *)
(***************************************************************************)
LEMMA PushOne ==
    ASSUME NEW r, Loose(r), NEW d, NEW index \in Nat, IsExcerpt(d, index),
           d # << >> => /\ index + Len(d) <= r.output.bytes_read + Capacity
                        /\ index + Len(d) <= StreamLen
    PROVE  LET q == push_onestr(r, d, index)
           IN  /\ Loose(q)
               /\ Ended(q)
               /\ q.mapbuffer = r.mapbuffer
               /\ q.output.bytes_read = r.output.bytes_read
               /\ q.has_eof = r.has_eof
               /\ q.first_unassembled >= r.first_unassembled
               /\ (index <= r.first_unassembled /\ index + Len(d) >= r.first_unassembled)
                     => q.first_unassembled = index + Len(d)
<1> DEFINE f     == r.first_unassembled
           new   == IF index > f THEN << >> ELSE Substr(d, f - index, Len(d))
           w     == write(r.output, new)
           moved == [r EXCEPT !.output = write(@, new), !.first_unassembled = @ + Len(new)]
           q     == push_onestr(r, d, index)
<1>0. r \in Reassemblers /\ Flowing(r.output) /\ f = r.output.bytes_written /\ f <= StreamLen
  BY DEF Loose
<1>a. f \in Nat /\ r.output \in ByteStreams
  BY <1>0 DEF Reassemblers
<1>b. /\ r.output.bytes_read \in Nat /\ r.output.buffer \in Seq(Nat)
      /\ f = r.output.bytes_read + Len(r.output.buffer)
  BY <1>0, <1>a DEF ByteStreams, Flowing, Orderly
<1>1. /\ Len(r.output.buffer) \in Nat /\ Len(r.output.buffer) <= Capacity
      /\ Capacity \in Nat /\ StreamLen \in Nat
      /\ d \in Seq(Nat) /\ Len(d) \in Nat
  BY SMTT(30), <1>0, <1>b, PeerStreamAssumption DEF Flowing, Orderly, IsExcerpt
<1>2. IsExcerpt(<< >>, f) /\ Len(<< >>) = 0
  BY EmptySeq DEF IsExcerpt
<1>3. /\ IsExcerpt(new, f)
      /\ Len(new) = IF index > f \/ f - index >= Len(d) THEN 0 ELSE (index + Len(d)) - f
  <2>1. CASE index > f
    BY <1>2, <2>1
  <2>2. CASE ~(index > f)
    <3>1. f - index \in Nat /\ index + (f - index) = f
      BY <1>a, <2>2
    <3>2. /\ IsExcerpt(Substr(d, f - index, Len(d)), index + (f - index))
          /\ Len(Substr(d, f - index, Len(d))) =
               IF f - index >= Len(d) THEN 0
               ELSE IF (f - index) + Len(d) > Len(d) THEN Len(d) - (f - index) ELSE Len(d)
      BY Zenon, <1>1, <3>1, SubstrExcerpt
    <3>3. new = Substr(d, f - index, Len(d))
      BY <2>2
    <3> HIDE DEF f, new
    <3> QED BY SMTT(30), <1>1, <1>a, <2>2, <3>1, <3>2, <3>3
  <2> QED BY SMTT(30), <2>1, <2>2
<1>4. new \in Seq(Nat) /\ Len(new) \in Nat
  BY <1>3 DEF IsExcerpt
<1>5. Len(new) > 0 => /\ index <= f /\ Len(new) = (index + Len(d)) - f
                      /\ d # << >>
  <2> HIDE DEF f, new
  <2>1. Len(new) > 0 => /\ index <= f /\ Len(new) = (index + Len(d)) - f
                        /\ Len(d) > 0
    BY <1>a, <1>1, <1>3
  <2> QED BY <1>2, <2>1
<1>6. /\ Len(new) <= Capacity - Len(r.output.buffer)
      /\ f + Len(new) <= StreamLen
  <2> HIDE DEF f, new
  <2>1. CASE Len(new) = 0
    BY <1>0, <1>a, <1>1, <2>1
  <2>2. CASE Len(new) > 0
    <3>1. /\ index + Len(d) <= r.output.bytes_read + Capacity
          /\ index + Len(d) <= StreamLen
          /\ Len(new) = (index + Len(d)) - f
      BY <1>5, <2>2
    <3>2. Len(new) <= Capacity - Len(r.output.buffer)
      <4>1. \A a, b, c, x, n \in Nat : (a + b) + n = x /\ x <= a + c => n <= c - b
        OBVIOUS
      <4>2. (r.output.bytes_read + Len(r.output.buffer)) + Len(new) = index + Len(d)
        BY <1>a, <1>b, <1>1, <1>4, <3>1
      <4>3. index + Len(d) \in Nat
        BY <1>1
      <4> QED BY Zenon, <1>b, <1>1, <1>4, <3>1, <4>1, <4>2, <4>3
    <3>3. f + Len(new) <= StreamLen
      BY <1>a, <1>1, <1>4, <3>1
    <3> QED BY <3>2, <3>3
  <2> QED BY <1>4, <2>1, <2>2
<1>7. r.output.input_end => new = << >>
  <2>1. ASSUME r.output.input_end PROVE Len(new) = 0
    <3>1. f = StreamLen
      BY <2>1 DEF Loose
    <3> HIDE DEF f, new
    <3> QED BY <1>a, <1>1, <1>4, <1>6, <3>1
  <2> HIDE DEF new
  <2> QED BY <2>1, <1>4, EmptySeq
<1> HIDE DEF new
<1>8. /\ Flowing(w) /\ w.bytes_written = f + Len(new)
      /\ w.bytes_read = r.output.bytes_read /\ w.input_end = r.output.input_end
  BY <1>0, <1>3, <1>6, <1>7, WriteExcerpt
<1> HIDE DEF w
<1>9. /\ moved \in Reassemblers
      /\ moved.output = w /\ moved.first_unassembled = f + Len(new)
      /\ moved.mapbuffer = r.mapbuffer /\ moved.has_eof = r.has_eof
      /\ moved.final_idx = r.final_idx
  <2>1. w \in ByteStreams /\ f + Len(new) \in Nat
    BY <1>a, <1>4, <1>8 DEF Flowing, Orderly
  <2>2. moved = [r EXCEPT !.output = w, !.first_unassembled = f + Len(new)]
    BY DEF w
  <2> QED BY Zenon, <1>0, <2>1, <2>2 DEF Reassemblers
<1>10. q = IF reach_end(moved) THEN [moved EXCEPT !.output = end_input(@)] ELSE moved
  BY DEF push_onestr, new
<1> HIDE DEF moved, q
<1>11. /\ q \in Reassemblers /\ Flowing(q.output)
       /\ q.output.bytes_written = f + Len(new) /\ q.first_unassembled = f + Len(new)
       /\ q.output.bytes_read = r.output.bytes_read
       /\ q.mapbuffer = r.mapbuffer /\ q.has_eof = r.has_eof
       /\ q.final_idx = r.final_idx
       /\ reach_end(moved) => q.output.input_end
       /\ q.output.input_end => w.input_end \/ reach_end(moved)
  <2>1. CASE reach_end(moved)
    <3>1. q = [moved EXCEPT !.output = end_input(w)]
      BY <1>9, <1>10, <2>1
    <3>2. Flowing(end_input(w)) /\ end_input(w) \in ByteStreams /\ end_input(w).input_end
          /\ end_input(w).bytes_read = w.bytes_read /\ end_input(w).bytes_written = w.bytes_written
      BY <1>8, EndInputFlowing DEF Flowing, Orderly
    <3>3. /\ q \in Reassemblers /\ q.output = end_input(w)
          /\ q.first_unassembled = moved.first_unassembled
          /\ q.mapbuffer = moved.mapbuffer /\ q.has_eof = moved.has_eof
          /\ q.final_idx = moved.final_idx
      BY <1>9, <3>1, <3>2 DEF Reassemblers
    <3> QED BY <1>8, <1>9, <2>1, <3>2, <3>3
  <2>2. CASE ~reach_end(moved)
    BY <1>8, <1>9, <1>10, <2>2
  <2> QED BY <2>1, <2>2
<1>12. reach_end(moved) <=> (r.has_eof /\ f + Len(new) = StreamLen)
  BY <1>9 DEF reach_end, Loose
<1>13. Loose(q)
  <2>1. q.first_unassembled <= StreamLen
    BY <1>6, <1>11
  <2>2. q.has_eof => SizeAdd(q.final_idx, 1) = StreamLen
    BY <1>11 DEF Loose
  <2>3. q.output.input_end => q.has_eof /\ q.first_unassembled = StreamLen
    <3>1. w.input_end => r.has_eof /\ f + Len(new) = StreamLen
      <4>1. w.input_end => r.has_eof /\ f = StreamLen
        BY <1>8 DEF Loose
      <4> HIDE DEF f
      <4> QED BY <1>a, <1>1, <1>4, <1>6, <4>1
    <3> QED BY <1>11, <1>12, <3>1
  <2>4. \A e \in q.mapbuffer : EntryOK(e, q.output.bytes_read + Capacity)
    BY <1>11 DEF Loose
  <2> QED BY <1>11, <2>1, <2>2, <2>3, <2>4 DEF Loose
<1>14. Ended(q)
  BY <1>11, <1>12 DEF Ended
<1>15. /\ q.first_unassembled >= f
       /\ (index <= f /\ index + Len(d) >= f) => q.first_unassembled = index + Len(d)
  <2> HIDE DEF f
  <2>1. q.first_unassembled = f + Len(new)
    BY <1>11
  <2>2. q.first_unassembled >= f
    BY <1>a, <1>4, <2>1
  <2>3. ASSUME index <= f, index + Len(d) >= f PROVE Len(new) = (index + Len(d)) - f
    <3>1. CASE f - index >= Len(d)
      BY <1>a, <1>1, <1>3, <2>3, <3>1
    <3>2. CASE ~(f - index >= Len(d))
      BY <1>a, <1>1, <1>3, <2>3, <3>2
    <3> QED BY <3>1, <3>2
  <2>4. ASSUME index <= f, index + Len(d) >= f PROVE q.first_unassembled = index + Len(d)
    BY <1>a, <1>1, <2>1, <2>3, <2>4
  <2> QED BY <2>2, <2>4
<1> QED
  BY <1>11, <1>13, <1>14, <1>15 DEF q

--------------------------------------------------------------------------------
(***************************************************************************)
(* What is known of a stored substring that holds index n.                 *)
(***************************************************************************)
LEMMA EntryFacts ==
    ASSUME NEW r, Loose(r), NEW e \in r.mapbuffer
    PROVE  /\ e[1] \in Nat /\ e[2] \in Seq(Nat) /\ Len(e[2]) \in Nat
           /\ IsExcerpt(e[2], e[1])
           /\ \A n \in Nat : Holds(e, n) =>
                 /\ e[1] + Len(e[2]) <= r.output.bytes_read + Capacity
                 /\ e[1] + Len(e[2]) <= StreamLen
                 /\ e[2][(n - e[1]) + 1] = n
<1>1. r \in Reassemblers
  BY DEF Loose
<1>2. e \in SizeT \X Seq(Nat)
  BY <1>1 DEF Reassemblers
<1>3. e[1] \in Nat /\ e[2] \in Seq(Nat) /\ Len(e[2]) \in Nat
  BY <1>2, SizeModAssumption DEF SizeT
<1>4. EntryOK(e, r.output.bytes_read + Capacity)
  BY DEF Loose
<1>5. ASSUME NEW n \in Nat, Holds(e, n)
      PROVE  e[2] # << >> /\ e[2][(n - e[1]) + 1] = n
  <2>1. (n - e[1]) + 1 \in 1 .. Len(e[2])
    BY <1>3, <1>5 DEF Holds
  <2>2. e[2][(n - e[1]) + 1] = (e[1] + ((n - e[1]) + 1)) - 1
    BY <1>4, <2>1 DEF EntryOK, IsExcerpt
  <2>3. Len(e[2]) # 0
    BY <1>3, <2>1
  <2> QED BY <1>3, <2>2, <2>3, EmptySeq
<1> QED
  BY <1>3, <1>4, <1>5 DEF EntryOK

(***************************************************************************)
(* The loop of push_substring stops at an index no stored substring holds, *)
(* and that index is inside the window and the stream.                     *)
(***************************************************************************)
LEMMA FirstGapIsAGap ==
    ASSUME NEW r, Loose(r)
    PROVE  LET f == r.first_unassembled
               g == FirstGap(r)
           IN  /\ g \in Nat /\ g >= f /\ ~Stored(r, g)
               /\ \A m \in f .. (g - 1) : Stored(r, m)
               /\ g > f => /\ g <= r.output.bytes_read + Capacity
                           /\ g <= StreamLen
<1> DEFINE f == r.first_unassembled
           top == r.output.bytes_read + Capacity
           T == {n \in Nat : n >= f /\ ~Stored(r, n)}
           C == {r.first_unassembled} \cup {e[1] + Len(e[2]) : e \in r.mapbuffer}
           Gap(n) == /\ n >= r.first_unassembled
                     /\ ~Stored(r, n)
                     /\ \A m \in r.first_unassembled .. (n - 1) : Stored(r, m)
<1>1. f \in Nat /\ top \in Nat /\ StreamLen \in Nat
  BY PeerStreamAssumption DEF Loose, Reassemblers, ByteStreams
<1>2. f + top \in T
  <2>1. ASSUME NEW e \in r.mapbuffer, Holds(e, f + top) PROVE FALSE
    <3>1. f + top \in Nat /\ e[1] \in Nat /\ Len(e[2]) \in Nat
      BY <1>1, EntryFacts
    <3>2. e[1] + Len(e[2]) <= top
      BY <2>1, <3>1, EntryFacts
    <3>3. f + top < e[1] + Len(e[2])
      BY <2>1 DEF Holds
    <3> HIDE DEF f, top
    <3> QED BY <1>1, <3>1, <3>2, <3>3
  <2>2. ~Stored(r, f + top)
    BY <2>1 DEF Stored
  <2> HIDE DEF f, top
  <2> QED BY <1>1, <2>2
<1>3. PICK x \in T : \A y \in T : x <= y
  BY Zenon, <1>2, LeastNat
<1>4. x \in Nat /\ x >= f /\ ~Stored(r, x)
  BY <1>3
<1>5. \A m \in f .. (x - 1) : Stored(r, m)
  <2>1. ASSUME NEW m \in f .. (x - 1), ~Stored(r, m) PROVE FALSE
    <3>1. m \in Nat /\ m >= f /\ m < x
      BY <1>1, <1>4
    <3>2. m \in T
      BY <2>1, <3>1
    <3> QED BY <1>3, <1>4, <3>1, <3>2
  <2> QED BY <2>1
<1>6. \A n \in Nat : n > f /\ ~Stored(r, n) /\ Stored(r, n - 1) =>
         /\ \E e \in r.mapbuffer : n = e[1] + Len(e[2])
         /\ n <= top /\ n <= StreamLen
  <2>1. SUFFICES ASSUME NEW n \in Nat, n > f, ~Stored(r, n), Stored(r, n - 1)
                 PROVE  /\ \E e \in r.mapbuffer : n = e[1] + Len(e[2])
                        /\ n <= top /\ n <= StreamLen
    OBVIOUS
  <2>2. PICK e \in r.mapbuffer : Holds(e, n - 1)
    BY <2>1 DEF Stored
  <2>3. ~Holds(e, n)
    BY <2>1 DEF Stored
  <2>4. n - 1 \in Nat /\ e[1] \in Nat /\ Len(e[2]) \in Nat
    BY <1>1, <2>1, EntryFacts
  <2>5. n = e[1] + Len(e[2])
    BY <2>2, <2>3, <2>4 DEF Holds
  <2>6. e[1] + Len(e[2]) <= top /\ e[1] + Len(e[2]) <= StreamLen
    BY <2>2, <2>4, EntryFacts
  <2> QED BY <2>5, <2>6
<1>7. x \in C /\ Gap(x)
  <2>1. CASE x = f
    BY <1>4, <1>5, <2>1
  <2>2. CASE x > f
    <3>1. x - 1 \in f .. (x - 1)
      BY <1>1, <1>4, <2>2
    <3>2. \E e \in r.mapbuffer : x = e[1] + Len(e[2])
      BY <1>4, <1>5, <1>6, <2>2, <3>1
    <3> QED BY <1>4, <1>5, <3>2
  <2> QED BY <1>1, <1>4, <2>1, <2>2
<1>8. FirstGap(r) = CHOOSE n \in C : Gap(n)
  BY DEF FirstGap
<1>9. FirstGap(r) \in C /\ Gap(FirstGap(r))
  <2> HIDE DEF C, Gap
  <2> QED BY <1>7, <1>8
<1>10. FirstGap(r) \in Nat
  <2>1. \A e \in r.mapbuffer : e[1] + Len(e[2]) \in Nat
    BY EntryFacts
  <2> QED BY <1>1, <1>9, <2>1
<1> DEFINE g == FirstGap(r)
<1>11. ASSUME g > f PROVE g <= top /\ g <= StreamLen
  <2>1. g - 1 \in f .. (g - 1)
    <3>1. g \in Nat
      BY <1>10
    <3> HIDE DEF g, f
    <3> QED BY <1>1, <1>11, <3>1
  <2>2. Stored(r, g - 1) /\ ~Stored(r, g)
    BY <1>9, <2>1
  <2> QED BY <1>6, <1>10, <1>11, <2>2
<1> QED
  BY <1>9, <1>10, <1>11

(***************************************************************************)
(* Whichever stored substring the loop takes index n from, it is byte n.   *)
(***************************************************************************)
LEMMA StoredByteIsByte ==
    ASSUME NEW r, Loose(r), NEW n \in Nat, Stored(r, n)
    PROVE  StoredByte(r, n) = n
<1> DEFINE First(e) == /\ Holds(e, n)
                       /\ \A f \in r.mapbuffer : Holds(f, n) => e[1] <= f[1]
           T == {e[1] : e \in {f \in r.mapbuffer : Holds(f, n)}}
<1>1. T \subseteq Nat
  BY EntryFacts
<1>2. T # {}
  BY Zenon DEF Stored
<1>3. PICK x \in T : \A y \in T : x <= y
  BY Zenon, <1>1, <1>2, LeastNat
<1>4. \E e \in r.mapbuffer : First(e)
  BY <1>3
<1> DEFINE e == CHOOSE e \in r.mapbuffer : First(e)
<1>5. e \in r.mapbuffer /\ Holds(e, n)
  BY <1>4
<1>6. StoredByte(r, n) = e[2][n - e[1] + 1]
  BY DEF StoredByte
<1> HIDE DEF e
<1> QED
  BY <1>5, <1>6, EntryFacts

(***************************************************************************)
(* The loop of push_substring keeps what holds between its statements, and *)
(* leaves nothing that could be read out.                                  *)
(***************************************************************************)
LEMMA ReadOutSettles ==
    ASSUME NEW r, Loose(r), Ended(r)
    PROVE  /\ Loose(ReadOut(r)) /\ Ended(ReadOut(r)) /\ Settled(ReadOut(r))
           /\ ReadOut(r).output.bytes_read = r.output.bytes_read
           /\ ReadOut(r).has_eof = r.has_eof
<1> DEFINE f    == r.first_unassembled
           g    == FirstGap(r)
           run  == [k \in 1 .. (g - f) |-> StoredByte(r, f + k - 1)]
           rest == {e \in r.mapbuffer : ~Assemblable(g, e[2], e[1])}
           p    == [r EXCEPT !.mapbuffer = rest]
<1>1. CASE \A e \in r.mapbuffer : ~Assemblable(f, e[2], e[1])
  BY <1>1 DEF ReadOut, Settled
<1>2. CASE ~(\A e \in r.mapbuffer : ~Assemblable(f, e[2], e[1]))
  <2>1. ReadOut(r) = push_onestr(p, run, f)
    BY <1>2 DEF ReadOut
  <2>2. f \in Nat /\ r \in Reassemblers
    BY DEF Loose, Reassemblers
  <2>3. /\ g \in Nat /\ g >= f
        /\ \A m \in f .. (g - 1) : Stored(r, m)
        /\ g > f => g <= r.output.bytes_read + Capacity /\ g <= StreamLen
    BY FirstGapIsAGap
  <2>4. /\ p \in Reassemblers /\ p.output = r.output /\ p.mapbuffer = rest
        /\ p.first_unassembled = f /\ p.has_eof = r.has_eof
        /\ p.final_idx = r.final_idx
    BY <2>2 DEF Reassemblers
  <2>5. Loose(p)
    BY <2>4 DEF Loose
  <2> HIDE DEF f, g, p, rest
  <2>6. \A k \in 1 .. (g - f) : run[k] = (f + k) - 1 /\ run[k] \in Nat
    <3>1. SUFFICES ASSUME NEW k \in 1 .. (g - f)
                   PROVE  run[k] = (f + k) - 1 /\ run[k] \in Nat
      OBVIOUS
    <3>2. (f + k) - 1 \in f .. (g - 1) /\ (f + k) - 1 \in Nat
      BY <2>2, <2>3
    <3>3. StoredByte(r, (f + k) - 1) = (f + k) - 1
      BY <2>3, <3>2, StoredByteIsByte
    <3>4. run[k] = StoredByte(r, f + k - 1)
      OBVIOUS
    <3>5. f + k - 1 = (f + k) - 1
      BY <2>2, <2>3
    <3> HIDE DEF run
    <3> QED BY <3>2, <3>3, <3>4, <3>5
  <2>7. g - f \in Nat
    BY <2>2, <2>3
  <2>8. run \in Seq(Nat) /\ Len(run) = g - f
    <3>1. run \in [1 .. (g - f) -> Nat]
      BY <2>6
    <3> HIDE DEF run
    <3> QED BY <2>7, <3>1
  <2>9. IsExcerpt(run, f)
    <3> HIDE DEF run
    <3> QED BY <2>6, <2>8 DEF IsExcerpt
  <2> HIDE DEF run
  <2>10. f + Len(run) = g
    BY <2>2, <2>3, <2>8
  <2>11. run # << >> => /\ f + Len(run) <= p.output.bytes_read + Capacity
                        /\ f + Len(run) <= StreamLen
    <3>1. run # << >> => Len(run) # 0
      BY <2>8, EmptySeq
    <3>2. run # << >> => g > f
      BY <2>2, <2>3, <2>8, <3>1
    <3> QED BY <2>3, <2>4, <2>10, <3>2
  <2> DEFINE q == push_onestr(p, run, f)
  <2>12. /\ Loose(q) /\ Ended(q) /\ q.mapbuffer = rest
         /\ q.output.bytes_read = r.output.bytes_read
         /\ q.has_eof = r.has_eof
         /\ (f <= f /\ f + Len(run) >= f) => q.first_unassembled = f + Len(run)
    BY <2>2, <2>4, <2>5, <2>9, <2>11, PushOne
  <2> HIDE DEF q
  <2>13. q.first_unassembled = g
    BY <2>2, <2>3, <2>10, <2>12
  <2>14. Settled(q)
    BY <2>12, <2>13 DEF Settled, rest
  <2> QED BY <2>1, <2>12, <2>14 DEF q
<1> QED
  BY <1>1, <1>2

(***************************************************************************)
(* truncation_data keeps the part of an excerpt that is inside the window, *)
(* when the excerpt starts inside it; an empty string stays empty wherever *)
(* it lies, though the subtractions wrap.                                  *)
(***************************************************************************)
LEMMA TruncationExcerpt ==
    ASSUME NEW r, Loose(r), NEW d, NEW index \in SizeT, IsExcerpt(d, index),
           d # << >> => /\ index + Len(d) <= StreamLen
                        /\ index <= get_first_unacceptable(r)
    PROVE  LET new == truncation_data(r, d, index)
           IN  /\ IsExcerpt(new, index)
               /\ new # << >> => /\ index + Len(new) <= r.output.bytes_read + Capacity
                                 /\ index + Len(new) <= StreamLen
<1> DEFINE fua == get_first_unacceptable(r)
           final == r.final_idx
           cut == IF r.has_eof /\ SizeAdd(index, Len(d)) > SizeAdd(final, 1)
                  THEN Substr(d, 0, SizeAdd(SizeSub(final, index), 1)) ELSE d
           new == IF SizeAdd(index, Len(cut)) > fua
                  THEN Substr(cut, 0, SizeSub(fua, index)) ELSE cut
<1>0. truncation_data(r, d, index) = new
  BY DEF truncation_data
<1>1. r \in Reassemblers /\ Flowing(r.output) /\ r.first_unassembled <= StreamLen
      /\ r.first_unassembled = r.output.bytes_written
  BY DEF Loose
<1>2. r.output \in ByteStreams /\ final \in SizeT
  BY <1>1 DEF Reassemblers
<1>3. /\ r.output.bytes_read \in Nat /\ Len(r.output.buffer) \in Nat
      /\ Len(r.output.buffer) <= Capacity
      /\ r.first_unassembled = r.output.bytes_read + Len(r.output.buffer)
      /\ r.output.capacity = Capacity
  BY <1>1, <1>2 DEF Flowing, Orderly, ByteStreams
<1>4. fua = r.output.bytes_read + Capacity /\ fua \in Nat /\ fua < SizeMod
  <2>1. \A a, b, c \in Nat : (c - b) + (a + b) = a + c
    OBVIOUS
  <2>2. fua = (Capacity - Len(r.output.buffer))
                + (r.output.bytes_read + Len(r.output.buffer))
    BY <1>3 DEF get_first_unacceptable, remaining_capacity
  <2>3. fua = r.output.bytes_read + Capacity
    BY <1>3, <2>1, <2>2, PeerStreamAssumption
  <2>4. r.output.bytes_read <= StreamLen
    BY <1>1, <1>3, PeerStreamAssumption
  <2> HIDE DEF fua
  <2> QED BY <1>3, <2>3, <2>4, SizeModAssumption, PeerStreamAssumption, SMTT(20)
<1>5. /\ index \in Nat /\ index < SizeMod /\ d \in Seq(Nat) /\ Len(d) \in Nat
      /\ final \in Nat /\ final < SizeMod /\ SizeMod \in Nat /\ StreamLen \in Nat
      /\ SizeMod > StreamLen
  BY <1>2, SizeModAssumption, PeerStreamAssumption DEF SizeT, IsExcerpt
<1>6. SizeSub(fua, index) \in Nat /\ SizeAdd(SizeSub(final, index), 1) \in Nat
  <2> HIDE DEF fua, final
  <2>1. SizeSub(fua, index) \in Nat /\ SizeSub(final, index) \in Nat
    BY <1>4, <1>5, SMTT(20) DEF SizeSub
  <2> QED BY <1>5, <2>1 DEF SizeAdd
<1>7. index + 0 = index
  BY <1>5
<1> HIDE DEF fua, final
<1>8. CASE d = << >>
  <2>1. Len(d) = 0
    BY <1>8, EmptySeq
  <2>2. IsExcerpt(cut, index) /\ Len(cut) = 0
    <3>1. /\ IsExcerpt(Substr(d, 0, SizeAdd(SizeSub(final, index), 1)), index + 0)
          /\ Len(Substr(d, 0, SizeAdd(SizeSub(final, index), 1))) = 0
      BY <1>5, <1>6, <2>1, SubstrExcerpt
    <3> QED BY <1>7, <2>1, <3>1
  <2> HIDE DEF cut
  <2>3. IsExcerpt(new, index) /\ Len(new) = 0
    <3>1. /\ IsExcerpt(Substr(cut, 0, SizeSub(fua, index)), index + 0)
          /\ Len(Substr(cut, 0, SizeSub(fua, index))) = 0
      BY <1>5, <1>6, <2>2, SubstrExcerpt
    <3> QED BY <1>7, <2>2, <3>1
  <2> HIDE DEF new
  <2>4. new = << >>
    BY <2>3, EmptySeq DEF IsExcerpt
  <2> QED BY <1>0, <2>3, <2>4
<1>9. CASE d # << >>
  <2>1. index + Len(d) <= StreamLen /\ index <= fua
    BY <1>9 DEF fua
  <2>2. SizeAdd(index, Len(d)) = index + Len(d)
    BY <1>5, <2>1 DEF SizeAdd
  <2>3. r.has_eof => SizeAdd(final, 1) = StreamLen
    BY DEF Loose, final
  <2>4. cut = d
    <3>1. r.has_eof => ~(SizeAdd(index, Len(d)) > SizeAdd(final, 1))
      BY <1>5, <2>1, <2>2, <2>3
    <3> QED BY <3>1
  <2>5. SizeSub(fua, index) = fua - index /\ fua - index \in Nat
    BY <1>4, <1>5, <2>1 DEF SizeSub
  <2>6. new = IF index + Len(d) > fua THEN Substr(d, 0, fua - index) ELSE d
    BY <2>2, <2>4, <2>5
  <2> HIDE DEF new, cut
  <2>7. CASE index + Len(d) > fua
    <3>1. /\ IsExcerpt(Substr(d, 0, fua - index), index + 0)
          /\ Len(Substr(d, 0, fua - index)) =
                IF 0 >= Len(d) THEN 0
                ELSE IF 0 + (fua - index) > Len(d) THEN Len(d) - 0 ELSE fua - index
      BY Zenon, <1>5, <2>5, SubstrExcerpt
    <3>2. new = Substr(d, 0, fua - index)
      BY <2>6, <2>7
    <3>3. IsExcerpt(new, index)
      BY <1>7, <3>1, <3>2
    <3>4. Len(new) = IF Len(d) = 0 THEN 0 ELSE fua - index
      BY <1>4, <1>5, <2>1, <2>5, <2>7, <3>1, <3>2, SMTT(20)
    <3>5. Len(d) # 0
      BY <1>5, <1>9, EmptySeq
    <3>6. index + Len(new) = fua
      BY <1>4, <1>5, <2>5, <3>4, <3>5
    <3>7. fua <= StreamLen
      BY <1>4, <1>5, <2>1, <2>7
    <3> QED BY <1>0, <1>4, <3>3, <3>6, <3>7
  <2>8. CASE ~(index + Len(d) > fua)
    <3>1. new = d
      BY <2>6, <2>8
    <3>2. index + Len(d) <= fua
      BY <1>4, <1>5, <2>8
    <3> QED BY <1>0, <1>4, <2>1, <3>1, <3>2
  <2> QED BY <2>7, <2>8
<1> QED
  BY <1>8, <1>9

(***************************************************************************)
(* push_substring keeps what holds between calls.                          *)
(***************************************************************************)
LEMMA PushSubstringKeeps ==
    ASSUME NEW r, Loose(r), Ended(r), NEW d, NEW index \in SizeT, IsExcerpt(d, index),
           NEW isEof \in BOOLEAN, isEof => index + Len(d) = StreamLen,
           d # << >> => /\ index + Len(d) <= StreamLen
                        /\ index <= get_first_unacceptable(r)
    PROVE  LET q == push_substring(r, d, index, isEof)
           IN  /\ Good(q)
               /\ q.output.bytes_read = r.output.bytes_read
               /\ q.has_eof = (r.has_eof \/ isEof)
<1> DEFINE noted  == NoteEof(r, d, index, isEof)
           new    == truncation_data(noted, d, index)
           pushed == IF Assemblable(noted.first_unassembled, new, index)
                     THEN push_onestr(noted, new, index) ELSE noted
           q      == Insert(r, d, index, isEof)
<1>1. /\ index \in Nat /\ index < SizeMod /\ d \in Seq(Nat) /\ Len(d) \in Nat
      /\ SizeMod \in Nat /\ StreamLen \in Nat /\ SizeMod > StreamLen + 1
  BY SizeModAssumption, PeerStreamAssumption DEF SizeT, IsExcerpt
<1>2. isEof => LET final == SizeSub(SizeAdd(index, Len(d)), 1)
               IN  final \in SizeT /\ SizeAdd(final, 1) = StreamLen
  <2>1. SUFFICES ASSUME isEof
                 PROVE  LET final == SizeSub(SizeAdd(index, Len(d)), 1)
                        IN  final \in SizeT /\ SizeAdd(final, 1) = StreamLen
    OBVIOUS
  <2>2. SizeAdd(index, Len(d)) = StreamLen
    BY <1>1, <2>1 DEF SizeAdd
  <2>3. SizeSub(StreamLen, 1) = IF StreamLen = 0 THEN SizeMod - 1 ELSE StreamLen - 1
    BY <1>1 DEF SizeSub
  <2> QED BY <1>1, <2>2, <2>3 DEF SizeAdd, SizeT
<1>3. /\ noted \in Reassemblers /\ noted.output = r.output
      /\ noted.mapbuffer = r.mapbuffer
      /\ noted.first_unassembled = r.first_unassembled
      /\ noted.has_eof = (r.has_eof \/ isEof)
      /\ noted.has_eof => SizeAdd(noted.final_idx, 1) = StreamLen
  <2>1. r \in Reassemblers /\ (r.has_eof => SizeAdd(r.final_idx, 1) = StreamLen)
    BY DEF Loose
  <2>2. r.has_eof \in BOOLEAN
    BY <2>1 DEF Reassemblers
  <2>3. CASE isEof
    BY Zenon, <1>2, <2>1, <2>2, <2>3 DEF NoteEof, Reassemblers
  <2>4. CASE ~isEof
    BY <2>1, <2>2, <2>4 DEF NoteEof
  <2> QED BY <2>3, <2>4
<1> HIDE DEF noted
<1>4. Loose(noted)
  BY Zenon, <1>3 DEF Loose
<1>5. get_first_unacceptable(noted) = get_first_unacceptable(r)
  BY <1>3 DEF get_first_unacceptable
<1>6. /\ IsExcerpt(new, index)
      /\ new # << >> => /\ index + Len(new) <= r.output.bytes_read + Capacity
                        /\ index + Len(new) <= StreamLen
  BY <1>3, <1>4, <1>5, TruncationExcerpt
<1> HIDE DEF new
<1>7. /\ Loose(pushed) /\ Ended(pushed) /\ pushed.mapbuffer = r.mapbuffer
      /\ pushed.output.bytes_read = r.output.bytes_read
      /\ pushed.has_eof = (r.has_eof \/ isEof)
  <2>1. CASE Assemblable(noted.first_unassembled, new, index)
    <3>1. /\ Loose(push_onestr(noted, new, index)) /\ Ended(push_onestr(noted, new, index))
          /\ push_onestr(noted, new, index).mapbuffer = noted.mapbuffer
          /\ push_onestr(noted, new, index).output.bytes_read = noted.output.bytes_read
          /\ push_onestr(noted, new, index).has_eof = noted.has_eof
      BY <1>1, <1>3, <1>4, <1>6, PushOne
    <3> QED BY <1>3, <2>1, <3>1
  <2>2. CASE ~Assemblable(noted.first_unassembled, new, index)
    <3>1. r.first_unassembled \in Nat
      BY DEF Loose, Reassemblers
    <3>2. index > r.first_unassembled
      BY <1>1, <1>3, <2>2, <3>1 DEF Assemblable
    <3>3. isEof => r.first_unassembled # StreamLen
      BY <1>1, <3>1, <3>2
    <3>4. Ended(noted)
      BY <1>3, <3>3 DEF Ended
    <3> QED BY <1>3, <1>4, <2>2, <3>4
  <2> QED BY <2>1, <2>2
<1>8. q = IF index > pushed.first_unassembled
          THEN [pushed EXCEPT !.mapbuffer = @ \cup {<<index, new>>}] ELSE pushed
  BY DEF Insert, noted, new
<1> HIDE DEF pushed, q
<1>9. /\ Loose(q) /\ Ended(q) /\ q.has_eof = (r.has_eof \/ isEof)
      /\ q.output.bytes_read = r.output.bytes_read
  <2>1. CASE ~(index > pushed.first_unassembled)
    BY <1>7, <1>8, <2>1
  <2>2. CASE index > pushed.first_unassembled
    <3>1. pushed \in Reassemblers /\ <<index, new>> \in SizeT \X Seq(Nat)
      BY <1>6, <1>7 DEF Loose, IsExcerpt
    <3>2. /\ q \in Reassemblers /\ q.output = pushed.output
          /\ q.mapbuffer = pushed.mapbuffer \cup {<<index, new>>}
          /\ q.first_unassembled = pushed.first_unassembled
          /\ q.has_eof = pushed.has_eof /\ q.final_idx = pushed.final_idx
      BY SMTT(30), <1>8, <2>2, <3>1 DEF Reassemblers
    <3>3. EntryOK(<<index, new>>, q.output.bytes_read + Capacity)
      BY SMTT(30), <1>6, <1>7, <3>2 DEF EntryOK
    <3>4. \A e \in q.mapbuffer : EntryOK(e, q.output.bytes_read + Capacity)
      BY <1>7, <3>2, <3>3 DEF Loose
    <3>5. Loose(q)
      BY <1>7, <3>2, <3>4 DEF Loose
    <3>6. Ended(q)
      BY <1>7, <3>2 DEF Ended
    <3> QED BY <1>7, <3>2, <3>5, <3>6
  <2> QED BY <2>1, <2>2
<1> QED
  BY <1>9, ReadOutSettles DEF push_substring, q, Good

(***************************************************************************)
(* A new reassembler holds nothing and waits for nothing.                  *)
(***************************************************************************)
LEMMA NewReassemblerGood == Good(NewReassembler(Capacity))
<1> DEFINE o == NewByteStream(Capacity)
           r == NewReassembler(Capacity)
<1>1. << >> \in Seq(Nat) /\ Len(<< >>) = 0 /\ IsExcerpt(<< >>, 0)
  BY EmptySeq DEF IsExcerpt
<1>2. Flowing(o) /\ o.bytes_written = 0 /\ o.input_end = FALSE /\ o \in ByteStreams
  BY <1>1, PeerStreamAssumption DEF Flowing, Orderly, NewByteStream, ByteStreams
<1>3. 0 \in SizeT
  BY SizeModAssumption DEF SizeT
<1>4. r = [output |-> o, has_eof |-> FALSE, final_idx |-> 0,
           mapbuffer |-> {}, first_unassembled |-> 0]
  BY DEF NewReassembler
<1> HIDE DEF o, r
<1>5. r \in Reassemblers
  BY <1>2, <1>3, <1>4 DEF Reassemblers
<1>6. Good(r)
  BY <1>2, <1>4, <1>5, PeerStreamAssumption DEF Good, Loose, Ended, Settled
<1> QED
  BY <1>6 DEF r

(***************************************************************************)
(* read() on the output stream opens the window and leaves everything else *)
(* as it was.                                                              *)
(***************************************************************************)
LEMMA ReadGood ==
    ASSUME NEW r, Good(r), NEW len \in Nat
    PROVE  LET q == [r EXCEPT !.output = AfterRead(@, len)]
           IN  /\ Good(q)
               /\ q.has_eof = r.has_eof
               /\ q.first_unassembled = r.first_unassembled
               /\ q.output.bytes_written = r.output.bytes_written
               /\ q.output.input_end = r.output.input_end
               /\ q.output.bytes_read >= r.output.bytes_read
<1> DEFINE o == AfterRead(r.output, len)
           n == Len(peek_output(r.output, len))
           q == [r EXCEPT !.output = o]
<1>1. Loose(r) /\ Ended(r) /\ Settled(r) /\ r \in Reassemblers /\ Flowing(r.output)
  BY DEF Good, Loose
<1>2. r.output \in ByteStreams /\ ~r.output.error /\ r.output.capacity = Capacity
  BY <1>1 DEF Flowing, Orderly
<1>3. /\ Orderly(o)
      /\ o = [r.output EXCEPT !.buffer = o.buffer, !.bytes_read = r.output.bytes_read + n]
      /\ n = IF len > Len(r.output.buffer) THEN Len(r.output.buffer) ELSE len
  BY Zenon, <1>1, <1>2, PopOrderly DEF Flowing, AfterRead
<1>4. /\ Len(r.output.buffer) \in Nat /\ r.output.bytes_read \in Nat /\ n \in Nat
  BY <1>2, <1>3 DEF ByteStreams
<1> HIDE DEF o, n
<1>5. /\ o.bytes_written = r.output.bytes_written
      /\ o.input_end = r.output.input_end
      /\ o.bytes_read = r.output.bytes_read + n
      /\ o.error = r.output.error
      /\ o.capacity = r.output.capacity
  BY Zenon, <1>2, <1>3 DEF ByteStreams
<1>6. Flowing(o) /\ o.bytes_read \in Nat /\ o.bytes_read >= r.output.bytes_read
  BY <1>2, <1>3, <1>4, <1>5 DEF Flowing, Orderly, ByteStreams
<1>7. /\ q \in Reassemblers /\ q.output = o
      /\ q.has_eof = r.has_eof /\ q.final_idx = r.final_idx
      /\ q.mapbuffer = r.mapbuffer /\ q.first_unassembled = r.first_unassembled
  BY <1>1, <1>6 DEF Flowing, Orderly, Reassemblers
<1> HIDE DEF q
<1>8. ASSUME NEW e \in r.mapbuffer
      PROVE  EntryOK(e, o.bytes_read + Capacity)
  <2>1. EntryOK(e, r.output.bytes_read + Capacity)
    BY <1>1 DEF Loose
  <2>2. e[1] \in Nat /\ Len(e[2]) \in Nat /\ Capacity \in Nat
    BY <1>1, EntryFacts, PeerStreamAssumption
  <2>3. e[1] + Len(e[2]) <= r.output.bytes_read + Capacity
          => e[1] + Len(e[2]) <= o.bytes_read + Capacity
    BY SMTT(30), <1>4, <1>6, <2>2
  <2> QED BY <2>1, <2>3 DEF EntryOK
<1>9. Loose(q)
  BY <1>1, <1>5, <1>6, <1>7, <1>8 DEF Loose
<1>10. Ended(q) /\ Settled(q)
  BY <1>1, <1>5, <1>7 DEF Ended, Settled
<1>11. Good(q) /\ q = [r EXCEPT !.output = AfterRead(@, len)]
  BY <1>9, <1>10 DEF Good, q, o
<1> QED
  BY <1>5, <1>6, <1>7, <1>11

(***************************************************************************)
(* In a good reassembler the FIN counts as reached exactly when the output *)
(* has ended, and the window ends Capacity bytes past what was read.       *)
(***************************************************************************)
LEMMA GoodFacts ==
    ASSUME NEW r, Good(r)
    PROVE  /\ reach_end(r) <=> r.output.input_end
           /\ r.first_unassembled = r.output.bytes_written
           /\ r.first_unassembled \in 0 .. StreamLen
           /\ r.output.bytes_read \in Nat
           /\ get_first_unacceptable(r) = r.output.bytes_read + Capacity
           /\ (Capacity - Len(r.output.buffer)) + r.first_unassembled
                 = r.output.bytes_read + Capacity
<1>1. /\ Loose(r) /\ Ended(r) /\ r \in Reassemblers /\ r.output \in ByteStreams
      /\ r.output.capacity = Capacity /\ r.first_unassembled = r.output.bytes_written
      /\ r.output.bytes_written = r.output.bytes_read + Len(r.output.buffer)
      /\ r.first_unassembled <= StreamLen
  BY DEF Good, Loose, Flowing, Orderly
<1>2. /\ r.output.bytes_read \in Nat /\ Len(r.output.buffer) \in Nat
      /\ r.first_unassembled \in Nat /\ Capacity \in Nat /\ StreamLen \in Nat
  BY <1>1, PeerStreamAssumption DEF Reassemblers, ByteStreams
<1>3. reach_end(r) <=> r.output.input_end
  BY <1>1 DEF reach_end, Loose, Ended
<1>4. (Capacity - Len(r.output.buffer)) + r.first_unassembled = r.output.bytes_read + Capacity
  BY <1>1, <1>2
<1>5. get_first_unacceptable(r) = r.output.bytes_read + Capacity
  BY <1>1, <1>4 DEF get_first_unacceptable, remaining_capacity
<1>6. r.first_unassembled \in 0 .. StreamLen
  BY <1>1, <1>2
<1> QED
  BY <1>1, <1>2, <1>3, <1>4, <1>5, <1>6
===============================================================================
