------------------------------ MODULE SenderLemmas ------------------------------
(***************************************************************************)
(* The inductive invariant of SenderSpec, and what fill_window does to a   *)
(* sender that satisfies it.                                               *)
(***************************************************************************)
EXTENDS SenderSpec, SharedLemmas, FiniteSetTheorems, FunctionTheorems

(***************************************************************************)
(* The stream stays on the first lap of the sequence space, and the widest *)
(* window with a segment in front of it on half a lap.                     *)
(***************************************************************************)
OneLap ==
    /\ StreamLen + 2 < SeqMod
    /\ \A w \in Windows \cup {1} : 2 * (w + MaxPayloadSize) <= SeqMod

\* The numbers sent so far: the SYN, the bytes read from the stream, the FIN.
Sent(s) ==
    IF s.SYN_sent THEN 1 + s.stream.bytes_read + (IF s.FIN_sent THEN 1 ELSE 0) ELSE 0

\* A segment that SegmentsAreHonest accepts, no longer than the code makes them.
Honest(seg, s) ==
    /\ seg \in Segments
    /\ Len(seg.payload) <= MaxPayloadSize
    /\ seg.seqno = wrap(seg.abs, s.isn)
    /\ \A k \in 1 .. Len(seg.payload) : seg.payload[k] = (seg.abs + k) - 2
    /\ EndOf(seg) <= s.next_seqno
    /\ seg.syn <=> (seg.abs = 0 /\ EndOf(seg) = 1)
    /\ seg.fin => /\ s.stream.input_end
                  /\ EndOf(seg) = s.stream.bytes_written + 2

AllHonest(q, s) == q \in Seq(Segments) /\ \A i \in 1 .. Len(q) : Honest(q[i], s)

\* Segments that follow each other without gap or overlap up to number hi.
Tiles(q, hi) ==
    /\ q \in Seq(Segments)
    /\ \A i \in 1 .. Len(q) : q[i].abs < EndOf(q[i]) /\ EndOf(q[i]) <= hi
    /\ \A i \in 1 .. Len(q) : i + 1 <= Len(q) => q[i + 1].abs = EndOf(q[i])
    /\ \A i, j \in 1 .. Len(q) : i < j => EndOf(q[i]) <= q[j].abs
    /\ q # << >> => EndOf(q[Len(q)]) = hi

\* What the sender knows of its stream and of its numbers.
Counts(s) ==
    /\ s \in Senders
    /\ Orderly(s.stream)
    /\ ~s.stream.error
    /\ s.stream.bytes_written <= StreamLen
    /\ s.next_seqno = Sent(s)
    /\ ~s.SYN_sent => s.stream.bytes_read = 0 /\ ~s.FIN_sent
    /\ s.FIN_sent => s.stream.input_end /\ s.stream.buffer = << >>
    /\ s.abs_ackno <= s.next_seqno
    /\ 2 * ((s.next_seqno - s.abs_ackno) + MaxPayloadSize) <= SeqMod
    /\ s.window_size \in Windows \cup {1}

\* The backup queue starts with the segment that holds the first number not
\* acknowledged.
Outstanding(s) ==
    LET q == s.segments_backup
    IN  /\ Tiles(q, s.next_seqno)
        /\ q = << >> => s.abs_ackno = s.next_seqno
        /\ q # << >> => q[1].abs <= s.abs_ackno /\ s.abs_ackno < EndOf(q[1])

Timed(s) ==
    /\ s.initial_retransmission_timeout = RtTimeout
    /\ s.retransmission_timeout > 0
    /\ s.retransmission_timeout = RtTimeout * 2 ^ s.consecutive_retransmissions
    /\ s.timer.active <=> s.segments_backup # << >>
    /\ ~s.timer.expired
    /\ s.timer.active => s.timer.time_passed < s.timer.RTO

Sound(s) ==
    /\ Counts(s)
    /\ Outstanding(s)
    /\ Timed(s)
    /\ AllHonest(s.segments_out, s)
    /\ AllHonest(s.segments_backup, s)

IInv == Sound(sender)

--------------------------------------------------------------------------------
(***************************************************************************)
(* Powers of two, by counting the subsets of an interval.                  *)
(***************************************************************************)
LEMMA PowerOfTwo ==
    2 ^ 0 = 1 /\ \A n \in Nat : 2 ^ n \in Nat /\ 2 ^ (n + 1) = 2 * 2 ^ n
<1>1. 2 ^ 0 = 1
  OBVIOUS
<1>2. ASSUME NEW n \in Nat
      PROVE  2 ^ n \in Nat /\ 2 ^ (n + 1) = 2 * 2 ^ n
  <2> DEFINE S == 1 .. n
             T == 1 .. (n + 1)
             A == SUBSET S
             B == {x \in SUBSET T : n + 1 \in x}
             f == [x \in A |-> x \cup {n + 1}]
  <2>1. /\ IsFiniteSet(S) /\ Cardinality(S) = n
        /\ IsFiniteSet(T) /\ Cardinality(T) = n + 1
    BY FS_Interval
  <2>2. /\ IsFiniteSet(A) /\ Cardinality(A) = 2 ^ n
        /\ IsFiniteSet(SUBSET T) /\ Cardinality(SUBSET T) = 2 ^ (n + 1)
    BY Zenon, <2>1, FS_SUBSET
  <2>3. Cardinality(A) \in Nat
    BY <2>2, FS_CardinalityType
  <2>4. n + 1 \notin S /\ T = S \cup {n + 1}
    OBVIOUS
  <2>5. SUBSET T = A \cup B /\ A \cap B = {}
    <3> HIDE DEF S, T
    <3> QED BY Zenon, <2>4
  <2>6. ExistsBijection(A, B)
    <3> HIDE DEF S, T
    <3>1. f \in [A -> B]
      BY Zenon, <2>4
    <3>2. \A x, y \in A : f[x] = f[y] => x = y
      <4>1. SUFFICES ASSUME NEW x \in A, NEW y \in A, f[x] = f[y] PROVE x = y
        BY Zenon
      <4>2. x \cup {n + 1} = y \cup {n + 1}
        BY <4>1
      <4>3. n + 1 \notin x /\ n + 1 \notin y
        BY Zenon, <2>4
      <4>4. x = (x \cup {n + 1}) \ {n + 1} /\ y = (y \cup {n + 1}) \ {n + 1}
        BY Zenon, <4>3
      <4> QED BY Zenon, <4>2, <4>4
    <3>3. ASSUME NEW z \in B PROVE \E x \in A : f[x] = z
      <4>1. z \ {n + 1} \in A
        BY Zenon, <2>4
      <4>2. (z \ {n + 1}) \cup {n + 1} = z
        BY Zenon
      <4>3. f[z \ {n + 1}] = z
        BY <4>1, <4>2
      <4> QED BY Zenon, <4>1, <4>3
    <3> HIDE DEF A, B, f
    <3>4. f \in Bijection(A, B)
      BY Zenon, <3>1, <3>2, <3>3, Fun_IsBij
    <3> QED BY <3>4 DEF ExistsBijection
  <2>7. IsFiniteSet(B) /\ Cardinality(B) = Cardinality(A)
    <3> HIDE DEF A, B
    <3> QED BY <2>2, <2>6, FS_Bijection
  <2>8. Cardinality(A \cap B) = 0
    <3> HIDE DEF A, B
    <3> QED BY Zenon, <2>5, FS_EmptySet
  <2>9. Cardinality(A \cup B) = Cardinality(A) + Cardinality(B) - Cardinality(A \cap B)
    <3> HIDE DEF A, B
    <3> QED BY <2>2, <2>7, FS_Union
  <2>10. Cardinality(SUBSET T) = Cardinality(A \cup B)
    BY Zenon, <2>5
  <2>11. Cardinality(SUBSET T) = 2 * Cardinality(A)
    <3> HIDE DEF A, B, T
    <3> QED BY <2>3, <2>7, <2>8, <2>9, <2>10
  <2> HIDE DEF A, B, T
  <2> QED BY Zenon, <2>2, <2>3, <2>11
<1> QED
  BY Zenon, <1>1, <1>2

(***************************************************************************)
(* The numbers of a segment.                                               *)
(***************************************************************************)
LEMMA SegmentFacts ==
    ASSUME NEW seg \in Segments
    PROVE  /\ seg.abs \in Nat
           /\ seg.payload \in Seq(Nat)
           /\ Len(seg.payload) \in Nat
           /\ length_in_sequence_space(seg) \in Nat
           /\ EndOf(seg) \in Nat
           /\ EndOf(seg) = seg.abs + length_in_sequence_space(seg)
<1>1. seg.abs \in Nat /\ seg.payload \in Seq(Nat) /\ Len(seg.payload) \in Nat
  BY DEF Segments
<1>2. length_in_sequence_space(seg) \in Nat
  <2> DEFINE n == Len(seg.payload)
  <2>1. n \in Nat
    BY <1>1
  <2> HIDE DEF n
  <2>2. n + (IF seg.syn THEN 1 ELSE 0) + (IF seg.fin THEN 1 ELSE 0) \in Nat
    BY <2>1
  <2> QED BY Zenon, <2>2 DEF length_in_sequence_space, n
<1> QED
  BY <1>1, <1>2 DEF EndOf

(***************************************************************************)
(* A segment stays honest while the sender sends more and the stream, once *)
(* ended, takes no more.                                                   *)
(***************************************************************************)
LEMMA HonestStays ==
    ASSUME NEW s, NEW t, t.isn = s.isn, s.next_seqno \in Nat, t.next_seqno \in Nat,
           t.next_seqno >= s.next_seqno,
           s.stream.input_end => /\ t.stream.input_end
                                 /\ t.stream.bytes_written = s.stream.bytes_written
    PROVE  /\ \A seg : Honest(seg, s) => Honest(seg, t)
           /\ \A q : AllHonest(q, s) => AllHonest(q, t)
<1>1. ASSUME NEW seg, Honest(seg, s) PROVE Honest(seg, t)
  <2>1. EndOf(seg) \in Nat
    BY <1>1, SegmentFacts DEF Honest
  <2>2. EndOf(seg) <= s.next_seqno
    BY <1>1 DEF Honest
  <2>3. EndOf(seg) <= t.next_seqno
    BY <2>1, <2>2
  <2> QED BY <1>1, <2>3 DEF Honest
<1> QED
  BY <1>1 DEF AllHonest

(***************************************************************************)
(* Honesty depends on three fields of the sender only.                     *)
(***************************************************************************)
LEMMA HonestSame ==
    ASSUME NEW s, NEW t, t.isn = s.isn, t.next_seqno = s.next_seqno, t.stream = s.stream
    PROVE  \A q : AllHonest(q, s) => AllHonest(q, t)
<1>1. \A seg : Honest(seg, s) => Honest(seg, t)
  BY SMTT(30) DEF Honest
<1> QED
  BY Zenon, <1>1 DEF AllHonest

(***************************************************************************)
(* Two queues of honest segments make one.                                 *)
(***************************************************************************)
LEMMA HonestConcat ==
    ASSUME NEW s, NEW p, AllHonest(p, s), NEW q, AllHonest(q, s)
    PROVE  AllHonest(p \o q, s)
<1>1. /\ p \in Seq(Segments) /\ q \in Seq(Segments)
      /\ Len(p) \in Nat /\ Len(q) \in Nat
  BY DEF AllHonest
<1>2. /\ p \o q \in Seq(Segments)
      /\ Len(p \o q) = Len(p) + Len(q)
      /\ \A i \in 1 .. (Len(p) + Len(q)) :
            (p \o q)[i] = IF i <= Len(p) THEN p[i] ELSE q[i - Len(p)]
  BY <1>1
<1>3. ASSUME NEW i \in 1 .. (Len(p) + Len(q)) PROVE Honest((p \o q)[i], s)
  <2>1. CASE i <= Len(p)
    <3>1. i \in 1 .. Len(p)
      BY <1>1, <2>1
    <3> QED BY <1>2, <2>1, <3>1 DEF AllHonest
  <2>2. CASE ~(i <= Len(p))
    <3>1. i - Len(p) \in 1 .. Len(q)
      BY <1>1, <2>2
    <3> QED BY <1>2, <2>2, <3>1 DEF AllHonest
  <2> QED BY <2>1, <2>2
<1> QED
  BY <1>2, <1>3 DEF AllHonest

(***************************************************************************)
(* Any part of a queue that ends where the queue ends tiles like it.       *)
(***************************************************************************)
LEMMA TilesSuffix ==
    ASSUME NEW q, NEW hi \in Nat, Tiles(q, hi), NEW k \in 0 .. Len(q)
    PROVE  LET r == SubSeq(q, k + 1, Len(q))
           IN  /\ Tiles(r, hi)
               /\ Len(r) = Len(q) - k
               /\ \A i \in 1 .. Len(r) : r[i] = q[k + i]
<1> DEFINE m == k + 1
           n == Len(q)
           r == SubSeq(q, m, n)
<1>1. q \in Seq(Segments) /\ n \in Nat /\ k \in Nat /\ k <= n
  BY DEF Tiles
<1>2. m \in Int /\ n \in Int /\ m >= 1
  BY <1>1
<1>3. \A i \in m .. n : q[i] \in Segments
  <2>1. \A i \in m .. n : i \in 1 .. Len(q)
    BY <1>1
  <2> QED BY <1>1, <2>1, ElementOfSeq
<1> HIDE DEF m
<1>4. /\ r \in Seq(Segments)
      /\ Len(r) = IF m <= n THEN n - m + 1 ELSE 0
      /\ \A i \in 1 .. (n - m + 1) : r[i] = q[m + i - 1]
  <2> HIDE DEF n
  <2> QED BY <1>2, <1>3, SubSeqProperties
<1>5. Len(r) = n - k
  BY <1>1, <1>4 DEF m
<1> HIDE DEF r, n
<1>6. \A i \in 1 .. Len(r) : r[i] = q[k + i] /\ k + i \in 1 .. n
  <2>1. \A i \in 1 .. Len(r) :
            i \in 1 .. (n - m + 1) /\ m + i - 1 = k + i /\ k + i \in 1 .. n
    BY <1>1, <1>5 DEF m
  <2> QED BY <1>4, <2>1
<1>7. \A i \in 1 .. Len(r) : r[i].abs < EndOf(r[i]) /\ EndOf(r[i]) <= hi
  BY <1>6 DEF Tiles, n
<1>8. ASSUME NEW i \in 1 .. Len(r), i + 1 <= Len(r) PROVE r[i + 1].abs = EndOf(r[i])
  <2>1. /\ i + 1 \in 1 .. Len(r) /\ k + (i + 1) = (k + i) + 1 /\ (k + i) + 1 <= n
    BY <1>1, <1>5, <1>8
  <2>2. q[(k + i) + 1].abs = EndOf(q[k + i])
    BY <1>6, <2>1 DEF Tiles, n
  <2> QED BY <1>6, <2>1, <2>2
<1>9. ASSUME NEW i \in 1 .. Len(r), NEW j \in 1 .. Len(r), i < j
      PROVE  EndOf(r[i]) <= r[j].abs
  <2>1. k + i < k + j
    BY <1>1, <1>5, <1>9
  <2>2. EndOf(q[k + i]) <= q[k + j].abs
    BY <1>6, <2>1 DEF Tiles, n
  <2> QED BY <1>6, <2>2
<1>10. r # << >> => EndOf(r[Len(r)]) = hi
  <2>1. SUFFICES ASSUME r # << >> PROVE EndOf(r[Len(r)]) = hi
    OBVIOUS
  <2>2. Len(r) # 0
    BY <1>4, <2>1, EmptySeq DEF r
  <2>3. Len(r) \in 1 .. Len(r) /\ k + Len(r) = n /\ n # 0
    BY <1>1, <1>5, <2>2
  <2>4. q # << >>
    BY <2>3 DEF n
  <2> QED BY Zenon, <1>6, <2>3, <2>4 DEF Tiles, n
<1>11. Tiles(r, hi)
  BY Zenon, <1>4, <1>7, <1>8, <1>9, <1>10 DEF Tiles, r
<1> QED
  BY <1>5, <1>6, <1>11 DEF r, m, n

(***************************************************************************)
(* A queue that tiles up to the number at which another one starts makes,  *)
(* with it, one that tiles.                                                *)
(***************************************************************************)
LEMMA TilesConcat ==
    ASSUME NEW a \in Nat, NEW b \in Nat, a <= b, NEW p, Tiles(p, a),
           NEW q, Tiles(q, b), q # << >> => q[1].abs = a, q = << >> => a = b
    PROVE  Tiles(p \o q, b) /\ (p # << >> => (p \o q)[1] = p[1])
<1> DEFINE r == p \o q
           n == Len(p)
           m == Len(q)
<1>1. p \in Seq(Segments) /\ q \in Seq(Segments) /\ n \in Nat /\ m \in Nat
  BY DEF Tiles
<1>2. /\ r \in Seq(Segments) /\ Len(r) = n + m
      /\ \A i \in 1 .. (n + m) : r[i] = IF i <= n THEN p[i] ELSE q[i - n]
  BY <1>1
<1> HIDE DEF r
<1>3. \A i \in 1 .. n : r[i] = p[i] /\ i \in 1 .. (n + m)
  BY <1>1, <1>2
<1>4. \A i \in 1 .. m : r[n + i] = q[i] /\ n + i \in 1 .. (n + m)
  <2>1. \A i \in 1 .. m : n + i \in 1 .. (n + m) /\ ~(n + i <= n) /\ (n + i) - n = i
    BY <1>1
  <2> HIDE DEF n, m
  <2>2. ASSUME NEW i \in 1 .. m PROVE r[n + i] = q[i]
    <3>1. r[n + i] = q[(n + i) - n]
      BY <1>2, <2>1
    <3> QED BY <2>1, <3>1
  <2> QED BY <2>1, <2>2
<1>5. \A i \in 1 .. (n + m) : i \in 1 .. n \/ \E j \in 1 .. m : i = n + j
  <2>1. SUFFICES ASSUME NEW i \in 1 .. (n + m), i \notin 1 .. n
                 PROVE  \E j \in 1 .. m : i = n + j
    OBVIOUS
  <2>2. i - n \in 1 .. m /\ i = n + (i - n)
    BY <1>1, <2>1
  <2> QED BY <2>2
<1>6. \A i \in 1 .. n : p[i] \in Segments /\ p[i].abs < EndOf(p[i]) /\ EndOf(p[i]) <= a
  BY <1>1, ElementOfSeq DEF Tiles
<1>7. \A j \in 1 .. m : q[j] \in Segments /\ q[j].abs < EndOf(q[j]) /\ EndOf(q[j]) <= b
  BY <1>1, ElementOfSeq DEF Tiles
<1>8. \A j \in 1 .. m : a <= q[j].abs /\ q[j].abs \in Nat
  <2>1. SUFFICES ASSUME NEW j \in 1 .. m PROVE a <= q[j].abs /\ q[j].abs \in Nat
    OBVIOUS
  <2>2. 1 \in 1 .. m /\ m # 0
    BY <1>1
  <2>3. q[1].abs = a /\ q[j].abs \in Nat /\ EndOf(q[1]) \in Nat /\ a < EndOf(q[1])
    BY <1>7, <2>2, SegmentFacts
  <2>4. CASE j = 1
    BY <2>3, <2>4
  <2>5. CASE 1 < j
    <3>1. EndOf(q[1]) <= q[j].abs
      BY <2>2, <2>5 DEF Tiles
    <3> QED BY <2>3, <3>1
  <2> QED BY <1>1, <2>4, <2>5
<1>9. \A i \in 1 .. n : EndOf(p[i]) \in Nat
  BY <1>6, SegmentFacts
<1>10. \A j \in 1 .. m : EndOf(q[j]) \in Nat
  BY <1>7, SegmentFacts
<1>11. ASSUME NEW i \in 1 .. (n + m) PROVE r[i].abs < EndOf(r[i]) /\ EndOf(r[i]) <= b
  <2>1. CASE i \in 1 .. n
    BY <1>3, <1>6, <1>9, <2>1
  <2>2. CASE \E j \in 1 .. m : i = n + j
    BY <1>4, <1>7, <2>2
  <2> QED BY <1>5, <2>1, <2>2
<1>12. ASSUME NEW i \in 1 .. (n + m), i + 1 <= n + m PROVE r[i + 1].abs = EndOf(r[i])
  <2>1. CASE i + 1 \in 1 .. n
    <3>1. p[i + 1].abs = EndOf(p[i]) /\ i \in 1 .. n
      BY <1>1, <2>1 DEF Tiles
    <3> QED BY <1>3, <2>1, <3>1
  <2>2. CASE i = n
    <3>1. n \in 1 .. n /\ 1 \in 1 .. m /\ p # << >> /\ q # << >>
      BY <1>1, <1>12, <2>2
    <3>2. EndOf(p[n]) = a /\ q[1].abs = a
      BY <3>1 DEF Tiles
    <3>3. r[i] = p[n] /\ r[i + 1] = q[1]
      BY <1>3, <1>4, <2>2, <3>1
    <3> QED BY <3>2, <3>3
  <2>3. CASE i > n
    <3>1. /\ i - n \in 1 .. m /\ (i - n) + 1 \in 1 .. m
          /\ n + (i - n) = i /\ n + ((i - n) + 1) = i + 1
      BY <1>1, <1>12, <2>3
    <3>2. q[(i - n) + 1].abs = EndOf(q[i - n])
      BY <1>1, <3>1 DEF Tiles
    <3>3. r[i] = q[i - n] /\ r[i + 1] = q[(i - n) + 1]
      BY SMTT(30), <1>4, <3>1
    <3> QED BY SMTT(30), <3>2, <3>3
  <2> QED BY SMTT(30), <1>1, <1>12, <2>1, <2>2, <2>3
<1>13. ASSUME NEW i \in 1 .. (n + m), NEW j \in 1 .. (n + m), i < j
       PROVE  EndOf(r[i]) <= r[j].abs
  <2>1. CASE j \in 1 .. n
    <3>1. i \in 1 .. n
      BY <1>1, <1>13, <2>1
    <3> QED BY <1>3, <1>13, <2>1, <3>1 DEF Tiles
  <2>2. CASE i \in 1 .. n /\ \E k \in 1 .. m : j = n + k
    <3>1. PICK k \in 1 .. m : j = n + k
      BY <2>2
    <3>2. EndOf(p[i]) <= a /\ a <= q[k].abs /\ EndOf(p[i]) \in Nat /\ q[k].abs \in Nat
      BY <1>6, <1>8, <1>9, <2>2
    <3>3. EndOf(p[i]) <= q[k].abs
      BY <3>2
    <3> QED BY <1>3, <1>4, <2>2, <3>1, <3>3
  <2>3. CASE (\E k \in 1 .. m : i = n + k) /\ \E k \in 1 .. m : j = n + k
    <3>1. PICK k \in 1 .. m : i = n + k
      BY <2>3
    <3>2. PICK l \in 1 .. m : j = n + l
      BY SMTT(30), <2>3
    <3>3. k < l
      BY <1>1, <1>13, <3>1, <3>2
    <3>4. EndOf(q[k]) <= q[l].abs
      BY <3>3 DEF Tiles
    <3> QED BY <1>4, <3>1, <3>2, <3>4
  <2> QED BY Zenon, <1>5, <2>1, <2>2, <2>3
<1>14. r # << >> => EndOf(r[Len(r)]) = b
  <2>1. CASE m = 0
    <3>1. q = << >> /\ a = b
      BY <1>1, <2>1, EmptySeq
    <3>2. CASE n = 0
      BY <1>2, <2>1, <3>2, EmptySeq
    <3>3. CASE n # 0
      <4>1. n \in 1 .. n /\ Len(r) = n /\ p # << >>
        BY <1>1, <1>2, <2>1, <3>3
      <4> QED BY <1>3, <3>1, <4>1 DEF Tiles
    <3> QED BY <3>2, <3>3
  <2>2. CASE m # 0
    <3>1. m \in 1 .. m /\ Len(r) = n + m /\ q # << >>
      BY <1>1, <1>2, <2>2
    <3> QED BY <1>4, <3>1 DEF Tiles
  <2> QED BY <2>1, <2>2
<1>15. Tiles(r, b)
  BY <1>2, <1>11, <1>12, <1>13, <1>14 DEF Tiles
<1>16. p # << >> => r[1] = p[1]
  <2>1. p # << >> => 1 \in 1 .. n
    BY <1>1, EmptySeq
  <2> QED BY <1>3, <2>1
<1> QED
  BY <1>15, <1>16 DEF r

--------------------------------------------------------------------------------
(***************************************************************************)
(* What the loop of fill_window sends in all fits the window, and the FIN  *)
(* comes last.                                                             *)
(***************************************************************************)
LEMMA FillNumbers ==
    ASSUME NEW s, Counts(s)
    PROVE  LET n == FillBytes(s)
               f == IF FillFin(s) THEN 1 ELSE 0
           IN  /\ n \in 0 .. Len(s.stream.buffer)
               /\ s.FIN_sent => n = 0 /\ ~FillFin(s)
               /\ FillFin(s) => s.stream.input_end /\ n = Len(s.stream.buffer)
               /\ n + f > 0 => (s.next_seqno + n) + f <= s.abs_ackno + EffectiveWindow(s)
<1> DEFINE n == FillBytes(s)
           f == IF FillFin(s) THEN 1 ELSE 0
           flight == bytes_in_flight(s)
<1>1. /\ s \in Senders /\ ~s.stream.error /\ s.abs_ackno \in Nat /\ s.next_seqno \in Nat
      /\ s.abs_ackno <= s.next_seqno /\ s.window_size \in Nat
      /\ Len(s.stream.buffer) \in Nat
  BY DEF Counts, Senders, ByteStreams
<1>2. flight \in Nat /\ s.next_seqno = s.abs_ackno + flight
  BY <1>1 DEF bytes_in_flight
<1>3. EffectiveWindow(s) \in Nat
  BY <1>1 DEF EffectiveWindow
<1>4. /\ FillSize(s) \in Nat
      /\ FillSize(s) > 0 => flight + FillSize(s) = EffectiveWindow(s)
  BY <1>2, <1>3 DEF FillSize
<1>5. /\ n \in 0 .. Len(s.stream.buffer) /\ n <= FillSize(s)
      /\ s.FIN_sent => n = 0 /\ ~FillFin(s)
  BY <1>1, <1>4 DEF FillBytes, FillFin
<1>6. FillFin(s) => s.stream.input_end /\ n = Len(s.stream.buffer) /\ FillSize(s) > n
  BY DEF FillFin
<1> HIDE DEF n, flight
<1>7. f \in {0, 1} /\ n + f <= FillSize(s)
  BY <1>1, <1>4, <1>5, <1>6
<1> HIDE DEF f
<1>8. n + f > 0 => (s.next_seqno + n) + f <= s.abs_ackno + EffectiveWindow(s)
  BY SMTT(30), <1>1, <1>2, <1>3, <1>4, <1>5, <1>7
<1> QED
  BY <1>5, <1>6, <1>8 DEF n, f

(***************************************************************************)
(* The loop cuts bytes bytes into the least number of payloads.            *)
(***************************************************************************)
LEMMA CeilingDiv ==
    ASSUME NEW bytes \in Nat, bytes > 0, NEW M \in Nat, M > 0
    PROVE  LET count == (bytes + M - 1) \div M
           IN  count \in Nat /\ count >= 1 /\ (count - 1) * M < bytes /\ bytes <= count * M
<1> DEFINE x == bytes + M - 1
           count == x \div M
<1>1. x \in Nat /\ x >= M
  OBVIOUS
<1>2. count \in Nat /\ x = count * M + (x % M) /\ x % M \in 0 .. (M - 1)
  BY <1>1
<1>3. (count - 1) * M = count * M - M
  BY <1>2
<1>4. count * M \in Nat
  BY <1>2
<1> HIDE DEF count
<1>5. (count - 1) * M < bytes /\ bytes <= count * M
  BY <1>2, <1>3, <1>4
<1>6. count # 0
  BY <1>2, <1>5
<1> QED
  BY <1>2, <1>5, <1>6 DEF count

(***************************************************************************)
(* The segments fill_window makes after the SYN follow each other from     *)
(* next_seqno on, carry the bytes their numbers stand for, and end where   *)
(* next_seqno moves to.                                                    *)
(***************************************************************************)
LEMMA FillTiles ==
    ASSUME NEW s, Counts(s), s.SYN_sent, NEW hi,
           hi = (s.next_seqno + FillBytes(s)) + (IF FillFin(s) THEN 1 ELSE 0)
    PROVE  LET q == FillSegments(s)
           IN  /\ Tiles(q, hi)
               /\ q = << >> <=> hi = s.next_seqno
               /\ q # << >> => q[1].abs = s.next_seqno
               /\ \A t : /\ t.isn = s.isn
                         /\ t.next_seqno = hi
                         /\ t.stream.input_end = s.stream.input_end
                         /\ t.stream.bytes_written = s.stream.bytes_written
                         => AllHonest(q, t)
<1> DEFINE n     == FillBytes(s)
           fin   == FillFin(s)
           f     == IF fin THEN 1 ELSE 0
           M     == MaxPayloadSize
           next  == s.next_seqno
           count == IF n = 0 THEN (IF fin THEN 1 ELSE 0) ELSE (n + M - 1) \div M
           data  == Substr(s.stream.buffer, 0, n)
           off(j) == (j - 1) * M
           part(j) == Substr(data, off(j), M)
           seg(j) == make_segment(s, next + off(j), FALSE, fin /\ j = count, part(j))
           q     == FillSegments(s)
<1>1. /\ s \in Senders /\ Orderly(s.stream) /\ ~s.stream.error /\ s.isn \in WrappingInt
      /\ s.stream.bytes_read \in Nat /\ s.stream.bytes_written \in Nat
      /\ s.stream.buffer \in Seq(Nat) /\ Len(s.stream.buffer) \in Nat
      /\ s.stream.bytes_written = s.stream.bytes_read + Len(s.stream.buffer)
      /\ IsExcerpt(s.stream.buffer, s.stream.bytes_read)
  BY SMTT(30) DEF Counts, Senders, ByteStreams, Orderly
<1>2. M \in Nat /\ M > 0
  BY MaxPayloadAssumption
<1>3. /\ n \in 0 .. Len(s.stream.buffer) /\ n \in Nat /\ f \in {0, 1}
      /\ s.FIN_sent => n = 0 /\ f = 0
      /\ fin => s.stream.input_end /\ n = Len(s.stream.buffer) /\ f = 1
  <2>1. /\ n \in 0 .. Len(s.stream.buffer)
        /\ s.FIN_sent => n = 0 /\ ~fin
        /\ fin => s.stream.input_end /\ n = Len(s.stream.buffer)
    BY FillNumbers
  <2> HIDE DEF n, fin
  <2> QED BY <1>1, <2>1
<1>4. next \in Nat /\ (~s.FIN_sent => next = 1 + s.stream.bytes_read) /\ next > 0
  <2>1. next = 1 + s.stream.bytes_read + (IF s.FIN_sent THEN 1 ELSE 0)
    BY DEF Counts, Sent
  <2> QED BY <1>1, <2>1
<1>5. hi = (next + n) + f /\ hi \in Nat
  BY <1>3, <1>4
<1>6. q = [j \in 1 .. count |-> seg(j)]
  BY DEF FillSegments
<1> HIDE DEF n, fin, next, q
<1>7. IsExcerpt(data, s.stream.bytes_read) /\ Len(data) = n
  <2>0. /\ 0 \in Nat /\ n \in Nat /\ s.stream.bytes_read \in Nat
        /\ IsExcerpt(s.stream.buffer, s.stream.bytes_read)
    BY <1>1, <1>3
  <2>1. s.stream.bytes_read + 0 = s.stream.bytes_read
    BY <2>0
  <2>2. /\ IsExcerpt(data, s.stream.bytes_read + 0)
        /\ Len(data) = IF 0 >= Len(s.stream.buffer) THEN 0
                       ELSE IF 0 + n > Len(s.stream.buffer) THEN Len(s.stream.buffer) - 0
                       ELSE n
    BY Zenon, <2>0, SubstrExcerpt
  <2> HIDE DEF data
  <2> QED BY <1>1, <1>3, <2>1, <2>2
<1> HIDE DEF data
<1>8. /\ count \in Nat
      /\ count = 0 <=> n + f = 0
      /\ n > 0 => count >= 1 /\ (count - 1) * M < n /\ n <= count * M
      /\ n = 0 => count = f
  <2>1. CASE n = 0
    BY <1>3, <2>1
  <2>2. CASE n # 0
    <3>1. n > 0
      BY <1>3, <2>2
    <3>2. count = (n + M - 1) \div M
      BY <2>2
    <3>3. count \in Nat /\ count >= 1 /\ (count - 1) * M < n /\ n <= count * M
      BY SMTT(30), <1>2, <1>3, <3>1, <3>2, CeilingDiv
    <3> HIDE DEF count
    <3> QED BY <1>3, <2>2, <3>3
  <2> QED BY <2>1, <2>2
<1> HIDE DEF count, f, M
<1>9. ASSUME NEW j \in 1 .. count
      PROVE  /\ off(j) \in Nat
             /\ Len(part(j)) = IF j < count THEN M ELSE n - off(j)
             /\ j < count => off(j) + M = j * M /\ off(j + 1) = j * M
             /\ j = count => n - off(j) \in 0 .. M /\ (n - off(j)) + f > 0
             /\ IsExcerpt(part(j), s.stream.bytes_read + off(j))
  <2>1. j \in Nat /\ j >= 1 /\ j <= count /\ j - 1 \in Nat
    BY <1>8
  <2>2. off(j) \in Nat /\ off(j) + M = j * M /\ off(j + 1) = j * M
    BY <1>2, <2>1
  <2>3. /\ IsExcerpt(part(j), s.stream.bytes_read + off(j))
        /\ Len(part(j)) = IF off(j) >= n THEN 0 ELSE IF off(j) + M > n THEN n - off(j) ELSE M
    <3> HIDE DEF off
    <3> QED BY Zenon, <1>1, <1>2, <1>7, <2>2, SubstrExcerpt
  <2>4. CASE n = 0
    <3>1. count = 1 /\ j = 1 /\ f = 1
      BY <1>3, <1>8, <2>1, <2>4
    <3>2. off(j) = 0
      BY <1>2, <3>1
    <3> HIDE DEF off, part
    <3> QED BY SMTT(30), <1>2, <2>1, <2>2, <2>3, <2>4, <3>1, <3>2
  <2>5. CASE n > 0
    <3>1. off(j) <= (count - 1) * M
      BY <1>2, <1>8, <2>1
    <3>2. off(j) < n
      <4>1. (count - 1) * M \in Int
        BY <1>2, <1>8
      <4> HIDE DEF off
      <4> QED BY <1>3, <1>8, <2>2, <2>5, <3>1, <4>1
    <3>3. CASE j < count
      <4>1. j * M <= (count - 1) * M
        BY <1>2, <1>8, <2>1, <3>3
      <4>2. j * M < n
        <5>1. (count - 1) * M \in Int /\ j * M \in Int
          BY <1>2, <1>8, <2>1
        <5> QED BY <1>3, <1>8, <2>5, <4>1, <5>1
      <4>3. j * M \in Int
        BY <1>2, <2>1
      <4> HIDE DEF off, part
      <4> QED BY SMTT(30), <1>2, <1>3, <2>1, <2>2, <2>3, <3>2, <3>3, <4>2, <4>3
    <3>4. CASE j = count
      <4>1. n <= off(j) + M
        BY <1>8, <2>2, <2>5, <3>4
      <4> HIDE DEF off, part
      <4> QED BY SMTT(30), <1>2, <1>3, <2>1, <2>2, <2>3, <3>2, <3>4, <4>1
    <3> QED BY <1>8, <2>1, <3>3, <3>4
  <2> QED BY <1>3, <2>4, <2>5
<1> HIDE DEF off, part
<1>10. ASSUME NEW j \in 1 .. count
       PROVE  /\ seg(j) \in Segments
              /\ seg(j).abs = next + off(j)
              /\ seg(j).seqno = wrap(next + off(j), s.isn)
              /\ seg(j).payload = part(j) /\ ~seg(j).syn /\ ~seg(j).rst
              /\ seg(j).fin = (fin /\ j = count)
  <2>1. part(j) \in Seq(Nat) /\ next + off(j) \in Nat
    BY <1>4, <1>9 DEF IsExcerpt
  <2>2. wrap(next + off(j), s.isn) \in WrappingInt
    BY SMTT(30), <1>1, <2>1, SeqModAssumption DEF wrap, WrappingInt
  <2>3. (fin /\ j = count) \in BOOLEAN
    BY SMTT(30)
  <2> QED BY Zenon, <2>1, <2>2, <2>3 DEF make_segment, Segments
<1> HIDE DEF seg
<1>11. ASSUME NEW j \in 1 .. count
       PROVE  EndOf(seg(j)) = IF j < count THEN next + j * M ELSE hi
  <2>1. length_in_sequence_space(seg(j)) =
           Len(part(j)) + 0 + (IF fin /\ j = count THEN 1 ELSE 0)
    BY Zenon, <1>10 DEF length_in_sequence_space
  <2>2. j * M \in Int /\ j \in Nat /\ j <= count
    BY <1>2, <1>8
  <2>3. CASE j < count
    <3>1. /\ off(j) \in Nat /\ Len(part(j)) = M /\ off(j) + M = j * M
          /\ (IF fin /\ j = count THEN 1 ELSE 0) = 0
      BY <1>8, <1>9, <2>2, <2>3
    <3>2. EndOf(seg(j)) = (next + off(j)) + (M + 0 + 0)
      BY <1>10, <2>1, <3>1 DEF EndOf
    <3>3. (next + off(j)) + (M + 0 + 0) = next + (off(j) + M)
      BY SMTT(30), <1>2, <1>4, <3>1
    <3> QED BY <2>3, <3>1, <3>2, <3>3
  <2>4. CASE j = count
    <3>1. EndOf(seg(j)) = (next + off(j)) + ((n - off(j)) + 0 + f)
      <4>1. (IF fin /\ j = count THEN 1 ELSE 0) = f
        BY <2>4 DEF f
      <4>2. Len(part(j)) = n - off(j)
        BY <1>8, <1>9, <2>4
      <4> QED BY <1>10, <2>1, <4>1, <4>2 DEF EndOf
    <3>2. ~(j < count)
      BY <1>8, <2>4
    <3> QED BY <1>3, <1>4, <1>5, <1>9, <3>1, <3>2
  <2> QED BY <1>8, <2>2, <2>3, <2>4
<1>12. q \in Seq(Segments) /\ Len(q) = count /\ \A j \in 1 .. count : q[j] = seg(j)
  <2>1. q \in [1 .. count -> Segments]
    BY <1>6, <1>10
  <2> QED BY <1>6, <1>8, <2>1
<1>13. ASSUME NEW j \in 1 .. count
       PROVE  /\ seg(j).abs < EndOf(seg(j)) /\ EndOf(seg(j)) <= hi
              /\ Len(seg(j).payload) <= M
  <2>1. /\ off(j) \in Nat /\ j \in Nat /\ j <= count
        /\ Len(part(j)) = IF j < count THEN M ELSE n - off(j)
    BY <1>8, <1>9
  <2>2. CASE j < count
    <3>1. j + 1 \in 1 .. count /\ off(j + 1) = j * M /\ off(j) + M = j * M
      BY <1>8, <1>9, <2>1, <2>2
    <3>2. off(j + 1) <= n /\ off(j + 1) \in Nat
      <4>1. n - off(count) \in 0 .. M /\ off(count) \in Nat /\ count \in 1 .. count
        BY SMTT(30), <1>8, <1>9, <2>1
      <4>2. off(j + 1) <= off(count) /\ off(j + 1) \in Nat
        BY SMTT(30), <1>2, <1>8, <2>1, <2>2 DEF off
      <4> QED BY <1>3, <4>1, <4>2
    <3>3. EndOf(seg(j)) = next + (off(j) + M)
      BY <1>11, <2>2, <3>1
    <3> QED BY SMTT(30), <1>2, <1>3, <1>4, <1>5, <1>10, <2>1, <2>2, <3>1, <3>2, <3>3
  <2>3. CASE j = count
    <3>1. n - off(j) \in 0 .. M /\ (n - off(j)) + f > 0
      BY SMTT(30), <1>9, <2>3
    <3>2. EndOf(seg(j)) = hi
      BY <1>8, <1>11, <2>3
    <3>3. Len(part(j)) = n - off(j)
      BY <1>8, <2>1, <2>3
    <3> QED BY SMTT(30), <1>2, <1>3, <1>4, <1>5, <1>10, <2>1, <3>1, <3>2, <3>3
  <2> QED BY SMTT(30), <1>8, <2>1, <2>2, <2>3
<1>14. ASSUME NEW j \in 1 .. count, j + 1 <= count PROVE seg(j + 1).abs = EndOf(seg(j))
  <2>1. j < count /\ j + 1 \in 1 .. count
    BY <1>8, <1>14
  <2> QED BY <1>9, <1>10, <1>11, <2>1
<1>15. ASSUME NEW i \in 1 .. count, NEW j \in 1 .. count, i < j
       PROVE  EndOf(seg(i)) <= seg(j).abs
  <2>1. i < count /\ i \in Nat /\ j \in Nat /\ i <= j - 1
    BY <1>8, <1>15
  <2>2. i * M <= off(j) /\ i * M \in Nat
    BY <1>2, <2>1 DEF off
  <2> QED BY SMTT(30), <1>4, <1>9, <1>10, <1>11, <2>1, <2>2
<1>16. Tiles(q, hi)
  <2>1. ASSUME q # << >> PROVE EndOf(q[Len(q)]) = hi
    <3>1. count # 0
      BY <1>12, <2>1, EmptySeq
    <3>2. count \in 1 .. count /\ ~(count < count)
      BY <1>8, <3>1
    <3> QED BY <1>11, <1>12, <3>2
  <2>2. \A j \in 1 .. count : j + 1 <= count => j + 1 \in 1 .. count
    BY <1>8
  <2> QED BY <1>12, <1>13, <1>14, <1>15, <2>1, <2>2 DEF Tiles
<1>17. q = << >> <=> hi = next
  <2>1. q = << >> <=> count = 0
    BY <1>12, EmptySeq
  <2> QED BY <1>3, <1>4, <1>5, <1>8, <2>1
<1>18. q # << >> => q[1].abs = next
  <2>1. SUFFICES ASSUME q # << >> PROVE q[1].abs = next
    OBVIOUS
  <2>2. 1 \in 1 .. count
    BY <1>8, <1>12, <2>1, EmptySeq
  <2>3. off(1) = 0
    BY <1>2 DEF off
  <2> QED BY <1>4, <1>10, <1>12, <2>2, <2>3
<1>19. ASSUME NEW t, t.isn = s.isn, t.next_seqno = hi,
              t.stream.input_end = s.stream.input_end,
              t.stream.bytes_written = s.stream.bytes_written
       PROVE  AllHonest(q, t)
  <2>1. SUFFICES ASSUME NEW j \in 1 .. count PROVE Honest(seg(j), t)
    BY <1>12 DEF AllHonest
  <2>2. /\ seg(j) \in Segments /\ seg(j).abs = next + off(j) /\ seg(j).payload = part(j)
        /\ seg(j).fin = (fin /\ j = count) /\ ~seg(j).syn
        /\ seg(j).seqno = wrap(seg(j).abs, t.isn)
    BY <1>10, <1>19
  <2>3. Len(seg(j).payload) <= MaxPayloadSize /\ EndOf(seg(j)) <= t.next_seqno
    BY <1>13, <1>19 DEF M
  <2>4. ~s.FIN_sent /\ next = 1 + s.stream.bytes_read
    BY <1>3, <1>4, <1>8
  <2>5. ASSUME NEW k \in 1 .. Len(part(j)) PROVE part(j)[k] = ((next + off(j)) + k) - 2
    <3>1. part(j)[k] = ((s.stream.bytes_read + off(j)) + k) - 1
      BY <1>9 DEF IsExcerpt
    <3>2. off(j) \in Nat /\ k \in Int
      BY <1>9
    <3>3. ((s.stream.bytes_read + off(j)) + k) - 1 = ((next + off(j)) + k) - 2
      <4>1. \A a, b, c \in Int : ((a + b) + c) - 1 = (((1 + a) + b) + c) - 2
        OBVIOUS
      <4>2. s.stream.bytes_read \in Int /\ off(j) \in Int
        BY SMTT(30), <1>1, <3>2
      <4> QED BY Zenon, <2>4, <3>2, <4>1, <4>2
    <3> QED BY <3>1, <3>3
  <2>6. ~(seg(j).abs = 0)
    BY <1>4, <1>9, <2>2
  <2>7. seg(j).fin => t.stream.input_end /\ EndOf(seg(j)) = t.stream.bytes_written + 2
    <3>1. SUFFICES ASSUME fin, j = count
                   PROVE  s.stream.input_end /\ EndOf(seg(j)) = s.stream.bytes_written + 2
      BY Zenon, <1>19, <2>2
    <3>2. EndOf(seg(j)) = hi
      BY <1>8, <1>11, <3>1
    <3>3. s.stream.input_end /\ n = Len(s.stream.buffer) /\ f = 1
      BY <1>3, <3>1
    <3>4. hi = s.stream.bytes_written + 2
      <4>1. \A a, b \in Nat : ((1 + a) + b) + 1 = (a + b) + 2
        OBVIOUS
      <4>2. hi = ((1 + s.stream.bytes_read) + Len(s.stream.buffer)) + 1
        BY Zenon, <1>5, <2>4, <3>3
      <4>3. /\ s.stream.bytes_read \in Nat /\ Len(s.stream.buffer) \in Nat
            /\ s.stream.bytes_written = s.stream.bytes_read + Len(s.stream.buffer)
        BY Zenon, <1>1
      <4>4. ((1 + s.stream.bytes_read) + Len(s.stream.buffer)) + 1
              = (s.stream.bytes_read + Len(s.stream.buffer)) + 2
        BY Zenon, <4>1, <4>3
      <4> QED BY Zenon, <4>2, <4>3, <4>4
    <3> QED BY <3>2, <3>3, <3>4
  <2> QED BY <2>2, <2>3, <2>5, <2>6, <2>7 DEF Honest
<1> QED
  BY Zenon, <1>16, <1>17, <1>18, <1>19 DEF q, next

--------------------------------------------------------------------------------
(***************************************************************************)
(* A timer that is started anew.                                           *)
(***************************************************************************)
LEMMA StartTimer ==
    ASSUME NEW rto \in Nat
    PROVE  LET t == start_timer(rto)
           IN  t \in Timers /\ t.active /\ ~t.expired /\ t.time_passed = 0 /\ t.RTO = rto
BY DEF start_timer, Timers

(***************************************************************************)
(* Sending segments that continue the numbers already sent keeps the       *)
(* sender sound.                                                           *)
(***************************************************************************)
LEMMA SendingKeeps ==
    ASSUME NEW s, Sound(s), NEW t, Counts(t), NEW q,
           t.isn = s.isn,
           t.segments_out = s.segments_out \o q,
           t.segments_backup = s.segments_backup \o q,
           t.initial_retransmission_timeout = s.initial_retransmission_timeout,
           t.retransmission_timeout = s.retransmission_timeout,
           t.consecutive_retransmissions = s.consecutive_retransmissions,
           t.abs_ackno = s.abs_ackno,
           t.timer = (IF s.timer.active \/ q = << >> THEN s.timer
                      ELSE start_timer(s.retransmission_timeout)),
           t.next_seqno >= s.next_seqno,
           t.stream.input_end = s.stream.input_end,
           t.stream.bytes_written = s.stream.bytes_written,
           Tiles(q, t.next_seqno),
           q = << >> <=> t.next_seqno = s.next_seqno,
           q # << >> => q[1].abs = s.next_seqno,
           AllHonest(q, t)
    PROVE  Sound(t)
<1> DEFINE p == s.segments_backup
           r == t.segments_backup
<1>1. /\ Counts(s) /\ Outstanding(s) /\ Timed(s) /\ s \in Senders /\ t \in Senders
      /\ AllHonest(s.segments_out, s) /\ AllHonest(p, s)
  BY DEF Sound, Counts
<1>2. /\ s.next_seqno \in Nat /\ t.next_seqno \in Nat /\ s.abs_ackno \in Nat
      /\ s.retransmission_timeout \in Nat
  BY <1>1 DEF Senders
<1>3. p \in Seq(Segments) /\ q \in Seq(Segments) /\ Len(p) \in Nat /\ Len(q) \in Nat
  BY <1>1 DEF Outstanding, Tiles
<1>4. AllHonest(t.segments_out, t) /\ AllHonest(r, t)
  <2>1. AllHonest(s.segments_out, t) /\ AllHonest(p, t)
    BY Zenon, <1>1, <1>2, HonestStays
  <2> QED BY <2>1, HonestConcat
<1>5. Tiles(r, t.next_seqno) /\ (p # << >> => r[1] = p[1])
  <2>1. Tiles(p, s.next_seqno)
    BY <1>1 DEF Outstanding
  <2>2. s.next_seqno <= t.next_seqno
    BY <1>2
  <2> QED BY <1>2, <2>1, <2>2, TilesConcat
<1>6. /\ r \in Seq(Segments) /\ (r = << >> <=> p = << >> /\ q = << >>)
      /\ p = << >> => r = q
  <2>1. r \in Seq(Segments) /\ Len(r) = Len(p) + Len(q)
    BY <1>3
  <2>2. r = << >> <=> Len(r) = 0
    BY <2>1, EmptySeq
  <2>3. (p = << >> <=> Len(p) = 0) /\ (q = << >> <=> Len(q) = 0)
    BY <1>3, EmptySeq
  <2>4. Len(r) = 0 <=> Len(p) = 0 /\ Len(q) = 0
    BY <1>3, <2>1
  <2>5. p = << >> => r = q
    BY <1>3, ConcatEmptySeq
  <2> QED BY Zenon, <2>1, <2>2, <2>3, <2>4, <2>5
<1> HIDE DEF r
<1>7. Outstanding(t)
  <2>1. ASSUME r = << >> PROVE t.abs_ackno = t.next_seqno
    BY <1>1, <1>6, <2>1 DEF Outstanding
  <2>2. ASSUME r # << >> PROVE r[1].abs <= t.abs_ackno /\ t.abs_ackno < EndOf(r[1])
    <3>1. CASE p # << >>
      BY <1>1, <1>5, <3>1 DEF Outstanding
    <3>2. CASE p = << >>
      <4>1. r = q /\ q # << >> /\ s.abs_ackno = s.next_seqno
        BY <1>1, <1>6, <2>2, <3>2 DEF Outstanding
      <4>2. r[1].abs = s.abs_ackno
        BY <4>1
      <4>3. 1 \in 1 .. Len(r)
        BY <1>3, <4>1, EmptySeq
      <4>4. r[1].abs < EndOf(r[1])
        BY <1>5, <4>3 DEF Tiles
      <4> QED BY <1>2, <4>2, <4>4
    <3> QED BY <3>1, <3>2
  <2> QED BY <1>5, <2>1, <2>2 DEF Outstanding, r
<1>8. Timed(t)
  <2>1. CASE s.timer.active \/ q = << >>
    <3>1. t.timer = s.timer
      BY <2>1
    <3>2. s.timer.active <=> r # << >>
      BY <1>1, <1>6, <2>1 DEF Timed
    <3> QED BY <1>1, <3>1, <3>2 DEF Timed, r
  <2>2. CASE ~(s.timer.active \/ q = << >>)
    <3>1. /\ t.timer.active /\ ~t.timer.expired
          /\ t.timer.time_passed = 0 /\ t.timer.RTO = s.retransmission_timeout
      BY <1>2, <2>2, StartTimer
    <3>2. r # << >>
      BY <1>6, <2>2
    <3>3. 0 < s.retransmission_timeout
      BY <1>1, <1>2 DEF Timed
    <3> QED BY <1>1, <3>1, <3>2, <3>3 DEF Timed, r
  <2> QED BY <2>1, <2>2
<1> QED
  BY SMTT(30), <1>4, <1>7, <1>8 DEF Sound, r

(***************************************************************************)
(* The window the sender works with is one the peer advertised, or one.    *)
(***************************************************************************)
LEMMA WindowFits ==
    ASSUME OneLap, NEW s, Counts(s)
    PROVE  /\ EffectiveWindow(s) \in Nat /\ EffectiveWindow(s) >= 1
           /\ 2 * (EffectiveWindow(s) + MaxPayloadSize) <= SeqMod
<1>1. s.window_size \in Windows \cup {1} /\ Windows \subseteq Nat
  BY SenderAssumption DEF Counts
<1>2. EffectiveWindow(s) \in Windows \cup {1}
  BY <1>1 DEF EffectiveWindow
<1>3. s.window_size \in Nat
  BY SMTT(30) DEF Counts, Senders
<1>4. EffectiveWindow(s) \in Nat /\ EffectiveWindow(s) # 0
  BY <1>3 DEF EffectiveWindow
<1>5. EffectiveWindow(s) >= 1
  BY <1>4
<1> QED
  BY <1>2, <1>4, <1>5 DEF OneLap

(***************************************************************************)
(* The fill_window that sends the SYN keeps the sender sound, and the SYN  *)
(* fits the window.                                                        *)
(***************************************************************************)
LEMMA SynKeeps ==
    ASSUME OneLap, NEW s, Sound(s), ~s.SYN_sent
    PROVE  /\ Sound(fill_window(s))
           /\ fill_window(s).abs_ackno = s.abs_ackno
           /\ fill_window(s).next_seqno = s.next_seqno + 1
           /\ s.next_seqno + 1 <= s.abs_ackno + EffectiveWindow(s)
<1> DEFINE seg == make_segment(s, s.next_seqno, TRUE, FALSE, << >>)
           q   == <<seg>>
           t   == fill_window(s)
           tm  == IF s.timer.active \/ q = << >> THEN s.timer
                  ELSE start_timer(s.retransmission_timeout)
<1>1. /\ Counts(s) /\ s \in Senders /\ s.next_seqno = 0 /\ s.abs_ackno = 0
      /\ s.isn \in WrappingInt /\ s.retransmission_timeout \in Nat /\ s.timer \in Timers
      /\ s.stream.bytes_read = 0 /\ ~s.FIN_sent
      /\ s.segments_out \in Seq(Segments) /\ s.segments_backup \in Seq(Segments)
  <2>1. /\ Counts(s) /\ s \in Senders /\ s.next_seqno = 0 /\ s.abs_ackno <= s.next_seqno
        /\ s.stream.bytes_read = 0 /\ ~s.FIN_sent
    BY DEF Sound, Counts, Sent
  <2>2. /\ s.isn \in WrappingInt /\ s.retransmission_timeout \in Nat /\ s.timer \in Timers
        /\ s.abs_ackno \in Nat
        /\ s.segments_out \in Seq(Segments) /\ s.segments_backup \in Seq(Segments)
    BY <2>1 DEF Senders
  <2>3. s.abs_ackno = 0
    BY <2>1, <2>2
  <2> QED BY <2>1, <2>2, <2>3
<1>2. /\ seg \in Segments /\ seg.abs = 0 /\ seg.seqno = wrap(0, s.isn)
      /\ seg.syn /\ ~seg.fin /\ seg.payload = << >>
  <2>1. wrap(0, s.isn) \in WrappingInt
    BY <1>1, SeqModAssumption DEF wrap, WrappingInt
  <2>2. << >> \in Seq(Nat) /\ 0 \in Nat
    OBVIOUS
  <2> QED BY Zenon, <1>1, <2>1, <2>2 DEF make_segment, Segments
<1>3. EndOf(seg) = 1
  <2>1. Len(<< >>) = 0
    OBVIOUS
  <2>2. length_in_sequence_space(seg) = 0 + 1 + 0
    BY Zenon, <1>2, <2>1 DEF length_in_sequence_space
  <2> HIDE DEF seg
  <2> QED BY <1>2, <2>2 DEF EndOf
<1> HIDE DEF seg
<1>4. q \in Seq(Segments) /\ Len(q) = 1 /\ q[1] = seg /\ q # << >>
  BY <1>2
<1>5. tm \in Timers
  BY <1>1, StartTimer
<1>6. t = [s EXCEPT !.segments_out = @ \o q, !.segments_backup = @ \o q, !.timer = tm,
                    !.next_seqno = @ + 1, !.SYN_sent = TRUE]
  BY DEF fill_window, Transmit, seg
<1> HIDE DEF q, tm, t
<1>7. s.segments_out \o q \in Seq(Segments) /\ s.segments_backup \o q \in Seq(Segments)
  BY <1>1, <1>4
<1>8. s.next_seqno + 1 = 1 /\ 1 \in Nat
  BY <1>1
<1>9. t \in Senders
  BY Zenon, <1>1, <1>5, <1>6, <1>7, <1>8 DEF Senders
<1>10. /\ t.isn = s.isn /\ t.segments_out = s.segments_out \o q
       /\ t.segments_backup = s.segments_backup \o q
       /\ t.initial_retransmission_timeout = s.initial_retransmission_timeout
       /\ t.retransmission_timeout = s.retransmission_timeout
       /\ t.consecutive_retransmissions = s.consecutive_retransmissions
       /\ t.abs_ackno = s.abs_ackno /\ t.window_size = s.window_size
       /\ t.timer = tm /\ t.stream = s.stream /\ t.next_seqno = s.next_seqno + 1
       /\ t.SYN_sent = TRUE /\ t.FIN_sent = s.FIN_sent
  BY Zenon, <1>1, <1>6 DEF Senders
<1>11. Tiles(q, 1)
  <2>1. \A i \in 1 .. Len(q) : i = 1
    BY <1>4
  <2>2. \A i, j \in 1 .. Len(q) : ~(i < j) /\ ~(i + 1 <= Len(q))
    BY <1>4
  <2>3. q[1].abs < EndOf(q[1]) /\ EndOf(q[1]) <= 1
    BY <1>2, <1>3, <1>4
  <2> QED BY SMTT(30), <1>3, <1>4, <2>1, <2>2, <2>3 DEF Tiles
<1>12. AllHonest(q, t)
  <2>1. Honest(seg, t)
    <3>1. Len(seg.payload) = 0 /\ 0 <= MaxPayloadSize /\ EndOf(seg) <= t.next_seqno
      BY SMTT(30), <1>2, <1>3, <1>8, <1>10, MaxPayloadAssumption
    <3>2. seg.seqno = wrap(seg.abs, t.isn)
      BY <1>2, <1>10
    <3>3. \A k \in 1 .. Len(seg.payload) : seg.payload[k] = (seg.abs + k) - 2
      BY <3>1
    <3> QED BY SMTT(30), <1>2, <1>3, <3>1, <3>2, <3>3 DEF Honest
  <2>2. \A i \in 1 .. Len(q) : i = 1
    BY <1>4
  <2> QED BY <1>4, <2>1, <2>2 DEF AllHonest
<1>13. /\ EffectiveWindow(s) \in Nat /\ EffectiveWindow(s) >= 1
       /\ 2 * (EffectiveWindow(s) + MaxPayloadSize) <= SeqMod
  BY <1>1, WindowFits
<1>14. Counts(t)
  <2>1. 2 * ((t.next_seqno - t.abs_ackno) + MaxPayloadSize) <= SeqMod
    BY SMTT(30), <1>1, <1>8, <1>10, <1>13, MaxPayloadAssumption, SeqModAssumption
  <2>2. t.abs_ackno <= t.next_seqno
    BY <1>1, <1>8, <1>10
  <2>3. t.next_seqno = Sent(t)
    BY SMTT(30), <1>1, <1>8, <1>10 DEF Sent
  <2> QED BY SMTT(30), <1>1, <1>9, <1>10, <2>1, <2>2, <2>3 DEF Counts
<1>15. t.next_seqno >= s.next_seqno /\ t.next_seqno # s.next_seqno /\ t.next_seqno = 1
  BY SMTT(30), <1>1, <1>8, <1>10
<1>16. Sound(t)
  <2>1. t.timer = IF s.timer.active \/ q = << >> THEN s.timer
                  ELSE start_timer(s.retransmission_timeout)
    BY <1>10 DEF tm
  <2>2. Tiles(q, t.next_seqno) /\ q[1].abs = s.next_seqno
    BY <1>1, <1>2, <1>4, <1>11, <1>15
  <2>3. t.stream.input_end = s.stream.input_end
        /\ t.stream.bytes_written = s.stream.bytes_written
    BY <1>10
  <2> QED BY Zenon, <1>4, <1>10, <1>12, <1>14, <1>15, <2>1, <2>2, <2>3, SendingKeeps
<1>17. s.next_seqno + 1 <= s.abs_ackno + EffectiveWindow(s)
  BY <1>1, <1>8, <1>13
<1> QED
  BY <1>10, <1>16, <1>17 DEF t

(***************************************************************************)
(* The fill_window that sends data, or the FIN, keeps the sender sound and *)
(* sends nothing outside the window.                                       *)
(***************************************************************************)
LEMMA DataKeeps ==
    ASSUME OneLap, NEW s, Sound(s), s.SYN_sent
    PROVE  /\ Sound(fill_window(s))
           /\ fill_window(s).abs_ackno = s.abs_ackno
           /\ fill_window(s).next_seqno >= s.next_seqno
           /\ fill_window(s).next_seqno > s.next_seqno =>
                fill_window(s).next_seqno <= s.abs_ackno + EffectiveWindow(s)
<1> DEFINE q   == FillSegments(s)
           n   == FillBytes(s)
           fin == FillFin(s)
           f   == IF fin THEN 1 ELSE 0
           hi  == (s.next_seqno + n) + f
           o   == pop_output(s.stream, n)
           w   == EffectiveWindow(s)
           t   == fill_window(s)
           tm  == IF s.timer.active \/ q = << >> THEN s.timer
                  ELSE start_timer(s.retransmission_timeout)
<1>1. /\ Counts(s) /\ s \in Senders /\ Orderly(s.stream) /\ ~s.stream.error
      /\ s.stream.bytes_written <= StreamLen /\ s.next_seqno = Sent(s)
      /\ s.FIN_sent => s.stream.input_end /\ s.stream.buffer = << >>
      /\ s.abs_ackno <= s.next_seqno
      /\ 2 * ((s.next_seqno - s.abs_ackno) + MaxPayloadSize) <= SeqMod
      /\ s.window_size \in Windows \cup {1}
  BY DEF Sound, Counts
<1>2. /\ s.retransmission_timeout \in Nat /\ s.timer \in Timers
      /\ s.next_seqno \in Nat /\ s.abs_ackno \in Nat /\ s.FIN_sent \in BOOLEAN
      /\ s.segments_out \in Seq(Segments) /\ s.segments_backup \in Seq(Segments)
  BY <1>1 DEF Senders
<1>3. /\ n \in Nat /\ n <= Len(s.stream.buffer) /\ f \in {0, 1} /\ fin \in BOOLEAN
      /\ s.FIN_sent => n = 0 /\ ~fin
      /\ fin => s.stream.input_end /\ n = Len(s.stream.buffer)
      /\ n + f > 0 => hi <= s.abs_ackno + w
      /\ s.stream.buffer \in Seq(Nat) /\ Len(s.stream.buffer) \in Nat
  <2>1. n \in 0 .. Len(s.stream.buffer)
    BY Zenon, <1>1, FillNumbers
  <2>2. n + f > 0 => hi <= s.abs_ackno + w
    BY Zenon, <1>1, FillNumbers
  <2>3. s.stream.buffer \in Seq(Nat) /\ Len(s.stream.buffer) \in Nat
    BY <1>1 DEF Orderly, ByteStreams
  <2>4. fin \in BOOLEAN
    BY Zenon DEF FillFin
  <2>5. /\ s.FIN_sent => n = 0 /\ ~fin
        /\ fin => s.stream.input_end /\ n = Len(s.stream.buffer)
    BY Zenon, <1>1, FillNumbers
  <2>6. f \in {0, 1}
    BY Zenon, <2>4
  <2> HIDE DEF n, fin
  <2>7. n \in Nat /\ n <= Len(s.stream.buffer)
    BY <2>1, <2>3
  <2> QED BY Zenon, <2>2, <2>3, <2>4, <2>5, <2>6, <2>7
<1>4. /\ Tiles(q, hi) /\ (q = << >> <=> hi = s.next_seqno)
      /\ q # << >> => q[1].abs = s.next_seqno
      /\ \A x : /\ x.isn = s.isn
                /\ x.next_seqno = hi
                /\ x.stream.input_end = s.stream.input_end
                /\ x.stream.bytes_written = s.stream.bytes_written
                => AllHonest(q, x)
  BY Zenon, <1>1, FillTiles
<1>5. w \in Nat /\ 2 * (w + MaxPayloadSize) <= SeqMod
  BY Zenon, <1>1, WindowFits
<1>6. /\ Orderly(o) /\ o \in ByteStreams
      /\ o.bytes_read = s.stream.bytes_read + n
      /\ o.input_end = s.stream.input_end /\ o.error = s.stream.error
      /\ o.bytes_written = s.stream.bytes_written /\ o.buffer \in Seq(Nat)
  <2>1. Len(peek_output(s.stream, n)) = n
    <3>1. Len(peek_output(s.stream, n))
            = IF n > Len(s.stream.buffer) THEN Len(s.stream.buffer) ELSE n
      BY Zenon, <1>1, <1>3, PopOrderly
    <3>2. ~(n > Len(s.stream.buffer))
      <4> HIDE DEF n
      <4> QED BY <1>3
    <3> QED BY Zenon, <3>1, <3>2
  <2>2. /\ Orderly(o)
        /\ o = [s.stream EXCEPT !.buffer = o.buffer, !.bytes_read = s.stream.bytes_read + n]
    <3> DEFINE l == Len(peek_output(s.stream, n))
    <3>1. /\ Orderly(o)
          /\ o = [s.stream EXCEPT !.buffer = o.buffer, !.bytes_read = s.stream.bytes_read + l]
      BY Zenon, <1>1, <1>3, PopOrderly
    <3>2. l = n
      BY SMTT(30), <2>1
    <3> HIDE DEF l, o
    <3> QED BY Zenon, <3>1, <3>2
  <2>3. o \in ByteStreams /\ s.stream \in ByteStreams
    BY Zenon, <1>1, <2>2 DEF Orderly
  <2> HIDE DEF o
  <2> QED BY Zenon, <2>2, <2>3 DEF ByteStreams
<1>7. t = [s EXCEPT !.segments_out = @ \o q, !.segments_backup = @ \o q, !.timer = tm,
                    !.next_seqno = @ + (n + f), !.stream = o, !.FIN_sent = @ \/ fin]
  <2>1. AfterRead(s.stream, n) = o
    BY <1>1 DEF AfterRead
  <2> HIDE DEF n, q, fin, o
  <2> QED BY Zenon, <2>1 DEF fill_window, Transmit, n, q, fin
<1>8. tm \in Timers
  BY Zenon, <1>2, StartTimer
<1> HIDE DEF q, n, fin, o, w, t, tm
<1>9. q \in Seq(Segments) /\ hi \in Nat /\ s.next_seqno + (n + f) = hi /\ hi >= s.next_seqno
  BY <1>2, <1>3, <1>4 DEF Tiles
<1>10. s.segments_out \o q \in Seq(Segments) /\ s.segments_backup \o q \in Seq(Segments)
  BY <1>2, <1>9
<1> HIDE DEF f, hi
<1>11. /\ t \in Senders
       /\ t.isn = s.isn /\ t.segments_out = s.segments_out \o q
       /\ t.segments_backup = s.segments_backup \o q
       /\ t.initial_retransmission_timeout = s.initial_retransmission_timeout
       /\ t.retransmission_timeout = s.retransmission_timeout
       /\ t.consecutive_retransmissions = s.consecutive_retransmissions
       /\ t.abs_ackno = s.abs_ackno /\ t.window_size = s.window_size
       /\ t.timer = tm /\ t.stream = o /\ t.next_seqno = hi
       /\ t.SYN_sent = s.SYN_sent /\ t.FIN_sent = (s.FIN_sent \/ fin)
  <2>1. (s.FIN_sent \/ fin) \in BOOLEAN
    BY Zenon
  <2> QED BY Zenon, <1>1, <1>3, <1>6, <1>7, <1>8, <1>9, <1>10, <2>1 DEF Senders
<1>12. hi > s.next_seqno => hi <= s.abs_ackno + w
  BY <1>2, <1>3 DEF hi, f
<1>13. Counts(t)
  <2>1. t.next_seqno = Sent(t)
    <3>1. s.next_seqno = (1 + s.stream.bytes_read) + (IF s.FIN_sent THEN 1 ELSE 0)
      BY <1>1 DEF Sent
    <3>2. /\ s.stream.bytes_read \in Nat
      BY <1>1 DEF Orderly, ByteStreams
    <3>3. s.FIN_sent => n = 0 /\ f = 0
      BY <1>3 DEF f
    <3>4. hi = (1 + (s.stream.bytes_read + n)) + (IF s.FIN_sent \/ fin THEN 1 ELSE 0)
      <4>1. CASE s.FIN_sent
        BY <1>3, <3>1, <3>2, <3>3, <4>1 DEF hi
      <4>2. CASE ~s.FIN_sent
        <5>1. f = IF s.FIN_sent \/ fin THEN 1 ELSE 0
          BY Zenon, <4>2 DEF f
        <5>2. s.next_seqno = 1 + s.stream.bytes_read
          BY <3>1, <3>2, <4>2
        <5>3. hi = (1 + (s.stream.bytes_read + n)) + f
          BY SMTT(30), <1>3, <3>2, <5>2 DEF hi
        <5> QED BY Zenon, <5>1, <5>3
      <4> QED BY Zenon, <4>1, <4>2
    <3> QED BY Zenon, <1>6, <1>11, <3>4 DEF Sent
  <2>2. t.FIN_sent => t.stream.input_end /\ t.stream.buffer = << >>
    <3>1. CASE s.FIN_sent
      <4>1. n = 0 /\ s.stream.input_end /\ s.stream.buffer = << >> /\ Len(s.stream.buffer) = 0
        BY <1>1, <1>3, <3>1
      <4>2. Len(o.buffer) = 0
        <5>1. /\ o.bytes_written = o.bytes_read + Len(o.buffer)
              /\ s.stream.bytes_written = s.stream.bytes_read + Len(s.stream.buffer)
              /\ o.bytes_read \in Nat /\ s.stream.bytes_read \in Nat /\ Len(o.buffer) \in Nat
          BY <1>1, <1>6 DEF Orderly, ByteStreams
        <5>2. o.bytes_read + Len(o.buffer) = o.bytes_read
          BY Zenon, <1>3, <1>6, <4>1, <5>1
        <5> QED BY <5>1, <5>2
      <4> QED BY Zenon, <1>6, <1>11, <4>1, <4>2, EmptySeq
    <3>2. CASE fin
      <4>1. n = Len(s.stream.buffer) /\ s.stream.input_end
        BY <1>3, <3>2
      <4>2. Len(o.buffer) = 0
        <5>1. /\ o.bytes_written = o.bytes_read + Len(o.buffer)
              /\ s.stream.bytes_written = s.stream.bytes_read + Len(s.stream.buffer)
              /\ o.bytes_read \in Nat /\ s.stream.bytes_read \in Nat /\ Len(o.buffer) \in Nat
          BY <1>1, <1>6 DEF Orderly, ByteStreams
        <5>2. o.bytes_read + Len(o.buffer) = o.bytes_read
          BY Zenon, <1>3, <1>6, <4>1, <5>1
        <5> QED BY <5>1, <5>2
      <4> QED BY Zenon, <1>6, <1>11, <4>1, <4>2, EmptySeq
    <3> QED BY Zenon, <1>11, <3>1, <3>2
  <2>3. 2 * ((hi - s.abs_ackno) + MaxPayloadSize) <= SeqMod
    <3>1. CASE hi = s.next_seqno
      BY <1>1, <3>1
    <3>2. CASE hi # s.next_seqno
      <4>1. hi - s.abs_ackno <= w
        BY SMTT(30), <1>2, <1>5, <1>9, <1>12, <3>2
      <4> QED BY SMTT(30), <1>2, <1>5, <1>9, <4>1, MaxPayloadAssumption, SeqModAssumption
    <3> QED BY SMTT(30), <3>1, <3>2
  <2>4. t.abs_ackno <= t.next_seqno
    BY <1>1, <1>2, <1>9, <1>11
  <2>5. t.SYN_sent /\ Orderly(t.stream) /\ ~t.stream.error /\ t.stream.bytes_written <= StreamLen
    BY <1>1, <1>6, <1>11
  <2>6. t.window_size \in Windows \cup {1}
    BY <1>1, <1>11
  <2> QED BY SMTT(30), <1>11, <2>1, <2>2, <2>3, <2>4, <2>5, <2>6 DEF Counts
<1>14. Sound(t)
  <2>1. t.timer = IF s.timer.active \/ q = << >> THEN s.timer
                  ELSE start_timer(s.retransmission_timeout)
    BY <1>11 DEF tm
  <2>2. /\ t.stream.input_end = s.stream.input_end
        /\ t.stream.bytes_written = s.stream.bytes_written
        /\ t.next_seqno = hi
    BY <1>6, <1>11
  <2>3. AllHonest(q, t)
    BY Zenon, <1>4, <1>11, <2>2
  <2>4. t.next_seqno >= s.next_seqno
    BY <1>9, <2>2
  <2> QED BY Zenon, <1>4, <1>11, <1>13, <2>1, <2>2, <2>3, <2>4, SendingKeeps
<1> QED
  BY Zenon, <1>9, <1>11, <1>12, <1>14 DEF t, w
================================================================================
