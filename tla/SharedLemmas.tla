------------------------------ MODULE SharedLemmas ------------------------------
(***************************************************************************)
(* Facts the proofs about reassembler, receiver and sender share:          *)
(* excerpts of a stream, ByteStreams that hold one, and what unwrap makes  *)
(* of a number that wrap has cut to 32 bits.                               *)
(***************************************************************************)
EXTENDS ByteStream, WrappingIntegers, TLAPS, WellFoundedInduction,
        SequenceTheorems

\* A string that holds the bytes of the stream from index i on.
IsExcerpt(d, i) ==
    /\ d \in Seq(Nat)
    /\ \A k \in 1 .. Len(d) : d[k] = (i + k) - 1

\* A stream that holds, in order and within its capacity, the bytes that were
\* written and not yet read.
Orderly(o) ==
    /\ o \in ByteStreams
    /\ Len(o.buffer) <= o.capacity
    /\ o.bytes_written = o.bytes_read + Len(o.buffer)
    /\ IsExcerpt(o.buffer, o.bytes_read)

--------------------------------------------------------------------------------
(***************************************************************************)
(* Every non-empty set of natural numbers has a least element.             *)
(***************************************************************************)
LEMMA LeastNat ==
    ASSUME NEW T, T \subseteq Nat, T # {}
    PROVE  \E x \in T : \A y \in T : x <= y
<1> DEFINE R == OpToRel(<, Nat)
<1>1. IsWellFoundedOn(R, Nat)
  BY Zenon, NatLessThanWellFounded
<1>2. \A x, y \in Nat : x < y => <<x, y>> \in R
  BY DEF OpToRel
<1> HIDE DEF R
<1>3. \E x \in T : \A y \in T : ~(<<y, x>> \in R)
  BY Zenon, <1>1, WFMin
<1>4. ASSUME NEW x \in T, NEW y \in T, ~(<<y, x>> \in R)
      PROVE  x <= y
  BY <1>2, <1>4
<1> QED
  BY Zenon, <1>3, <1>4

(***************************************************************************)
(* The bytes of the stream from index i on, n of them, are an excerpt.     *)
(***************************************************************************)
LEMMA ExcerptIsExcerpt ==
    ASSUME NEW i \in Nat, NEW n \in Nat
    PROVE  LET d == [k \in 1 .. n |-> (i + k) - 1]
           IN  IsExcerpt(d, i) /\ Len(d) = n
<1> DEFINE d == [k \in 1 .. n |-> (i + k) - 1]
<1>1. \A k \in 1 .. n : (i + k) - 1 \in Nat
  OBVIOUS
<1>2. d \in [1 .. n -> Nat] /\ \A k \in 1 .. n : d[k] = (i + k) - 1
  BY <1>1
<1> HIDE DEF d
<1>3. d \in Seq(Nat) /\ Len(d) = n
  BY <1>2
<1>4. IsExcerpt(d, i) /\ Len(d) = n
  BY <1>2, <1>3 DEF IsExcerpt
<1> QED BY <1>4 DEF d

(***************************************************************************)
(* What substr() cuts out of an excerpt is again an excerpt.               *)
(***************************************************************************)
LEMMA SubstrExcerpt ==
    ASSUME NEW d, NEW i \in Nat, IsExcerpt(d, i), NEW p \in Nat, NEW m \in Nat
    PROVE  /\ IsExcerpt(Substr(d, p, m), i + p)
           /\ Len(Substr(d, p, m)) =
                 IF p >= Len(d) THEN 0
                 ELSE IF p + m > Len(d) THEN Len(d) - p ELSE m
<1> DEFINE e == IF p + m > Len(d) THEN Len(d) ELSE p + m
<1>1. d \in Seq(Nat) /\ Len(d) \in Nat /\ e \in Nat /\ e <= Len(d)
  BY DEF IsExcerpt
<1>2. Substr(d, p, m) = SubSeq(d, p + 1, e)
  BY DEF Substr
<1>3. /\ SubSeq(d, p + 1, e) \in Seq(Nat)
      /\ Len(SubSeq(d, p + 1, e)) = IF p + 1 <= e THEN e - p ELSE 0
      /\ \A k \in 1 .. Len(SubSeq(d, p + 1, e)) : SubSeq(d, p + 1, e)[k] = d[p + k]
  <2> HIDE DEF e
  <2>1. \A k \in (p + 1) .. e : d[k] \in Nat
    BY <1>1, ElementOfSeq
  <2> DEFINE q == p + 1
  <2>2. q \in Int /\ e \in Int /\ \A k \in q .. e : d[k] \in Nat
    BY <1>1, <2>1
  <2> HIDE DEF q
  <2>3. SubSeq(d, q, e) \in Seq(Nat)
    BY <2>2, SubSeqProperties
  <2>4. Len(SubSeq(d, q, e)) = IF q <= e THEN e - q + 1 ELSE 0
    BY <2>2, SubSeqProperties
  <2>5. \A k \in 1 .. (e - q + 1) : SubSeq(d, q, e)[k] = d[q + k - 1]
    BY <2>2, SubSeqProperties
  <2> USE DEF q
  <2>6. \A k \in Nat : q + k - 1 = p + k
    OBVIOUS
  <2> QED
    BY <1>1, <2>3, <2>4, <2>5, <2>6
<1>4. \A k \in 1 .. Len(SubSeq(d, p + 1, e)) : SubSeq(d, p + 1, e)[k] = (i + p + k) - 1
  <2> HIDE DEF e
  <2> QED BY <1>1, <1>3 DEF IsExcerpt
<1>5. Len(SubSeq(d, p + 1, e)) =
         IF p >= Len(d) THEN 0 ELSE IF p + m > Len(d) THEN Len(d) - p ELSE m
  BY <1>1, <1>3
<1> QED
  BY <1>2, <1>3, <1>4, <1>5, SMTT(20) DEF IsExcerpt

(***************************************************************************)
(* Two excerpts that follow each other make one.                           *)
(***************************************************************************)
LEMMA ConcatExcerpt ==
    ASSUME NEW a, NEW b, NEW i \in Nat, IsExcerpt(a, i), IsExcerpt(b, i + Len(a))
    PROVE  IsExcerpt(a \o b, i) /\ Len(a \o b) = Len(a) + Len(b)
<1>1. a \in Seq(Nat) /\ b \in Seq(Nat) /\ Len(a) \in Nat /\ Len(b) \in Nat
  BY DEF IsExcerpt
<1>2. /\ a \o b \in Seq(Nat)
      /\ Len(a \o b) = Len(a) + Len(b)
      /\ \A k \in 1 .. (Len(a) + Len(b)) :
            (a \o b)[k] = IF k <= Len(a) THEN a[k] ELSE b[k - Len(a)]
  BY <1>1
<1>3. ASSUME NEW k \in 1 .. (Len(a) + Len(b))
      PROVE  (a \o b)[k] = (i + k) - 1
  <2>1. CASE k <= Len(a)
    <3>1. a[k] = (i + k) - 1
      BY <1>1, <2>1 DEF IsExcerpt
    <3> QED BY <1>2, <2>1, <3>1
  <2>2. CASE ~(k <= Len(a))
    <3>1. k - Len(a) \in 1 .. Len(b)
      BY <1>1, <2>2
    <3>2. b[k - Len(a)] = ((i + Len(a)) + (k - Len(a))) - 1
      BY <3>1 DEF IsExcerpt
    <3>3. ((i + Len(a)) + (k - Len(a))) - 1 = (i + k) - 1
      BY <1>1
    <3> QED BY <1>2, <2>2, <3>2, <3>3
  <2> QED BY <2>1, <2>2
<1> QED BY <1>2, <1>3 DEF IsExcerpt

(***************************************************************************)
(* An excerpt without its first n bytes is one that starts n later.        *)
(***************************************************************************)
LEMMA DropExcerpt ==
    ASSUME NEW d, NEW i \in Nat, IsExcerpt(d, i), NEW n \in 0 .. Len(d)
    PROVE  LET e == SubSeq(d, n + 1, Len(d))
           IN  IsExcerpt(e, i + n) /\ Len(e) = Len(d) - n
<1>1. d \in Seq(Nat) /\ Len(d) \in Nat /\ n \in Nat
  BY DEF IsExcerpt
<1> DEFINE q == n + 1
           m == Len(d)
           e == SubSeq(d, q, m)
<1>2. q \in Int /\ m \in Int /\ q >= 1
  BY <1>1
<1>3. \A k \in q .. m : d[k] \in Nat
  <2> HIDE DEF q
  <2>1. \A k \in q .. m : k \in 1 .. Len(d)
    BY <1>1, <1>2
  <2> QED BY <1>1, <2>1, ElementOfSeq
<1> HIDE DEF q, m
<1>4. /\ e \in Seq(Nat)
      /\ Len(e) = IF q <= m THEN m - q + 1 ELSE 0
      /\ \A k \in 1 .. (m - q + 1) : e[k] = d[q + k - 1]
  BY <1>2, <1>3, SubSeqProperties
<1>5. Len(e) = Len(d) - n
  BY <1>1, <1>4 DEF q, m
<1>6. ASSUME NEW k \in 1 .. Len(e) PROVE e[k] = ((i + n) + k) - 1
  <2>1. k \in 1 .. (m - q + 1) /\ q + k - 1 = n + k /\ n + k \in 1 .. Len(d)
    BY <1>1, <1>5 DEF q, m
  <2>2. d[n + k] = (i + (n + k)) - 1
    BY <2>1 DEF IsExcerpt
  <2>3. (i + (n + k)) - 1 = ((i + n) + k) - 1
    BY <1>1
  <2>4. e[k] = d[n + k]
    BY <1>4, <2>1
  <2> QED BY <2>2, <2>3, <2>4
<1>7. IsExcerpt(e, i + n) /\ Len(e) = Len(d) - n
  BY <1>4, <1>5, <1>6 DEF IsExcerpt
<1> QED BY <1>7 DEF q, m

--------------------------------------------------------------------------------
(***************************************************************************)
(* An orderly stream stays orderly when write() is given the bytes that    *)
(* continue it, whether it takes all of them or not.                       *)
(***************************************************************************)
LEMMA WriteOrderly ==
    ASSUME NEW o, Orderly(o), NEW d, IsExcerpt(d, o.bytes_written)
    PROVE  /\ Orderly(write(o, d))
           /\ WriteCount(o, d) \in 0 .. Len(d)
           /\ write(o, d) = [o EXCEPT !.buffer = write(o, d).buffer,
                                      !.bytes_written = o.bytes_written + WriteCount(o, d)]
<1> DEFINE n == WriteCount(o, d)
           e == Substr(d, 0, n)
<1>1. /\ o \in ByteStreams /\ d \in Seq(Nat) /\ Len(d) \in Nat
      /\ o.buffer \in Seq(Nat) /\ Len(o.buffer) \in Nat /\ o.capacity \in Nat
      /\ o.bytes_written \in Nat /\ o.bytes_read \in Nat
      /\ Len(o.buffer) <= o.capacity
      /\ o.bytes_written = o.bytes_read + Len(o.buffer)
      /\ IsExcerpt(o.buffer, o.bytes_read)
  BY DEF Orderly, IsExcerpt, ByteStreams
<1>2. n \in 0 .. Len(d) /\ n <= o.capacity - Len(o.buffer)
  BY <1>1 DEF WriteCount, remaining_capacity
<1>3. write(o, d) = [o EXCEPT !.buffer = @ \o e, !.bytes_written = @ + n]
  BY DEF write
<1> HIDE DEF n
<1>4. IsExcerpt(e, o.bytes_written + 0) /\ Len(e) = n
  <2>1. 0 \in Nat /\ n \in Nat
    BY <1>1, <1>2
  <2>2. /\ IsExcerpt(e, o.bytes_written + 0)
        /\ Len(e) = IF 0 >= Len(d) THEN 0 ELSE IF 0 + n > Len(d) THEN Len(d) - 0 ELSE n
    BY Zenon, <1>1, <2>1, SubstrExcerpt
  <2> HIDE DEF e
  <2> QED BY <1>1, <1>2, <2>2
<1>5. IsExcerpt(e, o.bytes_read + Len(o.buffer))
  BY <1>1, <1>4
<1> HIDE DEF e
<1>6. IsExcerpt(o.buffer \o e, o.bytes_read) /\ Len(o.buffer \o e) = Len(o.buffer) + n
  BY Zenon, <1>1, <1>4, <1>5, ConcatExcerpt
<1>7. o.buffer \o e \in Seq(Nat) /\ o.bytes_written + n \in Nat
  BY <1>1, <1>2, <1>6 DEF IsExcerpt
<1>8. /\ write(o, d) \in ByteStreams
      /\ write(o, d).buffer = o.buffer \o e
      /\ write(o, d).bytes_written = o.bytes_written + n
      /\ write(o, d).bytes_read = o.bytes_read
      /\ write(o, d).capacity = o.capacity
  BY Zenon, <1>1, <1>3, <1>7 DEF ByteStreams
<1>9. Orderly(write(o, d))
  BY <1>1, <1>2, <1>6, <1>8 DEF Orderly
<1>10. write(o, d) = [o EXCEPT !.buffer = write(o, d).buffer, !.bytes_written = o.bytes_written + n]
  BY <1>3, <1>8
<1> QED BY <1>2, <1>9, <1>10 DEF n

(***************************************************************************)
(* read() and pop_output() take bytes off the front; what is left is       *)
(* orderly, and nothing else of the stream changes.                        *)
(***************************************************************************)
LEMMA PopOrderly ==
    ASSUME NEW o, Orderly(o), NEW len \in Nat
    PROVE  LET n == Len(peek_output(o, len))
           IN  /\ n = IF len > Len(o.buffer) THEN Len(o.buffer) ELSE len
               /\ IsExcerpt(peek_output(o, len), o.bytes_read)
               /\ Orderly(pop_output(o, len))
               /\ pop_output(o, len) = [o EXCEPT !.buffer = pop_output(o, len).buffer,
                                                 !.bytes_read = o.bytes_read + n]
<1> DEFINE n == Len(peek_output(o, len))
           b == SubSeq(o.buffer, n + 1, Len(o.buffer))
<1>1. /\ o \in ByteStreams /\ o.buffer \in Seq(Nat) /\ Len(o.buffer) \in Nat
      /\ o.capacity \in Nat /\ o.bytes_written \in Nat /\ o.bytes_read \in Nat
      /\ Len(o.buffer) <= o.capacity
      /\ o.bytes_written = o.bytes_read + Len(o.buffer)
      /\ IsExcerpt(o.buffer, o.bytes_read)
  BY DEF Orderly, IsExcerpt, ByteStreams
<1>2. /\ IsExcerpt(peek_output(o, len), o.bytes_read)
      /\ n = IF len > Len(o.buffer) THEN Len(o.buffer) ELSE len
  <2>1. 0 \in Nat
    OBVIOUS
  <2>2. /\ IsExcerpt(Substr(o.buffer, 0, len), o.bytes_read + 0)
        /\ Len(Substr(o.buffer, 0, len)) =
              IF 0 >= Len(o.buffer) THEN 0
              ELSE IF 0 + len > Len(o.buffer) THEN Len(o.buffer) - 0 ELSE len
    BY Zenon, <1>1, <2>1, SubstrExcerpt
  <2>3. o.bytes_read + 0 = o.bytes_read
    BY <1>1
  <2> QED BY <1>1, <2>2, <2>3 DEF peek_output
<1>3. pop_output(o, len) = [o EXCEPT !.bytes_read = @ + n, !.buffer = b]
  BY DEF pop_output
<1>4. n \in 0 .. Len(o.buffer)
  BY <1>1, <1>2
<1> HIDE DEF n
<1>5. IsExcerpt(b, o.bytes_read + n) /\ Len(b) = Len(o.buffer) - n
  BY <1>1, <1>4, DropExcerpt
<1> HIDE DEF b
<1>6. b \in Seq(Nat) /\ o.bytes_read + n \in Nat
  BY <1>1, <1>4, <1>5 DEF IsExcerpt
<1>7. /\ pop_output(o, len) \in ByteStreams
      /\ pop_output(o, len).buffer = b
      /\ pop_output(o, len).bytes_written = o.bytes_written
      /\ pop_output(o, len).bytes_read = o.bytes_read + n
      /\ pop_output(o, len).capacity = o.capacity
  BY Zenon, <1>1, <1>3, <1>6 DEF ByteStreams
<1>8. Len(b) <= o.capacity /\ o.bytes_written = (o.bytes_read + n) + Len(b)
  BY <1>1, <1>4, <1>5
<1>9. Orderly(pop_output(o, len))
  BY <1>5, <1>7, <1>8 DEF Orderly
<1>10. pop_output(o, len) = [o EXCEPT !.buffer = pop_output(o, len).buffer,
                                      !.bytes_read = o.bytes_read + n]
  BY Zenon, <1>1, <1>3, <1>7 DEF ByteStreams
<1> QED BY <1>2, <1>9, <1>10 DEF n

--------------------------------------------------------------------------------
(***************************************************************************)
(* Division with remainder is unique.                                      *)
(***************************************************************************)
LEMMA DivMod ==
    ASSUME NEW M \in Nat, M > 0, NEW q \in Nat, NEW r \in 0 .. (M - 1)
    PROVE  (q * M + r) % M = r /\ (q * M + r) \div M = q
OBVIOUS

(***************************************************************************)
(* The numbers that wrap to n are those that lie whole laps above the one  *)
(* unwrap starts from.                                                     *)
(***************************************************************************)
LEMMA WrapLaps ==
    ASSUME NEW n \in WrappingInt, NEW isn \in WrappingInt
    PROVE  /\ InitAbsSeqno(n, isn) \in 0 .. (SeqMod - 1)
           /\ \A q \in Nat : wrap(InitAbsSeqno(n, isn) + q * SeqMod, isn) = n
           /\ \A b \in Nat : wrap(b, isn) = n =>
                 \E q \in Nat : b = InitAbsSeqno(n, isn) + q * SeqMod
<1> DEFINE i == InitAbsSeqno(n, isn)
<1>1. /\ SeqMod \in Nat /\ SeqMod > 0 /\ n \in 0 .. (SeqMod - 1)
      /\ isn \in 0 .. (SeqMod - 1)
  BY SeqModAssumption DEF WrappingInt
<1>2. i \in 0 .. (SeqMod - 1) /\ (isn + i = n \/ isn + i = n + SeqMod)
  BY <1>1 DEF InitAbsSeqno
<1> HIDE DEF i
<1>3. ASSUME NEW q \in Nat PROVE wrap(i + q * SeqMod, isn) = n
  <2>1. q * SeqMod \in Nat /\ (q + 1) * SeqMod = q * SeqMod + SeqMod
    BY <1>1
  <2>2. CASE isn + i = n
    <3>1. isn + (i + q * SeqMod) = q * SeqMod + n
      BY <1>1, <1>2, <2>1, <2>2
    <3>2. (q * SeqMod + n) % SeqMod = n
      BY <1>1, DivMod
    <3> QED BY <3>1, <3>2 DEF wrap
  <2>3. CASE isn + i = n + SeqMod
    <3>1. isn + (i + q * SeqMod) = (q + 1) * SeqMod + n
      BY <1>1, <1>2, <2>1, <2>3
    <3>2. q + 1 \in Nat
      OBVIOUS
    <3>3. ((q + 1) * SeqMod + n) % SeqMod = n
      BY <1>1, <3>2, DivMod
    <3> QED BY <3>1, <3>3 DEF wrap
  <2> QED BY <1>2, <2>2, <2>3
<1>4. ASSUME NEW b \in Nat, wrap(b, isn) = n
      PROVE  \E q \in Nat : b = i + q * SeqMod
  <2> DEFINE k == (isn + b) \div SeqMod
  <2>1. k \in Nat /\ isn + b = k * SeqMod + n
    BY <1>1, <1>4 DEF wrap
  <2> HIDE DEF k
  <2>2. CASE isn + i = n
    <3>1. b = i + k * SeqMod
      BY <1>1, <1>2, <2>1, <2>2
    <3> QED BY <2>1, <3>1
  <2>3. CASE isn + i = n + SeqMod
    <3>1. k # 0
      BY <1>1, <1>2, <2>1, <2>3
    <3>2. k - 1 \in Nat /\ k * SeqMod = (k - 1) * SeqMod + SeqMod
      BY <1>1, <2>1, <3>1
    <3>3. b = i + (k - 1) * SeqMod
      BY SMTT(30), <1>1, <1>2, <2>1, <2>3, <3>2
    <3> QED BY <3>2, <3>3
  <2> QED BY <1>2, <2>2, <2>3
<1> QED BY <1>2, <1>3, <1>4 DEF i

(***************************************************************************)
(* unwrap answers with a number that wraps to n and, unless the checkpoint *)
(* lies on the second lap, with the one closest to the checkpoint.         *)
(***************************************************************************)
LEMMA UnwrapClosest ==
    ASSUME NEW n \in WrappingInt, NEW isn \in WrappingInt, NEW c \in Nat
    PROVE  /\ unwrap(n, isn, c) \in Nat
           /\ wrap(unwrap(n, isn, c), isn) = n
           /\ c \div SeqMod # 1 =>
                \A b \in Nat : wrap(b, isn) = n =>
                    Distance(unwrap(n, isn, c), c) <= Distance(b, c)
<1> DEFINE i == InitAbsSeqno(n, isn)
           p == c \div SeqMod
           lap(q) == i + q * SeqMod
           u == unwrap(n, isn, c)
           l == IF p <= 1 THEN p ELSE p - 1
<1>1. SeqMod \in Nat /\ SeqMod > 1 /\ p \in Nat
  BY SeqModAssumption
<1>2. /\ i \in 0 .. (SeqMod - 1)
      /\ \A q \in Nat : lap(q) \in Nat /\ wrap(lap(q), isn) = n
      /\ \A b \in Nat : wrap(b, isn) = n => \E q \in Nat : b = lap(q)
  <2>1. i \in 0 .. (SeqMod - 1)
    BY WrapLaps
  <2>2. ASSUME NEW q \in Nat PROVE lap(q) \in Nat
    <3> HIDE DEF i
    <3> QED BY <1>1, <2>1
  <2> QED BY Zenon, <2>1, <2>2, WrapLaps
<1>3. p * SeqMod <= c /\ c < (p + 1) * SeqMod
  BY <1>1
<1>4. /\ l \in Nat /\ p + 1 \in Nat
      /\ (p = 0 => l = 0) /\ (p > 1 => l = p - 1)
  BY <1>1
<1>5. /\ u \in {lap(l), lap(p), lap(p + 1)}
      /\ Distance(u, c) <= Distance(lap(l), c)
      /\ Distance(u, c) <= Distance(lap(p), c)
      /\ Distance(u, c) <= Distance(lap(p + 1), c)
  <2> DEFINE a0 == lap(l)
             a1 == lap(p)
             a2 == lap(p + 1)
  <2>1. a0 \in Nat /\ a1 \in Nat /\ a2 \in Nat
    BY Zenon, <1>1, <1>2, <1>4
  <2>2. u = IF Distance(a0, c) <= Distance(a1, c)
            THEN IF Distance(a0, c) <= Distance(a2, c) THEN a0 ELSE a2
            ELSE IF Distance(a1, c) <= Distance(a2, c) THEN a1 ELSE a2
    BY DEF unwrap
  <2> HIDE DEF a0, a1, a2, u
  <2>3. /\ u \in {a0, a1, a2}
        /\ Distance(u, c) <= Distance(a0, c)
        /\ Distance(u, c) <= Distance(a1, c)
        /\ Distance(u, c) <= Distance(a2, c)
    BY <2>1, <2>2 DEF Distance
  <2> QED BY <2>3 DEF a0, a1, a2
<1>6. u \in Nat /\ wrap(u, isn) = n
  BY Zenon, <1>1, <1>2, <1>4, <1>5
<1>7. ASSUME p # 1, NEW q \in Nat PROVE Distance(u, c) <= Distance(lap(q), c)
  <2>1. CASE q < l
    <3>1. p > 1 /\ l = p - 1
      BY <1>1, <1>4, <1>7, <2>1
    <3>2. lap(q) <= lap(p - 1) /\ lap(p - 1) <= c
      <4>1. q * SeqMod <= (p - 1) * SeqMod /\ (p - 1) * SeqMod + SeqMod = p * SeqMod
        BY <1>1, <2>1, <3>1
      <4>2. q * SeqMod \in Nat /\ (p - 1) * SeqMod \in Int /\ p * SeqMod \in Nat
        BY <1>1
      <4> HIDE DEF i, p
      <4> QED BY <1>1, <1>2, <1>3, <4>1, <4>2
    <3>3. Distance(lap(p - 1), c) <= Distance(lap(q), c)
      <4>1. lap(q) \in Nat /\ lap(p - 1) \in Nat
        BY <1>2, <1>4, <3>1
      <4> HIDE DEF i, lap
      <4> QED BY <3>2, <4>1 DEF Distance
    <3>4. Distance(u, c) <= Distance(lap(p - 1), c)
      BY <1>5, <3>1
    <3>5. lap(q) \in Nat /\ lap(p - 1) \in Nat
      BY <1>2, <1>4, <3>1
    <3> HIDE DEF u, lap
    <3> QED BY <1>6, <3>3, <3>4, <3>5 DEF Distance
  <2>2. CASE q = l \/ q = p \/ q = p + 1
    BY Zenon, <1>5, <2>2
  <2>3. CASE q > p + 1
    <3>1. lap(p + 1) <= lap(q) /\ c <= lap(p + 1)
      <4>1. (p + 1) * SeqMod <= q * SeqMod
        BY <1>1, <2>3
      <4>2. q * SeqMod \in Nat /\ (p + 1) * SeqMod \in Int
        BY <1>1
      <4> HIDE DEF i, p
      <4> QED BY <1>1, <1>2, <1>3, <4>1, <4>2
    <3>2. lap(p + 1) \in Nat /\ lap(q) \in Nat
      BY <1>2, <1>4
    <3> HIDE DEF u, lap
    <3> QED BY <1>5, <1>6, <3>1, <3>2 DEF Distance
  <2>4. q < l \/ q = l \/ q = p \/ q = p + 1 \/ q > p + 1
    BY <1>1, <1>4, <1>7
  <2> QED BY <2>1, <2>2, <2>3, <2>4
<1> QED BY Zenon, <1>2, <1>6, <1>7

(***************************************************************************)
(* On the first lap unwrap undoes wrap for every number ahead of the       *)
(* checkpoint, and for those at most half a lap behind it.                 *)
(***************************************************************************)
LEMMA UnwrapFirstLap ==
    ASSUME NEW isn \in WrappingInt, NEW a \in Nat, a < SeqMod,
           NEW c \in Nat, c < SeqMod, c > a => 2 * (c - a) <= SeqMod
    PROVE  /\ wrap(a, isn) \in WrappingInt
           /\ unwrap(wrap(a, isn), isn, c) = a
<1>1. /\ SeqMod \in Nat /\ SeqMod > 1 /\ isn \in 0 .. (SeqMod - 1)
  BY SeqModAssumption DEF WrappingInt
<1>2. /\ isn + a < SeqMod => wrap(a, isn) = isn + a
      /\ isn + a >= SeqMod => wrap(a, isn) = (isn + a) - SeqMod
  BY <1>1 DEF wrap
<1>3. wrap(a, isn) \in WrappingInt /\ InitAbsSeqno(wrap(a, isn), isn) = a
  BY <1>1, <1>2 DEF InitAbsSeqno, WrappingInt
<1>4. c \div SeqMod = 0
  BY <1>1
<1>5. /\ a + 0 * SeqMod = a /\ a + (0 + 1) * SeqMod = a + SeqMod
      /\ Distance(a, c) <= Distance(a + SeqMod, c)
  BY <1>1 DEF Distance
<1> HIDE DEF wrap
<1>6. unwrap(wrap(a, isn), isn, c) = a
  <2> DEFINE n == wrap(a, isn)
  <2>1. InitAbsSeqno(n, isn) = a
    BY <1>3
  <2>2. Distance(a, c) <= Distance(a, c)
    BY <1>1 DEF Distance
  <2> HIDE DEF n
  <2> QED BY <1>4, <1>5, <2>1, <2>2 DEF unwrap, n
<1> QED BY <1>3, <1>6
===============================================================================
