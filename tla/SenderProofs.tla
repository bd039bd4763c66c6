------------------------------ MODULE SenderProofs ------------------------------
(***************************************************************************)
(* Proofs about SenderSpec, for every capacity, payload size, timeout and  *)
(* initial sequence number, as long as the stream stays on the first lap   *)
(* of the sequence space and the windows are smaller than half a lap.      *)
(***************************************************************************)
EXTENDS SenderLemmas

(***************************************************************************)
(* A sender has sent no more numbers than the stream, its SYN and its FIN. *)
(***************************************************************************)
LEMMA NumbersFit ==
    ASSUME OneLap, NEW s, Counts(s)
    PROVE  s.next_seqno \in Nat /\ s.next_seqno < SeqMod
<1>1. /\ s.stream.bytes_read \in Nat /\ s.stream.bytes_written \in Nat
      /\ Len(s.stream.buffer) \in Nat
      /\ s.stream.bytes_written = s.stream.bytes_read + Len(s.stream.buffer)
      /\ s.stream.bytes_written <= StreamLen
  BY DEF Counts, Orderly, ByteStreams
<1>2. StreamLen \in Nat /\ StreamLen + 2 < SeqMod /\ SeqMod \in Nat
  BY SenderAssumption, SeqModAssumption DEF OneLap
<1>3. s.stream.bytes_read <= StreamLen
  BY <1>1, <1>2
<1>4. s.next_seqno = Sent(s)
  BY DEF Counts
<1>5. Sent(s) \in Nat /\ Sent(s) <= s.stream.bytes_read + 2
  BY <1>1 DEF Sent
<1> QED
  BY SMTT(30), <1>1, <1>2, <1>3, <1>4, <1>5

(***************************************************************************)
(* While numbers stay within one lap, check_seg_acked unwraps the sequence *)
(* number of an outstanding segment to the number the segment was made for.*)
(***************************************************************************)
LEMMA CheckIsExact ==
    ASSUME OneLap, NEW s, Sound(s), NEW a \in Nat, s.abs_ackno <= a, a <= s.next_seqno,
           NEW m, m.isn = s.isn, m.abs_ackno = a,
           NEW i \in 1 .. Len(s.segments_backup)
    PROVE  check_seg_acked(m, s.segments_backup[i]) <=> EndOf(s.segments_backup[i]) <= a
<1> DEFINE q   == s.segments_backup
           seg == q[i]
           one == q[1]
<1>1. /\ Counts(s) /\ Tiles(q, s.next_seqno) /\ AllHonest(q, s)
      /\ q # << >> => q[1].abs <= s.abs_ackno /\ s.abs_ackno < EndOf(q[1])
  BY DEF Sound, Outstanding
<1>2. /\ s.abs_ackno \in Nat /\ s.isn \in WrappingInt
      /\ 2 * ((s.next_seqno - s.abs_ackno) + MaxPayloadSize) <= SeqMod
  BY <1>1 DEF Counts, Senders
<1>3. s.next_seqno \in Nat /\ s.next_seqno < SeqMod /\ SeqMod \in Nat /\ MaxPayloadSize \in Nat
  BY <1>1, NumbersFit, SeqModAssumption, MaxPayloadAssumption
<1>4. q \in Seq(Segments) /\ q # << >> /\ Len(q) \in Nat /\ 1 \in 1 .. Len(q) /\ i >= 1
  <2>1. q \in Seq(Segments) /\ Len(q) \in Nat
    BY <1>1 DEF Tiles
  <2>2. 1 \in 1 .. Len(q) /\ i >= 1
    BY <2>1
  <2>3. q # << >>
    BY SMTT(30), <2>1, <2>2, EmptySeq
  <2> QED BY SMTT(30), <2>1, <2>2, <2>3
<1>5. /\ Honest(one, s) /\ Honest(seg, s) /\ seg \in Segments /\ one \in Segments
  BY <1>1, <1>4 DEF AllHonest, Honest
<1>6. one.abs <= seg.abs
  <2>1. CASE i = 1
    <3>1. one = seg /\ one.abs \in Nat
      BY <1>5, <2>1, SegmentFacts
    <3> QED BY <3>1
  <2>2. CASE i # 1
    <3>1. 1 < i
      BY <1>4, <2>2
    <3>2. EndOf(one) <= seg.abs /\ one.abs < EndOf(one)
      BY <1>1, <1>4, <3>1 DEF Tiles
    <3>3. one.abs \in Nat /\ EndOf(one) \in Nat /\ seg.abs \in Nat
      BY <1>5, SegmentFacts
    <3> HIDE DEF one, seg
    <3> QED BY <3>2, <3>3
  <2> QED BY <2>1, <2>2
<1>7. seg.abs < EndOf(seg) /\ EndOf(seg) <= s.next_seqno
  BY <1>1 DEF Tiles
<1>8. s.abs_ackno < EndOf(one)
  BY <1>1, <1>4
<1>9. seg.seqno = wrap(seg.abs, s.isn)
  BY <1>5 DEF Honest
<1>10. one.abs \in Nat /\ EndOf(one) <= (one.abs + MaxPayloadSize) + 1
  <2>1. /\ one.abs \in Nat /\ Len(one.payload) \in Nat /\ Len(one.payload) <= MaxPayloadSize
        /\ EndOf(one) = one.abs + length_in_sequence_space(one)
        /\ one.syn => one.abs = 0 /\ EndOf(one) = 1
    BY <1>5, SegmentFacts DEF Honest
  <2> HIDE DEF one
  <2>2. CASE one.syn
    BY <1>3, <2>1, <2>2
  <2>3. CASE ~one.syn
    <3>1. \/ length_in_sequence_space(one) = Len(one.payload)
          \/ length_in_sequence_space(one) = Len(one.payload) + 1
      <4>1. \A x \in Nat : (x + 0) + 0 = x /\ (x + 0) + 1 = x + 1
        BY SMTT(30)
      <4> QED BY Zenon, <2>1, <2>3, <4>1 DEF length_in_sequence_space
    <3> QED BY <1>3, <2>1, <3>1
  <2> QED BY SMTT(30), <2>2, <2>3
<1>11. seg.abs \in Nat /\ EndOf(seg) \in Nat /\ EndOf(one) \in Nat
       /\ EndOf(seg) = seg.abs + length_in_sequence_space(seg)
  BY <1>5, SegmentFacts
<1> HIDE DEF seg, one
<1>12. s.abs_ackno <= seg.abs + MaxPayloadSize
  BY SMTT(30), <1>2, <1>3, <1>6, <1>8, <1>10, <1>11
<1>13. a - seg.abs <= (s.next_seqno - s.abs_ackno) + MaxPayloadSize
  <2>1. \A u, v, x, y, z \in Nat : u <= y /\ v <= x + z => u - x <= (y - v) + z
    BY SMTT(30)
  <2> QED BY Zenon, <1>2, <1>3, <1>11, <1>12, <2>1
<1>14. 2 * (a - seg.abs) <= SeqMod
  BY SMTT(30), <1>2, <1>3, <1>11, <1>13
<1>15. seg.abs < SeqMod /\ a < SeqMod
  BY SMTT(30), <1>3, <1>7, <1>11
<1>16. unwrap(seg.seqno, m.isn, a) = seg.abs
  <2>1. unwrap(wrap(seg.abs, s.isn), s.isn, a) = seg.abs
    BY SMTT(30), <1>2, <1>11, <1>14, <1>15, UnwrapFirstLap
  <2> QED BY Zenon, <1>9, <2>1
<1> QED
  BY Zenon, <1>11, <1>16 DEF check_seg_acked, seg

(***************************************************************************)
(* ack_received pops exactly the outstanding segments that end at or       *)
(* before the acknowledged number.                                         *)
(***************************************************************************)
LEMMA PopsTheAcked ==
    ASSUME OneLap, NEW s, Sound(s), NEW a \in Nat, s.abs_ackno <= a, a <= s.next_seqno,
           NEW m, m.isn = s.isn, m.abs_ackno = a, m.segments_backup = s.segments_backup
    PROVE  LET q == s.segments_backup
               k == AckedCount(m)
           IN  /\ k \in 0 .. Len(q)
               /\ \A i \in 1 .. k : EndOf(q[i]) <= a
               /\ k < Len(q) => ~(EndOf(q[k + 1]) <= a)
<1> DEFINE q == s.segments_backup
           n == Len(q)
           k == AckedCount(m)
           P(j) == /\ \A i \in 1 .. j : check_seg_acked(m, q[i])
                   /\ j < n => ~check_seg_acked(m, q[j + 1])
           T == {x \in 0 .. n : x < n => ~check_seg_acked(m, q[x + 1])}
<1>1. n \in Nat
  BY DEF Sound, Counts, Senders
<1>2. \E j \in 0 .. n : P(j)
  <2>1. n \in T /\ T \subseteq Nat
    BY <1>1
  <2>2. PICK x \in T : \A y \in T : x <= y
    BY Zenon, <2>1, LeastNat
  <2>3. \A i \in 1 .. x : check_seg_acked(m, q[i])
    <3>1. SUFFICES ASSUME NEW i \in 1 .. x, ~check_seg_acked(m, q[i]) PROVE FALSE
      BY Zenon
    <3>2. x \in 0 .. n /\ i - 1 \in 0 .. n /\ i - 1 < n /\ (i - 1) + 1 = i
      BY <1>1, <2>2
    <3>3. i - 1 \in T
      BY <3>1, <3>2
    <3>4. x <= i - 1
      BY <2>2, <3>3
    <3> QED BY <3>2, <3>4
  <2> QED BY <2>2, <2>3
<1>3. k \in 0 .. n /\ P(k)
  <2>1. k = CHOOSE j \in 0 .. n : P(j)
    BY DEF AckedCount
  <2> HIDE DEF P, k
  <2> QED BY Zenon, <1>2, <2>1
<1>4. \A i \in 1 .. n : check_seg_acked(m, q[i]) <=> EndOf(q[i]) <= a
  BY Zenon, CheckIsExact
<1> HIDE DEF q, k
<1>5. (\A i \in 1 .. k : i \in 1 .. n) /\ (k < n => k + 1 \in 1 .. n)
  BY <1>1, <1>3
<1> QED
  BY Zenon, <1>3, <1>4, <1>5 DEF q, k

(***************************************************************************)
(* An acknowledgment, whatever its number, keeps the sender sound and      *)
(* takes back no acknowledgment.                                           *)
(***************************************************************************)
LEMMA AckKeeps ==
    ASSUME OneLap, NEW s, Sound(s), NEW ackno \in WrappingInt, NEW window \in Windows
    PROVE  /\ Sound(ack_received(s, ackno, window))
           /\ ack_received(s, ackno, window).next_seqno = s.next_seqno
           /\ ack_received(s, ackno, window).abs_ackno >= s.abs_ackno
<1> DEFINE abs == unwrap(ackno, s.isn, s.abs_ackno)
           a == IF abs > s.abs_ackno /\ abs <= s.next_seqno THEN abs ELSE s.abs_ackno
           m == NoteAck(s, ackno, window)
           k == AckedCount(m)
           q == s.segments_backup
           n == Len(q)
           rest == SubSeq(q, k + 1, n)
           rto == s.initial_retransmission_timeout
           tm == IF rest = << >> THEN stop_timer(s.timer)
                 ELSE IF k > 0 THEN start_timer(rto) ELSE s.timer
           t == ack_received(s, ackno, window)
           zero == 0
<1>1. /\ Counts(s) /\ Outstanding(s) /\ Timed(s) /\ s \in Senders
      /\ AllHonest(s.segments_out, s) /\ AllHonest(q, s)
      /\ s.abs_ackno <= s.next_seqno
      /\ 2 * ((s.next_seqno - s.abs_ackno) + MaxPayloadSize) <= SeqMod
  BY DEF Sound, Counts
<1>2. /\ s.isn \in WrappingInt /\ s.abs_ackno \in Nat /\ s.next_seqno \in Nat
      /\ rto \in Nat /\ s.timer \in Timers /\ s.window_size \in Nat /\ q \in Seq(Segments)
  BY <1>1 DEF Senders
<1>3. abs \in Nat
  BY Zenon, <1>2, UnwrapClosest
<1>4. window \in Nat /\ n \in Nat /\ zero \in Nat
  BY <1>2, SenderAssumption
<1>5. m = [s EXCEPT !.abs_ackno = a, !.window_size = window]
  BY DEF NoteAck
<1> HIDE DEF abs
<1>6. a \in Nat /\ s.abs_ackno <= a /\ a <= s.next_seqno
  BY <1>1, <1>2, <1>3
<1> HIDE DEF a, zero, m, rto
<1>7. /\ m.isn = s.isn /\ m.abs_ackno = a /\ m.segments_backup = q /\ m \in Senders
      /\ m.timer = s.timer
  BY Zenon, <1>1, <1>4, <1>5, <1>6 DEF Senders
<1>8. /\ k \in 0 .. n
      /\ \A i \in 1 .. k : EndOf(q[i]) <= a
      /\ k < n => ~(EndOf(q[k + 1]) <= a)
  BY Zenon, <1>6, <1>7, PopsTheAcked
<1> HIDE DEF k
<1>9. /\ Tiles(rest, s.next_seqno)
      /\ Len(rest) = n - k
      /\ \A i \in 1 .. Len(rest) : rest[i] = q[k + i]
  <2>1. Tiles(q, s.next_seqno)
    BY <1>1 DEF Outstanding
  <2> QED BY Zenon, <1>2, <1>8, <2>1, TilesSuffix
<1>10. t = [m EXCEPT !.segments_backup = rest, !.timer = tm,
                     !.retransmission_timeout = rto, !.consecutive_retransmissions = zero]
  <2>1. t = [m EXCEPT !.segments_backup = rest,
                      !.timer = IF rest = << >> THEN stop_timer(m.timer)
                                ELSE IF k > 0 THEN start_timer(rto) ELSE m.timer,
                      !.retransmission_timeout = rto, !.consecutive_retransmissions = zero]
    BY DEF ack_received, m, k, rto, zero
  <2> QED BY Zenon, <1>7, <2>1
<1> HIDE DEF rest, t
<1>11. rest \in Seq(Segments) /\ Len(rest) \in Nat /\ (rest = << >> <=> k = n) /\ k \in Nat
  <2>1. rest \in Seq(Segments) /\ Len(rest) \in Nat /\ k \in Nat
    BY <1>4, <1>8, <1>9 DEF Tiles
  <2>2. rest = << >> <=> Len(rest) = 0
    BY <2>1, EmptySeq
  <2>3. Len(rest) = 0 <=> k = n
    BY <1>4, <1>9, <2>1
  <2> QED BY Zenon, <2>1, <2>2, <2>3
<1>12. tm \in Timers
  <2>1. stop_timer(s.timer) \in Timers
    BY Zenon, <1>2 DEF stop_timer, Timers
  <2> QED BY Zenon, <1>2, <2>1, StartTimer
<1> HIDE DEF tm
<1>13. /\ t \in Senders /\ t.isn = s.isn /\ t.segments_out = s.segments_out
       /\ t.segments_backup = rest /\ t.initial_retransmission_timeout = rto
       /\ t.retransmission_timeout = rto /\ t.consecutive_retransmissions = zero
       /\ t.stream = s.stream /\ t.next_seqno = s.next_seqno /\ t.abs_ackno = a
       /\ t.window_size = window /\ t.SYN_sent = s.SYN_sent /\ t.FIN_sent = s.FIN_sent
       /\ t.timer = tm
  <2>1. /\ m \in Senders /\ m.isn = s.isn /\ m.segments_out = s.segments_out
        /\ m.initial_retransmission_timeout = rto
        /\ m.stream = s.stream /\ m.next_seqno = s.next_seqno /\ m.abs_ackno = a
        /\ m.window_size = window /\ m.SYN_sent = s.SYN_sent /\ m.FIN_sent = s.FIN_sent
    BY Zenon, <1>1, <1>4, <1>5, <1>6 DEF Senders, rto
  <2> QED BY Zenon, <1>2, <1>4, <1>10, <1>11, <1>12, <2>1 DEF Senders
<1>14. Counts(t)
  <2>1. 2 * ((s.next_seqno - a) + MaxPayloadSize) <= SeqMod
    BY <1>1, <1>2, <1>6, MaxPayloadAssumption, SeqModAssumption
  <2>2. t.next_seqno = Sent(t)
    <3>1. s.next_seqno = Sent(s)
      BY <1>1 DEF Counts
    <3>2. Sent(t) = Sent(s)
      BY Zenon, <1>13 DEF Sent
    <3> QED BY Zenon, <1>13, <3>1, <3>2
  <2>3. window \in Windows \cup {1}
    OBVIOUS
  <2> QED BY Zenon, <1>1, <1>6, <1>13, <2>1, <2>2, <2>3 DEF Counts
<1>15. Outstanding(t)
  <2>1. ASSUME rest = << >> PROVE a = s.next_seqno
    <3>1. k = n
      BY <1>11, <2>1
    <3>2. CASE n = 0
      <4>1. q = << >>
        BY <1>2, <3>2, EmptySeq
      <4>2. s.abs_ackno = s.next_seqno
        BY <1>1, <4>1 DEF Outstanding
      <4> QED BY <1>2, <1>6, <4>2
    <3>3. CASE n # 0
      <4>1. q # << >> /\ n \in 1 .. k
        BY SMTT(30), <1>2, <1>4, <3>1, <3>3, EmptySeq
      <4>2. EndOf(q[n]) = s.next_seqno /\ EndOf(q[n]) <= a
        BY SMTT(30), <1>1, <1>8, <4>1 DEF Outstanding, Tiles
      <4> QED BY SMTT(30), <1>2, <1>6, <4>2
    <3> QED BY <3>2, <3>3
  <2>2. ASSUME rest # << >> PROVE rest[1].abs <= a /\ a < EndOf(rest[1])
    <3>1. k < n /\ k + 1 \in 1 .. n /\ 1 \in 1 .. Len(rest)
      BY SMTT(30), <1>4, <1>8, <1>9, <1>11, <2>2
    <3>2. rest[1] = q[k + 1] /\ q[k + 1] \in Segments
      BY SMTT(30), <1>2, <1>9, <3>1
    <3>3. a < EndOf(q[k + 1])
      <4>1. EndOf(q[k + 1]) \in Nat /\ ~(EndOf(q[k + 1]) <= a)
        BY SMTT(30), <1>8, <3>1, <3>2, SegmentFacts
      <4> QED BY SMTT(30), <1>6, <4>1
    <3>4. q[k + 1].abs <= a
      <4>1. CASE k = 0
        <5>1. q # << >> /\ k + 1 = 1
          BY SMTT(30), <1>2, <3>1, <4>1, EmptySeq
        <5>2. q[1].abs <= s.abs_ackno
          BY <1>1, <5>1 DEF Outstanding
        <5>3. q[1].abs \in Nat
          BY <3>2, <5>1, SegmentFacts
        <5> QED BY SMTT(30), <1>2, <1>6, <5>1, <5>2, <5>3
      <4>2. CASE k # 0
        <5>1. k \in 1 .. k /\ k \in 1 .. n /\ k + 1 <= n
          BY SMTT(30), <1>4, <1>11, <3>1, <4>2
        <5>2. q[k + 1].abs = EndOf(q[k]) /\ EndOf(q[k]) <= a
          BY SMTT(30), <1>1, <1>8, <5>1 DEF Outstanding, Tiles
        <5> QED BY SMTT(30), <5>2
      <4> QED BY SMTT(30), <4>1, <4>2
    <3> QED BY SMTT(30), <3>2, <3>3, <3>4
  <2> QED BY Zenon, <1>9, <1>13, <2>1, <2>2 DEF Outstanding
<1>16. Timed(t)
  <2>1. rto = RtTimeout /\ rto > 0 /\ (s.timer.active <=> q # << >>) /\ ~s.timer.expired
        /\ (s.timer.active => s.timer.time_passed < s.timer.RTO)
    BY <1>1, SenderAssumption DEF Timed, rto
  <2>2. rto = RtTimeout * 2 ^ zero
    BY <1>2, <2>1, PowerOfTwo DEF zero
  <2>3. /\ tm.active <=> rest # << >>
        /\ ~tm.expired
        /\ tm.active => tm.time_passed < tm.RTO
    <3>1. CASE rest = << >>
      <4>1. tm = stop_timer(s.timer)
        BY <3>1 DEF tm
      <4>2. ~tm.active /\ tm.expired = s.timer.expired
        BY Zenon, <1>2, <4>1 DEF stop_timer, Timers
      <4> QED BY <2>1, <3>1, <4>2
    <3>2. CASE rest # << >> /\ k > 0
      <4>1. tm = start_timer(rto)
        BY <3>2 DEF tm
      <4>2. tm.active /\ ~tm.expired /\ tm.time_passed = 0 /\ tm.RTO = rto
        BY <1>2, <4>1, StartTimer
      <4> QED BY <1>2, <2>1, <3>2, <4>2
    <3>3. CASE rest # << >> /\ ~(k > 0)
      <4>1. tm = s.timer
        BY <3>3 DEF tm
      <4>2. q # << >>
        BY SMTT(30), <1>2, <1>4, <1>9, <1>11, <3>3, EmptySeq
      <4> QED BY SMTT(30), <2>1, <3>3, <4>1, <4>2
    <3> QED BY SMTT(30), <3>1, <3>2, <3>3
  <2> QED BY Zenon, <1>13, <2>1, <2>2, <2>3 DEF Timed
<1>17. AllHonest(s.segments_out, t) /\ AllHonest(rest, t)
  <2>1. t.next_seqno >= s.next_seqno /\ t.next_seqno \in Nat
    BY <1>2, <1>13
  <2>2. AllHonest(s.segments_out, t) /\ AllHonest(q, t)
    BY Zenon, <1>1, <1>2, <1>13, <2>1, HonestStays
  <2>3. \A i \in 1 .. Len(rest) : k + i \in 1 .. n
    BY <1>4, <1>9, <1>11
  <2> QED BY Zenon, <1>9, <1>11, <2>2, <2>3 DEF AllHonest
<1>18. Sound(t)
  BY Zenon, <1>13, <1>14, <1>15, <1>16, <1>17 DEF Sound
<1>19. t.abs_ackno >= s.abs_ackno
  BY <1>2, <1>6, <1>13
<1> QED
  BY Zenon, <1>13, <1>18, <1>19 DEF t

--------------------------------------------------------------------------------
(***************************************************************************)
(* Queueing honest segments, or taking the queue away, keeps the sender    *)
(* sound.                                                                  *)
(***************************************************************************)
LEMMA QueueKeeps ==
    ASSUME NEW s, Sound(s), NEW q, AllHonest(q, s), NEW t, t = [s EXCEPT !.segments_out = q]
    PROVE  Sound(t) /\ t.next_seqno = s.next_seqno /\ t.abs_ackno = s.abs_ackno
<1>1. /\ s \in Senders /\ Counts(s) /\ Outstanding(s) /\ Timed(s)
      /\ AllHonest(s.segments_backup, s) /\ q \in Seq(Segments)
  BY DEF Sound, Counts, AllHonest
<1>2. /\ t \in Senders /\ t.isn = s.isn /\ t.segments_out = q
      /\ t.segments_backup = s.segments_backup
      /\ t.initial_retransmission_timeout = s.initial_retransmission_timeout
      /\ t.retransmission_timeout = s.retransmission_timeout
      /\ t.consecutive_retransmissions = s.consecutive_retransmissions
      /\ t.stream = s.stream /\ t.next_seqno = s.next_seqno /\ t.abs_ackno = s.abs_ackno
      /\ t.window_size = s.window_size /\ t.SYN_sent = s.SYN_sent
      /\ t.FIN_sent = s.FIN_sent /\ t.timer = s.timer
  BY Zenon, <1>1 DEF Senders
<1>3. Counts(t)
  BY Zenon, <1>1, <1>2 DEF Counts, Sent
<1>4. Outstanding(t) /\ Timed(t)
  BY Zenon, <1>1, <1>2 DEF Outstanding, Timed
<1>5. AllHonest(q, t) /\ AllHonest(s.segments_backup, t)
  BY Zenon, <1>1, <1>2, HonestSame
<1> QED
  BY Zenon, <1>2, <1>3, <1>4, <1>5 DEF Sound

(***************************************************************************)
(* An open stream may grow or end.                                         *)
(***************************************************************************)
LEMMA StreamKeeps ==
    ASSUME NEW s, Sound(s), ~s.stream.input_end,
           NEW o, Orderly(o), ~o.error, o.bytes_written <= StreamLen,
           o.bytes_read = s.stream.bytes_read,
           NEW t, t = [s EXCEPT !.stream = o]
    PROVE  Sound(t) /\ t.next_seqno = s.next_seqno /\ t.abs_ackno = s.abs_ackno
<1>1. /\ s \in Senders /\ Counts(s) /\ Outstanding(s) /\ Timed(s) /\ o \in ByteStreams
      /\ AllHonest(s.segments_out, s) /\ AllHonest(s.segments_backup, s)
  BY DEF Sound, Counts, Orderly
<1>2. /\ t \in Senders /\ t.isn = s.isn /\ t.segments_out = s.segments_out
      /\ t.segments_backup = s.segments_backup
      /\ t.initial_retransmission_timeout = s.initial_retransmission_timeout
      /\ t.retransmission_timeout = s.retransmission_timeout
      /\ t.consecutive_retransmissions = s.consecutive_retransmissions
      /\ t.stream = o /\ t.next_seqno = s.next_seqno /\ t.abs_ackno = s.abs_ackno
      /\ t.window_size = s.window_size /\ t.SYN_sent = s.SYN_sent
      /\ t.FIN_sent = s.FIN_sent /\ t.timer = s.timer
  BY Zenon, <1>1 DEF Senders
<1>3. ~s.FIN_sent
  BY Zenon, <1>1 DEF Counts
<1>4. Counts(t)
  BY Zenon, <1>1, <1>2, <1>3 DEF Counts, Sent
<1>5. Outstanding(t) /\ Timed(t)
  BY Zenon, <1>1, <1>2 DEF Outstanding, Timed
<1>6. AllHonest(s.segments_out, t) /\ AllHonest(s.segments_backup, t)
  <2>1. s.next_seqno \in Nat /\ s.next_seqno >= s.next_seqno
    BY <1>1 DEF Senders
  <2> QED BY Zenon, <1>1, <1>2, <2>1, HonestStays
<1> QED
  BY Zenon, <1>2, <1>4, <1>5, <1>6 DEF Sound

(***************************************************************************)
(* A tick that retransmits finds the oldest outstanding segment, resends   *)
(* it as it was sent and starts the timer again.                           *)
(***************************************************************************)
LEMMA TickKeeps ==
    ASSUME NEW s, Sound(s), NEW ms \in Nat
    PROVE  /\ Sound(SenderTick(s, ms))
           /\ SenderTick(s, ms).next_seqno = s.next_seqno
           /\ SenderTick(s, ms).abs_ackno = s.abs_ackno
<1> DEFINE t  == SenderTick(s, ms)
           k  == timer_tick(s.timer, ms)
           b  == BackOff(s)
           p  == s.segments_backup
           out == Append(s.segments_out, Head(p))
<1>1. /\ s \in Senders /\ Counts(s) /\ Outstanding(s) /\ Timed(s)
      /\ AllHonest(s.segments_out, s) /\ AllHonest(p, s)
  BY DEF Sound, Counts
<1>2. /\ s.timer \in Timers /\ s.timer.time_passed \in Nat /\ s.timer.RTO \in Nat
      /\ s.timer.active \in BOOLEAN /\ s.timer.expired = FALSE
      /\ s.retransmission_timeout \in Nat /\ s.consecutive_retransmissions \in Nat
      /\ s.segments_out \in Seq(Segments) /\ p \in Seq(Segments)
  <2>1. /\ s.timer \in Timers
        /\ s.retransmission_timeout \in Nat /\ s.consecutive_retransmissions \in Nat
        /\ s.segments_out \in Seq(Segments) /\ p \in Seq(Segments)
    BY <1>1 DEF Senders
  <2>2. ~s.timer.expired
    BY <1>1 DEF Timed
  <2> QED BY <2>1, <2>2 DEF Timers
<1>3. /\ k \in Timers /\ k.active = s.timer.active
      /\ k.expired => s.timer.active
      /\ ~k.expired /\ k.active => k.time_passed < k.RTO
  <2>1. CASE ~s.timer.active
    <3>1. k = s.timer
      BY <2>1 DEF timer_tick
    <3> QED BY <1>2, <2>1, <3>1
  <2>2. CASE s.timer.active
    <3> DEFINE tp == s.timer.time_passed + ms
               ex == tp >= s.timer.RTO
    <3>1. k = [s.timer EXCEPT !.time_passed = tp, !.expired = ex]
      BY <1>2, <2>2 DEF timer_tick
    <3>2. tp \in Nat /\ ex \in BOOLEAN /\ (~ex => tp < s.timer.RTO)
      BY <1>2
    <3> HIDE DEF tp, ex, k
    <3>3. /\ k \in Timers /\ k.active = s.timer.active /\ k.expired = ex
          /\ k.time_passed = tp /\ k.RTO = s.timer.RTO
      BY Zenon, <1>2, <3>1, <3>2 DEF Timers
    <3> QED BY Zenon, <2>2, <3>2, <3>3
  <2> QED BY <1>2, <2>1, <2>2
<1> HIDE DEF k
<1>4. CASE ~k.expired
  <2>1. t = [s EXCEPT !.timer = k]
    BY <1>4 DEF SenderTick, k
  <2> HIDE DEF t
  <2>2. /\ t \in Senders /\ t.isn = s.isn /\ t.segments_out = s.segments_out
        /\ t.segments_backup = s.segments_backup
        /\ t.initial_retransmission_timeout = s.initial_retransmission_timeout
        /\ t.retransmission_timeout = s.retransmission_timeout
        /\ t.consecutive_retransmissions = s.consecutive_retransmissions
        /\ t.stream = s.stream /\ t.next_seqno = s.next_seqno /\ t.abs_ackno = s.abs_ackno
        /\ t.window_size = s.window_size /\ t.SYN_sent = s.SYN_sent
        /\ t.FIN_sent = s.FIN_sent /\ t.timer = k
    BY Zenon, <1>1, <1>3, <2>1 DEF Senders
  <2>3. Counts(t)
    BY Zenon, <1>1, <2>2 DEF Counts, Sent
  <2>4. Outstanding(t)
    BY Zenon, <1>1, <2>2 DEF Outstanding
  <2>5. Timed(t)
    BY Zenon, <1>1, <1>3, <1>4, <2>2 DEF Timed
  <2>6. AllHonest(s.segments_out, t) /\ AllHonest(p, t)
    BY Zenon, <1>1, <2>2, HonestSame
  <2> QED BY Zenon, <2>2, <2>3, <2>4, <2>5, <2>6 DEF Sound, t
<1>5. CASE k.expired
  <2>1. p # << >> /\ 1 \in 1 .. Len(p) /\ Head(p) = p[1]
    <3>1. p # << >>
      BY SMTT(30), <1>1, <1>3, <1>5 DEF Timed
    <3> QED BY SMTT(30), <1>2, <3>1, EmptySeq
  <2>2. Honest(Head(p), s) /\ Head(p) \in Segments
    BY <1>1, <2>1 DEF AllHonest, Honest
  <2> DEFINE c   == IF s.window_size = 0 THEN s.consecutive_retransmissions
                    ELSE s.consecutive_retransmissions + 1
             rto == IF s.window_size = 0 THEN s.retransmission_timeout
                    ELSE 2 * s.retransmission_timeout
             tm  == start_timer(rto)
  <2>3. c \in Nat /\ rto \in Nat /\ rto > 0 /\ rto = RtTimeout * 2 ^ c
    <3> DEFINE c0 == s.consecutive_retransmissions
               r0 == s.retransmission_timeout
    <3>1. c0 \in Nat /\ r0 \in Nat /\ r0 > 0 /\ r0 = RtTimeout * 2 ^ c0
      BY <1>1, <1>2 DEF Timed
    <3>2. 2 ^ c0 \in Nat /\ 2 ^ (c0 + 1) = 2 * 2 ^ c0 /\ RtTimeout \in Nat
      BY Zenon, <3>1, PowerOfTwo, SenderAssumption
    <3> DEFINE w0 == 2 ^ c0
    <3> HIDE DEF c0, r0, w0
    <3>3. 2 * r0 = RtTimeout * (2 * w0)
      <4>1. w0 \in Nat /\ RtTimeout \in Nat /\ r0 = RtTimeout * w0
        BY Zenon, <3>1, <3>2 DEF w0
      <4> QED BY <4>1
    <3>4. 2 * r0 = RtTimeout * 2 ^ (c0 + 1)
      BY Zenon, <3>2, <3>3 DEF w0
    <3>5. c0 + 1 \in Nat /\ 2 * r0 \in Nat /\ 2 * r0 > 0
      BY <3>1
    <3> QED BY Zenon, <3>1, <3>4, <3>5 DEF c0, r0
  <2>4. out \in Seq(Segments) /\ AllHonest(out, s)
    <3>1. /\ out \in Seq(Segments) /\ Len(out) = Len(s.segments_out) + 1
          /\ \A i \in 1 .. Len(out) : out[i] = IF i <= Len(s.segments_out)
                                               THEN s.segments_out[i] ELSE Head(p)
      BY <1>2, <2>2
    <3>2. \A i \in 1 .. Len(out) : i <= Len(s.segments_out) => i \in 1 .. Len(s.segments_out)
      BY <1>2, <3>1
    <3> HIDE DEF out
    <3> QED BY Zenon, <1>1, <2>2, <3>1, <3>2 DEF AllHonest
  <2>5. b = [s EXCEPT !.consecutive_retransmissions = c, !.retransmission_timeout = rto]
    <3>1. CASE s.window_size = 0
      <4>1. b = s /\ c = s.consecutive_retransmissions /\ rto = s.retransmission_timeout
        BY Zenon, <3>1 DEF BackOff
      <4> HIDE DEF b, c, rto
      <4> QED BY Zenon, <1>1, <4>1 DEF Senders
    <3>2. CASE s.window_size # 0
      BY <3>2 DEF BackOff
    <3> QED BY <3>1, <3>2
  <2> HIDE DEF b, c, rto, out
  <2>6. /\ b \in Senders /\ b.segments_out = s.segments_out /\ b.retransmission_timeout = rto
        /\ b.consecutive_retransmissions = c
        /\ b.isn = s.isn /\ b.segments_backup = s.segments_backup
        /\ b.initial_retransmission_timeout = s.initial_retransmission_timeout
        /\ b.stream = s.stream /\ b.next_seqno = s.next_seqno /\ b.abs_ackno = s.abs_ackno
        /\ b.window_size = s.window_size /\ b.SYN_sent = s.SYN_sent
        /\ b.FIN_sent = s.FIN_sent
    BY Zenon, <1>1, <2>3, <2>5 DEF Senders
  <2>7. tm \in Timers /\ tm.active /\ ~tm.expired /\ tm.time_passed = 0 /\ tm.RTO = rto
    BY <2>3, StartTimer
  <2> HIDE DEF tm
  <2>8. t = [b EXCEPT !.segments_out = out, !.timer = tm]
    <3>1. t = [b EXCEPT !.segments_out = Append(b.segments_out, Head(p)),
                        !.timer = start_timer(b.retransmission_timeout)]
      BY <1>5 DEF SenderTick, k, b
    <3> QED BY Zenon, <2>6, <3>1 DEF out, tm
  <2> HIDE DEF t
  <2>9. /\ t \in Senders /\ t.isn = s.isn /\ t.segments_out = out
        /\ t.segments_backup = s.segments_backup
        /\ t.initial_retransmission_timeout = s.initial_retransmission_timeout
        /\ t.retransmission_timeout = rto /\ t.consecutive_retransmissions = c
        /\ t.stream = s.stream /\ t.next_seqno = s.next_seqno /\ t.abs_ackno = s.abs_ackno
        /\ t.window_size = s.window_size /\ t.SYN_sent = s.SYN_sent
        /\ t.FIN_sent = s.FIN_sent /\ t.timer = tm
    BY Zenon, <2>4, <2>6, <2>7, <2>8 DEF Senders
  <2>10. Counts(t)
    BY Zenon, <1>1, <2>9 DEF Counts, Sent
  <2>11. Outstanding(t)
    BY Zenon, <1>1, <2>9 DEF Outstanding
  <2>12. Timed(t)
    BY Zenon, <1>1, <2>1, <2>3, <2>7, <2>9 DEF Timed
  <2>13. AllHonest(out, t) /\ AllHonest(p, t)
    BY Zenon, <1>1, <2>4, <2>9, HonestSame
  <2> QED BY Zenon, <2>9, <2>10, <2>11, <2>12, <2>13 DEF Sound, t
<1> QED
  BY Zenon, <1>4, <1>5

--------------------------------------------------------------------------------
(***************************************************************************)
(* A new sender is sound.                                                  *)
(***************************************************************************)
LEMMA InitIInv ==
    ASSUME OneLap, Init
    PROVE  IInv
<1>1. PICK isn \in Isns : sender = NewSender(SendCapacity, RtTimeout, isn)
  BY DEF Init
<1> DEFINE s == sender
           o == NewByteStream(SendCapacity)
<1>2. /\ isn \in WrappingInt /\ RtTimeout \in Nat /\ RtTimeout > 0 /\ SendCapacity \in Nat
      /\ StreamLen \in Nat /\ MaxPayloadSize \in Nat /\ SeqMod \in Nat
  BY SenderAssumption, MaxPayloadAssumption, SeqModAssumption
<1>3. /\ s.isn = isn /\ s.segments_out = << >> /\ s.segments_backup = << >>
      /\ s.initial_retransmission_timeout = RtTimeout /\ s.retransmission_timeout = RtTimeout
      /\ s.consecutive_retransmissions = 0 /\ s.stream = o
      /\ s.next_seqno = 0 /\ s.abs_ackno = 0 /\ s.window_size = 1
      /\ s.SYN_sent = FALSE /\ s.FIN_sent = FALSE /\ s.timer = NewTimer
  BY <1>1 DEF NewSender
<1>4. /\ o \in ByteStreams /\ o.bytes_read = 0 /\ o.bytes_written = 0 /\ o.buffer = << >>
      /\ ~o.error /\ o.capacity \in Nat
  <2>1. << >> \in Seq(Nat) /\ 0 \in Nat
    OBVIOUS
  <2> QED BY Zenon, <1>2, <2>1 DEF NewByteStream, ByteStreams
<1>5. Orderly(o)
  BY <1>4 DEF Orderly, IsExcerpt
<1>6. NewTimer \in Timers /\ ~NewTimer.active /\ ~NewTimer.expired
  BY DEF NewTimer, Timers
<1> HIDE DEF o
<1>7. s \in Senders
  <2>1. << >> \in Seq(Segments) /\ 0 \in Nat /\ 1 \in Nat
    OBVIOUS
  <2> QED BY Zenon, <1>1, <1>2, <1>4, <1>6, <2>1 DEF NewSender, Senders, o
<1>8. Counts(s)
  <2>1. 2 * (1 + MaxPayloadSize) <= SeqMod
    BY DEF OneLap
  <2>2. 2 * ((0 - 0) + MaxPayloadSize) <= SeqMod
    BY <1>2, <2>1
  <2>3. 0 <= StreamLen /\ 0 = Sent(s) /\ 1 \in Windows \cup {1}
    BY <1>2, <1>3 DEF Sent
  <2> QED BY SMTT(30), <1>3, <1>4, <1>5, <1>7, <2>2, <2>3 DEF Counts
<1>9. \A i \in 1 .. Len(<< >>) : FALSE
  OBVIOUS
<1>10. << >> \in Seq(Segments)
  OBVIOUS
<1>11. Outstanding(s)
  BY Zenon, <1>3, <1>9, <1>10 DEF Outstanding, Tiles
<1>12. Timed(s)
  <2>1. RtTimeout = RtTimeout * 2 ^ 0
    BY <1>2, PowerOfTwo
  <2> QED BY Zenon, <1>2, <1>3, <1>6, <2>1 DEF Timed
<1>13. AllHonest(<< >>, s)
  BY Zenon, <1>9, <1>10 DEF AllHonest
<1> QED
  BY Zenon, <1>3, <1>8, <1>11, <1>12, <1>13 DEF IInv, Sound

(***************************************************************************)
(* What KeepsToTheWindow says of a step.                                   *)
(***************************************************************************)
Obeys ==
    /\ sender'.next_seqno >= sender.next_seqno
    /\ sender'.abs_ackno >= sender.abs_ackno
    /\ sender'.next_seqno > sender.next_seqno =>
         sender'.next_seqno <= sender.abs_ackno + EffectiveWindow(sender)

(***************************************************************************)
(* Every operation keeps the sender sound, and obeys the window.           *)
(***************************************************************************)
LEMMA NextIInv ==
    ASSUME OneLap, IInv, [Next]_sender
    PROVE  IInv' /\ Obeys
<1> DEFINE s == sender
           t == sender'
<1>1. /\ Sound(s) /\ s \in Senders /\ s.next_seqno \in Nat /\ s.abs_ackno \in Nat
      /\ s.stream.bytes_written \in Nat
  BY DEF IInv, Sound, Counts, Senders, ByteStreams
<1>2. SUFFICES /\ Sound(t)
               /\ t.next_seqno >= s.next_seqno /\ t.abs_ackno >= s.abs_ackno
               /\ t.next_seqno > s.next_seqno =>
                    t.next_seqno <= s.abs_ackno + EffectiveWindow(s)
  BY Zenon DEF IInv, Obeys
<1>3. ASSUME Sound(t), t.next_seqno = s.next_seqno, t.abs_ackno = s.abs_ackno
      PROVE  /\ t.next_seqno >= s.next_seqno /\ t.abs_ackno >= s.abs_ackno
             /\ ~(t.next_seqno > s.next_seqno)
  BY <1>1, <1>3
<1>4. ASSUME NEW len \in 1 .. StreamLen, Write(len)
      PROVE  Sound(t) /\ t.next_seqno = s.next_seqno /\ t.abs_ackno = s.abs_ackno
  <2> DEFINE b == s.stream.bytes_written
             d == Excerpt(b, len)
             o == write(s.stream, d)
             n == WriteCount(s.stream, d)
  <2>1. t = [s EXCEPT !.stream = o] /\ ~s.stream.input_end /\ b + len <= StreamLen
    BY <1>4 DEF Write
  <2>2. len \in Nat /\ StreamLen \in Nat
    BY SenderAssumption
  <2>3. IsExcerpt(d, b) /\ Len(d) = len
    BY SMTT(30), <1>1, <2>2, ExcerptIsExcerpt DEF Excerpt
  <2>4. Orderly(s.stream) /\ ~s.stream.error /\ s.stream \in ByteStreams
    BY <1>1 DEF Sound, Counts, Orderly
  <2> HIDE DEF d
  <2>5. /\ Orderly(o) /\ n \in 0 .. len
        /\ o = [s.stream EXCEPT !.buffer = o.buffer, !.bytes_written = b + n]
    BY Zenon, <2>3, <2>4, WriteOrderly
  <2> HIDE DEF o, n
  <2>6. /\ o.error = s.stream.error /\ o.bytes_read = s.stream.bytes_read
        /\ o.bytes_written = b + n
    BY Zenon, <2>4, <2>5 DEF ByteStreams
  <2>7. b + n <= StreamLen
    BY <1>1, <2>1, <2>2, <2>5
  <2> QED BY Zenon, <1>1, <2>1, <2>4, <2>5, <2>6, <2>7, StreamKeeps
<1>5. ASSUME EndInput
      PROVE  Sound(t) /\ t.next_seqno = s.next_seqno /\ t.abs_ackno = s.abs_ackno
  <2> DEFINE o == end_input(s.stream)
  <2>1. t = [s EXCEPT !.stream = o] /\ ~s.stream.input_end
    BY <1>5 DEF EndInput
  <2>2. /\ Orderly(s.stream) /\ ~s.stream.error /\ s.stream \in ByteStreams
        /\ s.stream.bytes_written <= StreamLen
    BY <1>1 DEF Sound, Counts, Orderly
  <2>3. o = [s.stream EXCEPT !.input_end = TRUE]
    BY DEF end_input
  <2> HIDE DEF o
  <2>4. /\ o \in ByteStreams /\ o.error = s.stream.error /\ o.buffer = s.stream.buffer
        /\ o.bytes_read = s.stream.bytes_read /\ o.bytes_written = s.stream.bytes_written
        /\ o.capacity = s.stream.capacity
    BY Zenon, <2>2, <2>3 DEF ByteStreams
  <2>5. Orderly(o)
    BY Zenon, <2>2, <2>4 DEF Orderly
  <2> QED BY Zenon, <1>1, <2>1, <2>2, <2>4, <2>5, StreamKeeps
<1>6. CASE FillWindow
  <2>1. t = fill_window(s)
    BY <1>6 DEF FillWindow
  <2>2. CASE s.SYN_sent
    <3>1. /\ Sound(t) /\ t.abs_ackno = s.abs_ackno /\ t.next_seqno >= s.next_seqno
          /\ t.next_seqno > s.next_seqno => t.next_seqno <= s.abs_ackno + EffectiveWindow(s)
      BY Zenon, <1>1, <2>1, <2>2, DataKeeps
    <3>2. t.abs_ackno >= s.abs_ackno
      BY <1>1, <3>1
    <3> QED BY Zenon, <3>1, <3>2
  <2>3. CASE ~s.SYN_sent
    <3>1. /\ Sound(t) /\ t.abs_ackno = s.abs_ackno /\ t.next_seqno = s.next_seqno + 1
          /\ s.next_seqno + 1 <= s.abs_ackno + EffectiveWindow(s)
      BY Zenon, <1>1, <2>1, <2>3, SynKeeps
    <3>2. t.abs_ackno >= s.abs_ackno /\ t.next_seqno >= s.next_seqno
      BY <1>1, <3>1
    <3> QED BY Zenon, <3>1, <3>2
  <2> QED BY <2>2, <2>3
<1>7. ASSUME NEW ackno \in WrappingInt, NEW window \in Windows, AckReceived(ackno, window)
      PROVE  /\ Sound(t)
             /\ t.next_seqno >= s.next_seqno /\ t.abs_ackno >= s.abs_ackno
             /\ ~(t.next_seqno > s.next_seqno)
  <2>1. t = ack_received(s, ackno, window)
    BY <1>7 DEF AckReceived
  <2>2. Sound(t) /\ t.next_seqno = s.next_seqno /\ t.abs_ackno >= s.abs_ackno
    BY Zenon, <1>1, <2>1, AckKeeps
  <2>3. t.next_seqno >= s.next_seqno /\ ~(t.next_seqno > s.next_seqno)
    BY <1>1, <2>2
  <2> QED BY Zenon, <2>2, <2>3
<1>8. ASSUME NEW ms \in 1 .. RtTimeout, Tick(ms)
      PROVE  Sound(t) /\ t.next_seqno = s.next_seqno /\ t.abs_ackno = s.abs_ackno
  <2>1. t = SenderTick(s, ms) /\ ms \in Nat
    BY <1>8, SenderAssumption DEF Tick
  <2> QED BY Zenon, <1>1, <2>1, TickKeeps
<1>9. ASSUME NEW rst \in BOOLEAN, SendEmpty(rst)
      PROVE  Sound(t) /\ t.next_seqno = s.next_seqno /\ t.abs_ackno = s.abs_ackno
  <2> DEFINE e   == << >>
             no  == FALSE
             seg == [make_segment(s, s.next_seqno, no, no, e) EXCEPT !.rst = rst]
             q   == Append(s.segments_out, seg)
  <2>1. t = [s EXCEPT !.segments_out = q]
    BY <1>9 DEF SendEmpty, send_empty_segment
  <2>2. s.segments_out \in Seq(Segments) /\ s.isn \in WrappingInt /\ AllHonest(s.segments_out, s)
    BY <1>1 DEF Senders, Sound
  <2>3. wrap(s.next_seqno, s.isn) \in WrappingInt
    BY <1>1, <2>2, SeqModAssumption DEF wrap, WrappingInt
  <2>4. e \in Seq(Nat) /\ Len(e) = 0 /\ no \in BOOLEAN /\ ~no
    OBVIOUS
  <2> HIDE DEF e, no
  <2>5. /\ seg \in Segments /\ seg.abs = s.next_seqno /\ seg.seqno = wrap(s.next_seqno, s.isn)
        /\ ~seg.syn /\ ~seg.fin /\ seg.payload = e
    BY Zenon, <1>1, <2>3, <2>4 DEF make_segment, Segments
  <2> HIDE DEF seg
  <2>6. length_in_sequence_space(seg) = 0
    <3>1. length_in_sequence_space(seg) = (0 + 0) + 0
      BY Zenon, <2>4, <2>5 DEF length_in_sequence_space
    <3> QED BY <3>1
  <2>7. EndOf(seg) = s.next_seqno
    BY <1>1, <2>5, <2>6 DEF EndOf
  <2>8. Honest(seg, s)
    <3>1. Len(seg.payload) = 0 /\ 0 <= MaxPayloadSize /\ EndOf(seg) <= s.next_seqno
      BY <1>1, <2>4, <2>5, <2>7, MaxPayloadAssumption
    <3>2. \A k \in 1 .. Len(seg.payload) : FALSE
      BY <3>1
    <3>3. ~(seg.abs = 0 /\ EndOf(seg) = 1)
      BY <1>1, <2>5, <2>7
    <3> QED BY Zenon, <2>5, <3>1, <3>2, <3>3 DEF Honest
  <2>9. AllHonest(q, s)
    <3>1. /\ q \in Seq(Segments) /\ Len(q) = Len(s.segments_out) + 1
          /\ \A i \in 1 .. Len(q) : q[i] = IF i <= Len(s.segments_out)
                                           THEN s.segments_out[i] ELSE seg
      BY <2>2, <2>5
    <3>2. \A i \in 1 .. Len(q) : i <= Len(s.segments_out) => i \in 1 .. Len(s.segments_out)
      BY <2>2, <3>1
    <3> HIDE DEF q
    <3> QED BY Zenon, <2>2, <2>8, <3>1, <3>2 DEF AllHonest
  <2> HIDE DEF q
  <2> QED BY Zenon, <1>1, <2>1, <2>9, QueueKeeps
<1>10. ASSUME Collect
       PROVE  Sound(t) /\ t.next_seqno = s.next_seqno /\ t.abs_ackno = s.abs_ackno
  <2> DEFINE q == << >>
  <2>1. t = [s EXCEPT !.segments_out = q]
    BY <1>10 DEF Collect
  <2>2. q \in Seq(Segments) /\ \A i \in 1 .. Len(q) : FALSE
    OBVIOUS
  <2> HIDE DEF q
  <2>3. AllHonest(q, s)
    BY Zenon, <2>2 DEF AllHonest
  <2> QED BY Zenon, <1>1, <2>1, <2>3, QueueKeeps
<1>11. CASE UNCHANGED sender
  BY Zenon, <1>1, <1>3, <1>11
<1> QED
  BY Zenon, <1>3, <1>4, <1>5, <1>6, <1>7, <1>8, <1>9, <1>10, <1>11 DEF Next

(***************************************************************************)
(* A sound sender has the properties of SenderSpec.                        *)
(***************************************************************************)
LEMMA IInvImplies ==
    ASSUME IInv
    PROVE  TimerArmed /\ OutstandingTiles /\ SegmentsAreHonest /\ BackoffIsExponential
<1> DEFINE s == sender
<1>1. /\ Counts(s) /\ Outstanding(s) /\ Timed(s)
      /\ AllHonest(s.segments_out, s) /\ AllHonest(Backup, s)
  BY DEF IInv, Sound, Backup
<1>2. TimerArmed /\ BackoffIsExponential
  BY Zenon, <1>1 DEF Timed, TimerArmed, BackoffIsExponential, Backup
<1>3. OutstandingTiles
  <2>1. Backup \in Seq(Segments) /\ Tiles(Backup, s.next_seqno)
    BY <1>1 DEF Outstanding, Tiles, Backup
  <2>2. Backup # << >> => /\ Backup[1].abs <= s.abs_ackno /\ s.abs_ackno < EndOf(Backup[1])
                          /\ EndOf(Backup[Len(Backup)]) = s.next_seqno
    BY <1>1 DEF Outstanding, Tiles, Backup
  <2>3. Backup = << >> => s.abs_ackno = s.next_seqno
    BY <1>1 DEF Outstanding, Backup
  <2>4. ASSUME Backup # << >> PROVE s.abs_ackno # s.next_seqno
    <3>1. 1 \in 1 .. Len(Backup)
      BY <2>1, <2>4, EmptySeq
    <3>2. Backup[1] \in Segments /\ EndOf(Backup[1]) <= s.next_seqno
      BY SMTT(30), <2>1, <3>1 DEF Tiles
    <3>3. EndOf(Backup[1]) \in Nat /\ s.abs_ackno \in Nat /\ s.next_seqno \in Nat
      BY SMTT(30), <1>1, <3>2, SegmentFacts DEF Counts, Senders
    <3> QED BY <2>2, <2>4, <3>2, <3>3
  <2>5. \A i \in 1 .. (Len(Backup) - 1) : i \in 1 .. Len(Backup) /\ i + 1 <= Len(Backup)
    BY <2>1
  <2>6. \A i \in 1 .. (Len(Backup) - 1) : Backup[i + 1].abs = EndOf(Backup[i])
    BY <2>1, <2>5 DEF Tiles
  <2> QED BY Zenon, <2>2, <2>3, <2>4, <2>6 DEF OutstandingTiles
<1>4. SegmentsAreHonest
  <2>1. SUFFICES ASSUME NEW queue \in {s.segments_out, Backup}, NEW i \in 1 .. Len(queue)
                 PROVE  LET seg == queue[i]
                        IN  /\ seg.seqno = wrap(seg.abs, s.isn)
                            /\ \A k \in 1 .. Len(seg.payload) :
                                  seg.payload[k] = (seg.abs + k) - 2
                            /\ EndOf(seg) <= s.next_seqno
                            /\ seg.syn <=> (seg.abs = 0 /\ EndOf(seg) = 1)
                            /\ seg.fin => /\ s.stream.input_end
                                          /\ EndOf(seg) = s.stream.bytes_written + 2
    BY Zenon DEF SegmentsAreHonest
  <2>2. AllHonest(queue, s)
    BY Zenon, <1>1
  <2>3. Honest(queue[i], s)
    BY Zenon, <2>2 DEF AllHonest
  <2> QED BY Zenon, <2>3 DEF Honest
<1> QED
  BY <1>2, <1>3, <1>4

(***************************************************************************)
(* As long as the stream and the windows stay within one lap of sequence   *)
(* numbers, the timer of tcp_sender.cc runs exactly while something is     *)
(* outstanding, so tick() always finds a segment to resend.                *)
(***************************************************************************)
THEOREM SenderTimerArmed ==
    ASSUME OneLap
    PROVE  Spec => []TimerArmed
<1>1. Init => IInv
  BY InitIInv
<1>2. IInv /\ [Next]_sender => IInv'
  BY Zenon, NextIInv
<1>3. IInv => TimerArmed
  BY Zenon, IInvImplies
<1> QED
  BY <1>1, <1>2, <1>3, PTL DEF Spec

(***************************************************************************)
(* The backup queue holds exactly the segments from the one with the first *)
(* unacknowledged number on, without gap or overlap: ack_received pops     *)
(* what is acknowledged and nothing else, whatever numbers arrive.         *)
(***************************************************************************)
THEOREM SenderOutstandingTiles ==
    ASSUME OneLap
    PROVE  Spec => []OutstandingTiles
<1>1. Init => IInv
  BY InitIInv
<1>2. IInv /\ [Next]_sender => IInv'
  BY Zenon, NextIInv
<1>3. IInv => OutstandingTiles
  BY Zenon, IInvImplies
<1> QED
  BY <1>1, <1>2, <1>3, PTL DEF Spec

(***************************************************************************)
(* Every segment that fill_window, tick or send_empty_segment queues, and  *)
(* every one kept for resending, carries the bytes its number stands for,  *)
(* and the FIN sits right after the last byte of an ended stream.          *)
(***************************************************************************)
THEOREM SenderSegmentsAreHonest ==
    ASSUME OneLap
    PROVE  Spec => []SegmentsAreHonest
<1>1. Init => IInv
  BY InitIInv
<1>2. IInv /\ [Next]_sender => IInv'
  BY Zenon, NextIInv
<1>3. IInv => SegmentsAreHonest
  BY Zenon, IInvImplies
<1> QED
  BY <1>1, <1>2, <1>3, PTL DEF Spec

(***************************************************************************)
(* The retransmission timeout is the initial one doubled once per          *)
(* consecutive retransmission that tick() counts.                          *)
(***************************************************************************)
THEOREM SenderBackoffIsExponential ==
    ASSUME OneLap
    PROVE  Spec => []BackoffIsExponential
<1>1. Init => IInv
  BY InitIInv
<1>2. IInv /\ [Next]_sender => IInv'
  BY Zenon, NextIInv
<1>3. IInv => BackoffIsExponential
  BY Zenon, IInvImplies
<1> QED
  BY <1>1, <1>2, <1>3, PTL DEF Spec

(***************************************************************************)
(* fill_window sends nothing beyond the window last advertised (a closed   *)
(* one counts as one), and no operation takes back a number that was sent  *)
(* or an acknowledgment that was taken.                                    *)
(***************************************************************************)
THEOREM SenderKeepsToTheWindow ==
    ASSUME OneLap
    PROVE  Spec => KeepsToTheWindow
<1>1. Init => IInv
  BY InitIInv
<1>2. IInv /\ [Next]_sender => IInv'
  BY Zenon, NextIInv
<1>3. IInv /\ [Next]_sender => [Obeys]_sender
  BY Zenon, NextIInv
<1> QED
  BY <1>1, <1>2, <1>3, PTL DEF Spec, KeepsToTheWindow, Obeys
================================================================================
