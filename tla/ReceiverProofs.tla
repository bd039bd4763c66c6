---------------------------- MODULE ReceiverProofs ----------------------------
(***************************************************************************)
(* Proofs about ReceiverSpec, for every capacity, every payload size and   *)
(* every initial sequence number, as long as the stream stays on the first *)
(* lap of the sequence space, no repeated segment is older than half a lap *)
(* and the peer's SYN is bare, as the SYN of TCPSender is.                 *)
(***************************************************************************)
EXTENDS MCReceiver, ReassemblerLemmas

OneLap ==
    /\ StreamLen + 2 < SeqMod
    /\ 2 * MaxStale <= SeqMod
    /\ MaxSynPayload = 0
    /\ StreamLen > 0

IInv ==
    /\ receiver \in Receivers
    /\ receiver.capacity = Capacity
    /\ isn \in WrappingInt
    /\ receiver.isn \in {None, isn}
    /\ Good(receiver.reassembler)
    /\ receiver.isn = None => ~receiver.reassembler.has_eof
    /\ promised \in Nat
    /\ promised <= out.bytes_read + Capacity
    /\ AcksWhatItHas

--------------------------------------------------------------------------------
(***************************************************************************)
(* A new receiver satisfies the inductive invariant.                       *)
(***************************************************************************)
LEMMA InitIInv == Init => IInv
<1> SUFFICES ASSUME Init PROVE IInv
  OBVIOUS
<1> DEFINE R == NewReassembler(Capacity)
<1>1. Good(R) /\ R \in Reassemblers /\ R.has_eof = FALSE /\ R.output.bytes_read \in Nat
  BY NewReassemblerGood, GoodFacts DEF Good, Loose, NewReassembler
<1> HIDE DEF R
<1>2. /\ receiver = [reassembler |-> R, capacity |-> Capacity, isn |-> None, ackno |-> None]
      /\ isn \in WrappingInt /\ promised = 0 /\ Capacity \in Nat
  BY PeerStreamAssumption, ReceiverAssumption DEF Init, NewReceiver, R
<1>3. receiver \in Receivers
  BY <1>1, <1>2 DEF Receivers
<1> QED
  BY <1>1, <1>2, <1>3 DEF IInv, AcksWhatItHas, out

(***************************************************************************)
(* A receiver whose reassembler has taken a segment, and that acknowledges *)
(* what it then has, satisfies the invariant, and offers no less window.   *)
(***************************************************************************)
LEMMA AckKeeps ==
    ASSUME IInv, NEW q, Good(q),
           q.output.bytes_read = receiver.reassembler.output.bytes_read,
           receiver' = [receiver EXCEPT
                          !.isn = isn, !.reassembler = q,
                          !.ackno = wrap(1 + q.first_unassembled
                                           + (IF q.output.input_end THEN 1 ELSE 0), isn)],
           promised' = q.first_unassembled + window_size(receiver'),
           UNCHANGED isn
    PROVE  IInv' /\ promised' >= promised
<1> DEFINE n == 1 + q.first_unassembled + (IF q.output.input_end THEN 1 ELSE 0)
<1>1. /\ receiver \in Receivers /\ receiver.capacity = Capacity /\ isn \in WrappingInt
      /\ promised \in Nat /\ promised <= q.output.bytes_read + Capacity
  BY DEF IInv, out
<1>2. /\ q \in Reassemblers /\ q.first_unassembled \in Nat /\ q.output.bytes_read \in Nat
      /\ q.first_unassembled = q.output.bytes_written
      /\ (Capacity - Len(q.output.buffer)) + q.first_unassembled
            = q.output.bytes_read + Capacity
      /\ Len(q.output.buffer) \in Nat /\ Capacity \in Nat
  <2>1. /\ q.first_unassembled \in 0 .. StreamLen /\ q.output.bytes_read \in Nat
        /\ q.first_unassembled = q.output.bytes_written
        /\ (Capacity - Len(q.output.buffer)) + q.first_unassembled
              = q.output.bytes_read + Capacity
    BY GoodFacts
  <2>2. q \in Reassemblers /\ Len(q.output.buffer) \in Nat
    BY DEF Good, Loose, Reassemblers, ByteStreams
  <2> QED BY <2>1, <2>2, PeerStreamAssumption
<1>3. n \in Nat
  BY <1>2
<1>4. wrap(n, isn) \in WrappingInt
  <2> HIDE DEF n
  <2> QED BY <1>1, <1>3, SeqModAssumption DEF wrap, WrappingInt
<1> HIDE DEF n
<1>5. receiver' = [receiver EXCEPT !.isn = isn, !.reassembler = q, !.ackno = wrap(n, isn)]
  BY DEF n
<1>6. /\ receiver' \in Receivers /\ receiver'.capacity = Capacity /\ receiver'.isn = isn
      /\ receiver'.reassembler = q /\ receiver'.ackno = wrap(n, isn)
  BY Zenon, <1>1, <1>2, <1>4, <1>5 DEF Receivers
<1>7. promised' = q.output.bytes_read + Capacity
  BY <1>2, <1>6 DEF window_size
<1>8. promised' \in Nat /\ promised' >= promised
  BY <1>1, <1>2, <1>7
<1>9. AcksWhatItHas'
  BY <1>2, <1>6 DEF AcksWhatItHas, out, n
<1>10. receiver'.isn # None
  BY <1>1, <1>6, SeqModAssumption DEF WrappingInt, None
<1> QED
  BY SMTT(30), <1>1, <1>2, <1>6, <1>7, <1>8, <1>9, <1>10 DEF IInv, out

(***************************************************************************)
(* segment_received preserves the invariant: unwrap finds the index the    *)
(* peer meant, and the reassembler gets bytes it is prepared for.  The     *)
(* index of a repeated SYN wraps to the largest size_t, with nothing in it.*)
(***************************************************************************)
LEMMA ReceiveKeeps ==
    ASSUME OneLap, IInv, NEW a \in 0 .. (StreamLen + 2), NEW isFin \in BOOLEAN, NEW d,
           Receive(Segment(a, a = 0, isFin, d)),
           fu < a + MaxStale,
           a = 0 => d = << >> /\ ~isFin,
           a > 0 => /\ IsExcerpt(d, a - 1)
                    /\ isFin => (a - 1) + Len(d) = StreamLen
                    /\ d # << >> => (a - 1) + Len(d) <= StreamLen /\ a - 1 <= promised
    PROVE  IInv' /\ promised' >= promised
<1> DEFINE R   == receiver.reassembler
           seg == Segment(a, a = 0, isFin, d)
           idx == SizeSub(a, 1)
<1>1. /\ Good(R) /\ Loose(R) /\ Ended(R) /\ receiver \in Receivers /\ isn \in WrappingInt
      /\ receiver.isn \in {None, isn} /\ receiver.capacity = Capacity /\ promised \in Nat
      /\ promised <= R.output.bytes_read + Capacity
  BY DEF IInv, Good, out
<1>2. /\ StreamLen \in Nat /\ Capacity \in Nat /\ SizeMod \in Nat /\ SeqMod \in Nat
      /\ SizeMod > StreamLen + 3 /\ MaxStale \in Nat /\ SeqMod > StreamLen + 2
      /\ 2 * MaxStale <= SeqMod
  BY PeerStreamAssumption, ReceiverAssumption, SizeModAssumption, SeqModAssumption DEF OneLap
<1>3. /\ fu = R.first_unassembled /\ fu \in 0 .. StreamLen
      /\ get_first_unacceptable(R) = R.output.bytes_read + Capacity
  BY <1>1, GoodFacts DEF fu
<1>4. /\ seg.seqno = wrap(a, isn) /\ seg.syn = (a = 0) /\ seg.fin = isFin /\ seg.payload = d
  BY DEF Segment
<1>5. unwrap(wrap(a, isn), isn, fu) = a
  <2>1. a \in Nat /\ a < SeqMod /\ fu \in Nat /\ fu < SeqMod
    BY SMTT(30), <1>2, <1>3
  <2>2. fu > a => 2 * (fu - a) <= SeqMod
    BY <1>2, <1>3, <2>1
  <2> QED BY <1>1, <2>1, <2>2, UnwrapFirstLap
<1>6. /\ idx \in SizeT /\ (a > 0 => idx = a - 1)
  BY <1>2 DEF SizeSub, SizeT
<1>7. /\ receiver' = ReceiverSegment(receiver, seg) /\ UNCHANGED isn
      /\ promised' = IF receiver'.isn = None THEN promised
                     ELSE receiver'.reassembler.first_unassembled + window_size(receiver')
  BY DEF Receive
<1>8. isn # None
  BY <1>1, SeqModAssumption DEF WrappingInt, None
<1>9. IsExcerpt(<< >>, idx) /\ IsExcerpt(<< >>, 0) /\ Len(<< >>) = 0
  BY EmptySeq DEF IsExcerpt
<1> HIDE DEF seg
<1>10. CASE receiver.isn = None /\ a # 0
  <2>1. receiver' = receiver
    BY Zenon, <1>4, <1>7, <1>10 DEF ReceiverSegment
  <2>2. promised' = promised
    BY <1>7, <1>10, <2>1
  <2>3. IInv'
    BY <1>7, <2>1, <2>2 DEF IInv, AcksWhatItHas, out
  <2> QED BY <1>1, <2>2, <2>3
<1>11. CASE receiver.isn = None /\ a = 0
  <2> DEFINE q == push_substring(R, d, a, isFin)
  <2>1. a \in SizeT
    BY <1>11, SizeModAssumption DEF SizeT
  <2>2. ~isFin /\ d = << >> /\ wrap(a, isn) = isn /\ IsExcerpt(d, a)
    BY <1>1, <1>9, <1>11, SeqModAssumption DEF wrap, WrappingInt
  <2>3. /\ Good(q) /\ q.output.bytes_read = R.output.bytes_read
        /\ q.has_eof = (R.has_eof \/ isFin)
    BY <1>1, <2>1, <2>2, PushSubstringKeeps
  <2>4. ~q.has_eof /\ ~q.output.input_end
    BY <1>11, <2>2, <2>3 DEF IInv, Good, Loose
  <2>5. ReceiverSegment(receiver, seg) = FirstSyn(receiver, seg)
    BY Zenon, <1>4, <1>11 DEF ReceiverSegment
  <2>6. FirstSyn(receiver, seg) =
          [receiver EXCEPT !.isn = isn, !.reassembler = q,
                           !.ackno = wrap(1 + q.first_unassembled + 0, isn)]
    BY Zenon, <1>4, <1>11, <2>2 DEF FirstSyn
  <2> HIDE DEF q
  <2>7. receiver' =
          [receiver EXCEPT !.isn = isn, !.reassembler = q,
                           !.ackno = wrap(1 + q.first_unassembled
                                            + (IF q.output.input_end THEN 1 ELSE 0), isn)]
    BY <1>7, <2>4, <2>5, <2>6
  <2>8. receiver'.isn = isn /\ receiver'.reassembler = q
    BY <1>1, <2>7 DEF Receivers
  <2>9. promised' = q.first_unassembled + window_size(receiver')
    BY SMTT(30), <1>7, <1>8, <2>8
  <2> QED BY Zenon, <1>7, <2>3, <2>7, <2>9, AckKeeps
<1>12. CASE receiver.isn # None
  <2> DEFINE q == push_substring(R, d, idx, isFin)
  <2>1. /\ Good(q) /\ q.output.bytes_read = R.output.bytes_read
    <3>1. /\ IsExcerpt(d, idx)
          /\ isFin => idx + Len(d) = StreamLen
          /\ d # << >> => idx + Len(d) <= StreamLen /\ idx <= get_first_unacceptable(R)
      <4>1. CASE a = 0
        BY <1>9, <4>1
      <4>2. CASE a > 0
        <5>1. idx = a - 1
          BY <1>6, <4>2
        <5>2. d # << >> => a - 1 <= R.output.bytes_read + Capacity
          <6>1. R.output.bytes_read \in Nat
            BY <1>1, GoodFacts
          <6> QED BY <1>1, <1>2, <4>2, <6>1
        <5> QED BY <1>3, <4>2, <5>1, <5>2
      <4> QED BY <4>1, <4>2
    <3> HIDE DEF idx
    <3> QED BY <1>1, <1>6, <3>1, PushSubstringKeeps
  <2>2. receiver.isn = isn
    BY <1>1, <1>12
  <2>3. ReceiverSegment(receiver, seg) = LaterSegment(receiver, seg)
    BY <1>12 DEF ReceiverSegment
  <2>4. reach_end(q) <=> q.output.input_end
    BY <2>1, GoodFacts
  <2>5. LaterSegment(receiver, seg) =
          [receiver EXCEPT !.reassembler = q,
                           !.ackno = wrap(q.first_unassembled + 1
                                            + (IF reach_end(q) THEN 1 ELSE 0), isn)]
    BY Zenon, <1>3, <1>4, <1>5, <2>2 DEF LaterSegment
  <2>6. q.first_unassembled \in Nat
    BY <2>1 DEF Good, Loose, Reassemblers
  <2> HIDE DEF q
  <2>7. q.first_unassembled + 1 + (IF reach_end(q) THEN 1 ELSE 0)
          = 1 + q.first_unassembled + (IF q.output.input_end THEN 1 ELSE 0)
    BY <2>4, <2>6
  <2>8. receiver' =
          [receiver EXCEPT !.reassembler = q,
                           !.ackno = wrap(1 + q.first_unassembled
                                            + (IF q.output.input_end THEN 1 ELSE 0), isn)]
    BY Zenon, <1>7, <2>3, <2>5, <2>7
  <2>9. receiver'.isn = isn /\ receiver'.reassembler = q
    BY <1>1, <2>2, <2>8 DEF Receivers
  <2>10. receiver' =
          [receiver EXCEPT !.isn = isn, !.reassembler = q,
                           !.ackno = wrap(1 + q.first_unassembled
                                            + (IF q.output.input_end THEN 1 ELSE 0), isn)]
    BY Zenon, <1>1, <2>2, <2>8 DEF Receivers
  <2>11. promised' = q.first_unassembled + window_size(receiver')
    BY <1>7, <1>8, <2>9
  <2> QED BY Zenon, <1>7, <2>1, <2>10, <2>11, AckKeeps
<1> QED
  BY <1>10, <1>11, <1>12

(***************************************************************************)
(* Every step preserves the invariant and offers no less window.           *)
(***************************************************************************)
LEMMA NextIInv ==
    ASSUME OneLap, IInv, [Next]_vars
    PROVE  IInv' /\ promised' >= promised
<1>0. /\ StreamLen \in Nat /\ StreamLen > 0 /\ Capacity \in Nat /\ MaxPayload \in Nat
      /\ MaxSynPayload = 0 /\ promised \in Nat
  BY PeerStreamAssumption, ReceiverAssumption DEF OneLap, IInv
<1>1. ASSUME NEW len \in 0 .. StreamLen, NEW isFin \in BOOLEAN, Syn(len, isFin)
      PROVE  IInv' /\ promised' >= promised
  <2> DEFINE a == 0
             d == Excerpt(0, len)
  <2>1. len = 0 /\ ~isFin
    BY <1>0, <1>1 DEF Syn
  <2>2. d = << >>
    <3>1. Len(Excerpt(0, 0)) = 0 /\ Excerpt(0, 0) \in Seq(Nat)
      BY ExcerptIsExcerpt DEF Excerpt, IsExcerpt
    <3> QED BY <2>1, <3>1, EmptySeq
  <2>3. Receive(Segment(a, TRUE, isFin, d)) /\ TRUE = (a = 0) /\ fu < a + MaxStale
    <3>1. MaxStale \in Nat
      BY ReceiverAssumption
    <3>2. Receive(Segment(0, TRUE, isFin, Excerpt(0, len))) /\ fu < MaxStale
      BY Zenon, <1>1 DEF Syn
    <3>3. 0 + MaxStale = MaxStale
      BY <3>1
    <3> QED BY Zenon, <3>2, <3>3
  <2>4. a \in 0 .. (StreamLen + 2) /\ ~(a > 0)
    BY <1>0
  <2> HIDE DEF a, d
  <2>5. Receive(Segment(a, a = 0, isFin, d))
    BY Zenon, <2>3
  <2> QED BY <2>1, <2>2, <2>3, <2>4, <2>5, ReceiveKeeps
<1>2. ASSUME NEW index \in 0 .. StreamLen, NEW len \in 0 .. MaxPayload,
             NEW isFin \in BOOLEAN, Data(index, len, isFin)
      PROVE  IInv' /\ promised' >= promised
  <2> DEFINE a == index + 1
             d == Excerpt(index, len)
  <2>1. /\ a \in 0 .. (StreamLen + 2) /\ a # 0 /\ a - 1 = index /\ a > 0
        /\ index \in Nat /\ len \in Nat
    BY <1>0
  <2>2. IsExcerpt(d, index) /\ Len(d) = len
    BY <2>1, ExcerptIsExcerpt DEF Excerpt
  <2>3. Receive(Segment(a, FALSE, isFin, d)) /\ FALSE = (a = 0)
    BY Zenon, <1>2, <2>1 DEF Data
  <2>4. Receive(Segment(a, a = 0, isFin, d))
    BY Zenon, <2>3
  <2>5. /\ isFin => index + Len(d) = StreamLen
        /\ d # << >> => index + Len(d) <= StreamLen /\ index <= promised
    BY <1>2, <2>2 DEF Data
  <2>6. fu < a + MaxStale
    <3>1. fu \in Nat /\ MaxStale \in Nat
      BY GoodFacts, PeerStreamAssumption, ReceiverAssumption DEF IInv, fu
    <3> QED BY <1>2, <2>1, <3>1 DEF Data
  <2> HIDE DEF a, d
  <2> QED BY <2>1, <2>2, <2>4, <2>5, <2>6, ReceiveKeeps
<1>3. ASSUME NEW abs \in 1 .. (StreamLen + 2), BareAck(abs)
      PROVE  IInv' /\ promised' >= promised
  <2>1. /\ abs \in 0 .. (StreamLen + 2) /\ abs # 0 /\ IsExcerpt(<< >>, abs - 1)
    BY <1>0, EmptySeq DEF IsExcerpt
  <2>2. Receive(Segment(abs, FALSE, FALSE, << >>)) /\ FALSE = (abs = 0)
        /\ fu < abs + MaxStale
    BY Zenon, <1>3, <2>1 DEF BareAck
  <2>3. Receive(Segment(abs, abs = 0, FALSE, << >>))
    BY Zenon, <2>2
  <2> QED BY Zenon, <2>1, <2>2, <2>3, ReceiveKeeps
<1>4. ASSUME NEW len \in 1 .. Capacity, Read(len)
      PROVE  IInv' /\ promised' >= promised
  <2> DEFINE R == receiver.reassembler
             q == [R EXCEPT !.output = AfterRead(@, len)]
  <2>1. /\ receiver \in Receivers /\ Good(R) /\ R \in Reassemblers
        /\ promised <= R.output.bytes_read + Capacity /\ R.output.bytes_read \in Nat
    BY GoodFacts DEF IInv, out, Receivers
  <2>2. /\ Good(q) /\ q.has_eof = R.has_eof /\ q.first_unassembled = R.first_unassembled
        /\ q.output.bytes_written = R.output.bytes_written
        /\ q.output.input_end = R.output.input_end
        /\ q.output.bytes_read >= R.output.bytes_read
    BY <1>0, <2>1, ReadGood
  <2>3. q \in Reassemblers /\ q.output.bytes_read \in Nat
    BY Zenon, <2>2, GoodFacts DEF Good, Loose
  <2>4. receiver' = [receiver EXCEPT !.reassembler = q]
    <3>1. receiver' = [receiver EXCEPT !.reassembler.output = AfterRead(@, len)]
      BY <1>4 DEF Read
    <3> QED BY <3>1
  <2> HIDE DEF q
  <2>5. /\ receiver' \in Receivers /\ receiver'.reassembler = q
        /\ receiver'.isn = receiver.isn /\ receiver'.ackno = receiver.ackno
        /\ receiver'.capacity = receiver.capacity
    BY <2>1, <2>3, <2>4 DEF Receivers
  <2>6. isn' = isn /\ promised' = promised
    BY <1>4 DEF Read
  <2>7. promised' <= q.output.bytes_read + Capacity
    BY <1>0, <2>1, <2>2, <2>3, <2>6
  <2>8. AcksWhatItHas'
    BY <2>2, <2>5, <2>6 DEF IInv, AcksWhatItHas, out
  <2>9. IInv'
    BY <2>2, <2>5, <2>6, <2>7, <2>8 DEF IInv, out
  <2> QED BY <1>0, <2>6, <2>9
<1>5. CASE UNCHANGED vars
  <2>1. IInv'
    BY <1>5 DEF vars, IInv, AcksWhatItHas, out
  <2> QED BY <1>0, <1>5, <2>1 DEF vars
<1> QED
  BY <1>1, <1>2, <1>3, <1>4, <1>5 DEF Next

(***************************************************************************)
(* The inductive invariant gives the invariants of ReceiverSpec, and what  *)
(* unwrap does gives the one of MCReceiver.                                *)
(***************************************************************************)
LEMMA IInvImplies ==
    IInv => TypeOK /\ InOrder /\ AcksWhatItHas
BY DEF IInv, TypeOK, InOrder, AcksWhatItHas, Good, Loose, Flowing, Orderly, IsExcerpt, out

--------------------------------------------------------------------------------
(***************************************************************************)
(* Whatever the network loses, repeats or reorders, and wherever in the    *)
(* 32-bit space the peer starts, the application reads the peer's bytes in *)
(* order, each once.                                                       *)
(***************************************************************************)
THEOREM ReceiverInOrder == ASSUME OneLap PROVE Spec => []InOrder
<1>1. Init => IInv
  BY InitIInv
<1>2. IInv /\ [Next]_vars => IInv'
  BY NextIInv
<1>3. IInv => InOrder
  BY IInvImplies
<1> QED
  BY <1>1, <1>2, <1>3, PTL DEF Spec

(***************************************************************************)
(* ackno() covers the SYN, exactly the bytes written to the output, and    *)
(* the FIN if and only if the output has ended.                            *)
(***************************************************************************)
THEOREM ReceiverAcksWhatItHas == ASSUME OneLap PROVE Spec => []AcksWhatItHas
<1>1. Init => IInv
  BY InitIInv
<1>2. IInv /\ [Next]_vars => IInv'
  BY NextIInv
<1>3. IInv => AcksWhatItHas
  BY IInvImplies
<1> QED
  BY <1>1, <1>2, <1>3, PTL DEF Spec

(***************************************************************************)
(* The receiver never takes back window it has offered.                    *)
(***************************************************************************)
THEOREM ReceiverWindowNeverShrinks == ASSUME OneLap PROVE Spec => WindowNeverShrinks
<1>1. Init => IInv
  BY InitIInv
<1>2. IInv /\ [Next]_vars => IInv' /\ [promised' >= promised]_vars
  BY NextIInv
<1> QED
  BY <1>1, <1>2, PTL DEF Spec, WindowNeverShrinks

(***************************************************************************)
(* unwrap() answers with the number closest to the checkpoint, for every   *)
(* sequence number, every initial one and every checkpoint of every lap    *)
(* but the second.  This needs nothing of the peer or the network.         *)
(***************************************************************************)
THEOREM UnwrapClosestOffSecondLap == Spec => []UnwrapsToClosestOffSecondLap
<1> DEFINE I == isn \in WrappingInt
<1>1. Init => I
  BY ReceiverAssumption DEF Init
<1>2. I /\ [Next]_vars => I'
  BY Zenon DEF Next, vars, Syn, Data, BareAck, Read, Receive
<1>3. I => UnwrapsToClosestOffSecondLap
  <2>1. SUFFICES ASSUME isn \in WrappingInt, NEW c \in 0 .. MaxCheckpoint,
                        c \div SeqMod # 1, NEW n \in WrappingInt
                 PROVE  /\ wrap(unwrap(n, isn, c), isn) = n
                        /\ IsClosest(unwrap(n, isn, c), n, c)
    BY DEF UnwrapsToClosestOffSecondLap, UnwrapsToClosestAt
  <2>2. c \in Nat /\ Absolutes \subseteq Nat
    BY MaxCheckpointAssumption, SeqModAssumption DEF Absolutes
  <2> QED BY <2>1, <2>2, UnwrapClosest DEF IsClosest
<1> HIDE DEF I
<1> QED
  BY <1>1, <1>2, <1>3, PTL DEF Spec
===============================================================================
