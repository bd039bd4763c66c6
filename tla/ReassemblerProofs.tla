---------------------------- MODULE ReassemblerProofs ----------------------------
(***************************************************************************)
(* Proofs about ReassemblerSpec, for every capacity and every stream, when *)
(* no excerpt starts past the first unacceptable index (Overshoot = 0).    *)
(***************************************************************************)
EXTENDS ReassemblerSpec, ReassemblerLemmas

IInv == Good(reassembler)

--------------------------------------------------------------------------------
(***************************************************************************)
(* A new reassembler satisfies the inductive invariant.                    *)
(***************************************************************************)
LEMMA InitIInv == Init => IInv
BY NewReassemblerGood DEF Init, IInv

(***************************************************************************)
(* Every push_substring() and every read() preserves the inductive         *)
(* invariant, as long as no excerpt starts past the window.                *)
(***************************************************************************)
LEMMA NextIInv ==
    ASSUME Overshoot = 0, IInv, [Next]_reassembler
    PROVE  IInv'
<1> USE DEF IInv
<1>0. /\ Capacity \in Nat /\ StreamLen \in Nat /\ SizeMod \in Nat
      /\ SizeMod > StreamLen + 2
  BY PeerStreamAssumption, SizeModAssumption
<1>a. Loose(reassembler) /\ Ended(reassembler)
  BY DEF Good
<1>1. ASSUME NEW index \in 0 .. StreamLen, NEW len \in 0 .. StreamLen,
             NEW isEof \in BOOLEAN, PushData(index, len, isEof)
      PROVE  IInv'
  <2> DEFINE d == Excerpt(index, len)
  <2>1. index \in Nat /\ len \in Nat /\ index \in SizeT
    BY <1>0 DEF SizeT
  <2>2. IsExcerpt(d, index) /\ Len(d) = len
    BY <2>1, ExcerptIsExcerpt DEF Excerpt
  <2>3. /\ index + Len(d) <= StreamLen
        /\ isEof => index + Len(d) = StreamLen
        /\ index <= get_first_unacceptable(reassembler) + 0
    BY <1>1, <2>2 DEF PushData
  <2>4. get_first_unacceptable(reassembler) + 0 = get_first_unacceptable(reassembler)
    BY <1>0, GoodFacts
  <2>5. reassembler' = push_substring(reassembler, d, index, isEof)
    BY <1>1 DEF PushData
  <2> HIDE DEF d
  <2>6. Good(push_substring(reassembler, d, index, isEof))
    BY <1>a, <2>1, <2>2, <2>3, <2>4, PushSubstringKeeps
  <2> QED BY <2>5, <2>6
<1>2. ASSUME NEW index \in (0 .. (StreamLen + 1)) \cup {SizeMod - 1}, PushEmpty(index)
      PROVE  IInv'
  <2>1. index \in SizeT
    BY <1>0 DEF SizeT
  <2>2. IsExcerpt(<< >>, index)
    BY EmptySeq DEF IsExcerpt
  <2>3. Good(push_substring(reassembler, << >>, index, FALSE))
    BY Zenon, <1>a, <2>1, <2>2, PushSubstringKeeps
  <2> QED BY Zenon, <1>2, <2>3 DEF PushEmpty
<1>3. ASSUME NEW len \in 1 .. Capacity, Read(len)
      PROVE  IInv'
  <2>1. len \in Nat
    BY <1>0
  <2> QED BY Zenon, <1>3, <2>1, ReadGood DEF Read
<1>4. CASE UNCHANGED reassembler
  BY <1>4
<1> QED
  BY <1>1, <1>2, <1>3, <1>4 DEF Next

(***************************************************************************)
(* IInv, which is inductive, implies each invariant; WithinCapacity counts *)
(* the stored indices, which all lie strictly between the first            *)
(* unassembled index and the end of the window.                            *)
(***************************************************************************)
LEMMA IInvWithinCapacity == IInv => WithinCapacity
<1> SUFFICES ASSUME IInv PROVE WithinCapacity
  OBVIOUS
<1> DEFINE r == reassembler
           U == UnassembledIndices(r)
           f == r.first_unassembled
           top == r.output.bytes_read + Capacity
           n == Len(r.output.buffer)
<1>1. Loose(r) /\ Settled(r)
  BY DEF IInv, Good
<1>2. /\ f \in Nat /\ top \in Nat /\ n \in Nat /\ Capacity \in Nat /\ n <= Capacity
      /\ r.output.bytes_read \in Nat
  BY <1>1, PeerStreamAssumption DEF Loose, Flowing, Orderly, Reassemblers, ByteStreams
<1>3. f = r.output.bytes_read + n
  BY <1>1 DEF Loose, Flowing, Orderly
<1>4. U \subseteq f .. (top - 1)
  <2>1. SUFFICES ASSUME NEW x \in U PROVE x \in f .. (top - 1)
    OBVIOUS
  <2>2. PICK e \in r.mapbuffer : x \in e[1] .. (e[1] + Len(e[2]) - 1)
    BY <2>1 DEF UnassembledIndices
  <2>3. e[1] \in Nat /\ Len(e[2]) \in Nat
    BY <1>1, EntryFacts
  <2>4. x \in Nat /\ Holds(e, x)
    BY <2>2, <2>3 DEF Holds
  <2>5. e[1] + Len(e[2]) <= top
    BY <1>1, <2>4, EntryFacts
  <2>6. e[1] > f
    BY <1>1, <1>2, <2>3 DEF Settled, Assemblable
  <2> HIDE DEF f, top
  <2> QED BY <1>2, <2>3, <2>4, <2>5, <2>6, SMTT(20) DEF Holds
<1> HIDE DEF U, f, top, n
<1>5. /\ IsFiniteSet(f .. (top - 1))
      /\ Cardinality(f .. (top - 1)) = IF f > top - 1 THEN 0 ELSE (top - 1) - f + 1
  BY <1>2, FS_Interval
<1>6. Cardinality(U) \in Nat /\ Cardinality(U) <= Cardinality(f .. (top - 1))
  BY Zenon, <1>4, <1>5, FS_Subset, FS_CardinalityType
<1>7. top - f = Capacity - n
  BY <1>2, <1>3 DEF top
<1>8. Cardinality(f .. (top - 1)) = Capacity - n
  BY <1>2, <1>5, <1>7
<1>9. n + Cardinality(U) <= Capacity
  BY <1>2, <1>6, <1>8
<1> QED
  BY <1>9 DEF WithinCapacity, U, n

(***************************************************************************)
(* The inductive invariant gives the invariants the runs check.            *)
(***************************************************************************)
LEMMA IInvImplies ==
    IInv => TypeOK /\ InOrder /\ EndsExactly /\ NothingLeftBehind
<1> SUFFICES ASSUME IInv
             PROVE  TypeOK /\ InOrder /\ EndsExactly /\ NothingLeftBehind
  OBVIOUS
<1>1. TypeOK
  BY DEF IInv, Good, Loose, TypeOK
<1>2. InOrder
  BY DEF IInv, Good, Loose, Flowing, Orderly, IsExcerpt, InOrder
<1>3. EndsExactly
  BY DEF IInv, Good, Loose, Ended, EndsExactly
<1>4. NothingLeftBehind
  BY DEF IInv, Good, Settled, NothingLeftBehind
<1> QED
  BY <1>1, <1>2, <1>3, <1>4

--------------------------------------------------------------------------------
(***************************************************************************)
(* The reassembler's state is well-formed in every reachable state.        *)
(***************************************************************************)
THEOREM ReassemblerTypeOK == ASSUME Overshoot = 0 PROVE Spec => []TypeOK
<1>1. Init => IInv
  BY InitIInv
<1>2. IInv /\ [Next]_reassembler => IInv'
  BY NextIInv
<1>3. IInv => TypeOK
  BY IInvImplies
<1> QED
  BY <1>1, <1>2, <1>3, PTL DEF Spec

(***************************************************************************)
(* Whatever excerpts push_substring is given, in whatever order and        *)
(* however often, the reader of stream_out() gets the peer's bytes in      *)
(* order, each once, for every capacity and every length of the stream.    *)
(***************************************************************************)
THEOREM ReassemblerInOrder == ASSUME Overshoot = 0 PROVE Spec => []InOrder
<1>1. Init => IInv
  BY InitIInv
<1>2. IInv /\ [Next]_reassembler => IInv'
  BY NextIInv
<1>3. IInv => InOrder
  BY IInvImplies
<1> QED
  BY <1>1, <1>2, <1>3, PTL DEF Spec

(***************************************************************************)
(* Assembled and unassembled bytes together stay within the capacity, as   *)
(* the comment on push_substring promises, when every excerpt starts no    *)
(* further than the first unacceptable index.                              *)
(***************************************************************************)
THEOREM ReassemblerWithinCapacity ==
    ASSUME Overshoot = 0 PROVE Spec => []WithinCapacity
<1>1. Init => IInv
  BY InitIInv
<1>2. IInv /\ [Next]_reassembler => IInv'
  BY NextIInv
<1> QED
  BY <1>1, <1>2, IInvWithinCapacity, PTL DEF Spec

(***************************************************************************)
(* end_input() is called exactly when the last byte has been written and   *)
(* the peer has announced the end.                                         *)
(***************************************************************************)
THEOREM ReassemblerEndsExactly ==
    ASSUME Overshoot = 0 PROVE Spec => []EndsExactly
<1>1. Init => IInv
  BY InitIInv
<1>2. IInv /\ [Next]_reassembler => IInv'
  BY NextIInv
<1>3. IInv => EndsExactly
  BY IInvImplies
<1> QED
  BY <1>1, <1>2, <1>3, PTL DEF Spec

(***************************************************************************)
(* The loop of push_substring leaves nothing stored that touches the       *)
(* assembled prefix: no byte that could be read waits for more input.      *)
(***************************************************************************)
THEOREM ReassemblerNothingLeftBehind ==
    ASSUME Overshoot = 0 PROVE Spec => []NothingLeftBehind
<1>1. Init => IInv
  BY InitIInv
<1>2. IInv /\ [Next]_reassembler => IInv'
  BY NextIInv
<1>3. IInv => NothingLeftBehind
  BY IInvImplies
<1> QED
  BY <1>1, <1>2, <1>3, PTL DEF Spec
=================================================================================
