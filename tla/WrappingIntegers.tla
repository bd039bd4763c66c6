--------------------------- MODULE WrappingIntegers ---------------------------
(***************************************************************************)
(* Sequence-number arithmetic of libsponge/wrapping_integers.cc.  A        *)
(* WrappingInt32 is a number below SeqMod, which stands for 2^32; an       *)
(* absolute sequence number is a natural number that never gets near the   *)
(* 2^64 at which the code's uint64_t would wrap.                           *)
(***************************************************************************)
EXTENDS Integers

CONSTANT SeqMod

ASSUME SeqModAssumption == SeqMod \in Nat \ {0, 1}

WrappingInt == 0 .. (SeqMod - 1)

wrap(n, isn) == (isn + n) % SeqMod

Distance(a, b) == IF a >= b THEN a - b ELSE b - a

InitAbsSeqno(n, isn) == IF n >= isn THEN n - isn ELSE (n + SeqMod) - isn

\* Mutant of unwrap: it never tries the lap below the checkpoint's.
UnwrapUpward(n, isn, checkpoint) ==
    LET abs1  == InitAbsSeqno(n, isn) + (checkpoint \div SeqMod) * SeqMod
        abs2  == abs1 + SeqMod
    IN  IF Distance(abs1, checkpoint) <= Distance(abs2, checkpoint) THEN abs1 ELSE abs2

unwrap(n, isn, checkpoint) ==
    LET init  == InitAbsSeqno(n, isn)
        power == checkpoint \div SeqMod
        abs0  == init + (IF power <= 1 THEN power ELSE power - 1) * SeqMod
        abs1  == init + power * SeqMod
        abs2  == init + (power + 1) * SeqMod
        dist0 == Distance(abs0, checkpoint)
        dist1 == Distance(abs1, checkpoint)
        dist2 == Distance(abs2, checkpoint)
    IN  IF dist0 <= dist1
        THEN IF dist0 <= dist2 THEN abs0 ELSE abs2
        ELSE IF dist1 <= dist2 THEN abs1 ELSE abs2
===============================================================================
