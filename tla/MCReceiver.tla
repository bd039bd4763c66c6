------------------------------ MODULE MCReceiver ------------------------------
(***************************************************************************)
(* TLC instance of ReceiverSpec.  The streams of the instance are short,   *)
(* so unwrap meets only small checkpoints in it; the invariants below try  *)
(* it, for the initial sequence number of the peer, on every checkpoint of *)
(* the first laps of the sequence space, once, before anything arrives.    *)
(***************************************************************************)
EXTENDS ReceiverSpec

CONSTANT MaxCheckpoint  \* bound: last checkpoint tried

ASSUME MaxCheckpointAssumption == MaxCheckpoint \in Nat

AllIsn == WrappingInt

Absolutes == 0 .. (MaxCheckpoint + SeqMod)

IsClosest(a, n, checkpoint) ==
    \A b \in Absolutes :
        wrap(b, isn) = n => Distance(a, checkpoint) <= Distance(b, checkpoint)

\* unwrap returns the number closest to checkpoint that wraps to n.
UnwrapsToClosestAt(checkpoint) ==
    \A n \in WrappingInt :
        LET a == unwrap(n, isn, checkpoint)
        IN  wrap(a, isn) = n /\ IsClosest(a, n, checkpoint)

(***************************************************************************)
(* unwrap returns "the 64-bit sequence number that wraps to n and is       *)
(* closest to checkpoint", for every n and every checkpoint outside the    *)
(* second lap of the sequence space, where it never tries the number one   *)
(* lap lower.                                                              *)
(***************************************************************************)
UnwrapsToClosestOffSecondLap ==
    receiver = NewReceiver(Capacity) =>
        \A checkpoint \in 0 .. MaxCheckpoint :
            checkpoint \div SeqMod # 1 => UnwrapsToClosestAt(checkpoint)
===============================================================================
