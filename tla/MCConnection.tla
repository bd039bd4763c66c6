------------------------------ MODULE MCConnection ------------------------------
(***************************************************************************)
(* TLC instances of ConnectionSpec.                                        *)
(***************************************************************************)
EXTENDS ConnectionSpec

\* The two ends with the same and with different values.
Both(v) == [e \in Ends |-> v]

Two(c, s) == [client |-> c, server |-> s]

Tight == Both(1)
NarrowServer == Two(1, 2)
TwoBytes == Two(2, 0)
FourBytes == Two(4, 0)
Isns == Two(15, 14)
================================================================================
