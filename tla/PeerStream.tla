------------------------------- MODULE PeerStream -------------------------------
(***************************************************************************)
(* The stream a peer sends to a StreamReassembler: StreamLen bytes, byte i *)
(* being the number i.                                                     *)
(***************************************************************************)
EXTENDS StreamReassembler

CONSTANTS
    Capacity,   \* the capacity the reassembler is constructed with
    StreamLen   \* bound: length of the peer's stream

ASSUME PeerStreamAssumption ==
    /\ Capacity \in Nat
    /\ StreamLen \in Nat
    /\ SizeMod > StreamLen + Capacity + 2

Excerpt(index, len) == [k \in 1 .. len |-> (index + k) - 1]
===============================================================================
