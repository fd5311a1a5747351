---------------------------- MODULE MCSlabCalls -----------------------------
(***************************************************************************)
(* SlabCalls for TLC, with a small slot and a whole frame.                 *)
(***************************************************************************)
EXTENDS SlabCalls

MCSizes == <<2, 5>>
MCSize == [k \in 0 .. LastOrder |-> 2 ^ k]

(* 0, each side of the small slot's size, and two frames. *)
MCRequests == {0, 2, 3, 10}
=============================================================================
