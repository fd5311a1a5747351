------------------------------ MODULE MCPreempt ------------------------------
(***************************************************************************)
(* Preempt for TLC: the configurations give the threads and the bounds.    *)
(***************************************************************************)
EXTENDS Preempt
=============================================================================
