----------------------------- MODULE MCRunQueue ------------------------------
(***************************************************************************)
(* RunQueue for TLC: the configurations give the number of descriptors.    *)
(***************************************************************************)
EXTENDS RunQueue
=============================================================================
