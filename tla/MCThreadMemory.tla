--------------------------- MODULE MCThreadMemory ----------------------------
(***************************************************************************)
(* ThreadMemory for TLC: no thread is a model value.                       *)
(***************************************************************************)
EXTENDS ThreadMemory
=============================================================================
