------------------------------ MODULE MCBuddy -------------------------------
(***************************************************************************)
(* Constants of Buddy for TLC.                                             *)
(***************************************************************************)
EXTENDS Buddy

MCSize == [k \in 0 .. MaxOrder |-> 2 ^ k]

(* One order more than exists: such requests must be refused. *)
MCOrders == 0 .. MaxOrder + 1

(* Nothing reserved: every block buddy_init makes is aligned. *)
NoRegions == <<>>

(* With 4-byte frames: the first frame, as memory_reserve(0, 0x1000); a    *)
(* range that begins and ends inside frames 5 and 6; and one that runs     *)
(* past the end of memory.                                                 *)
BootRegions == <<<<0, 4>>, <<22, 25>>, <<38, 60>>>>
=============================================================================
