------------------------------ MODULE MCMailbox ------------------------------
(***************************************************************************)
(* Mailbox for TLC: both shells and one user program, as model values.     *)
(***************************************************************************)
EXTENDS Mailbox
=============================================================================
