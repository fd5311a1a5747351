------------------------------ MODULE MCConsole ------------------------------
(***************************************************************************)
(* Console for TLC: a message that becomes three different bytes, in a     *)
(* ring of four, and a second one for another line of the shell.           *)
(***************************************************************************)
EXTENDS Console

CONSTANTS byte

MCMessage == {<<byte, LF>>}
MCMessages == {<<byte, LF>>, <<LF>>}
=============================================================================
