---------------------------- MODULE MCClaudeTurn ----------------------------
(* ClaudeTurn for TLC: turn.cfg has two turns of one thread, one after the *)
(* other; killed.cfg has one turn and its interrupt.                       *)
EXTENDS ClaudeTurn
=============================================================================
