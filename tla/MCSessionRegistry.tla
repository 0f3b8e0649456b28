------------------------- MODULE MCSessionRegistry -------------------------
(* SessionRegistry for TLC: registry.cfg has two keys and three streams;   *)
(* attached.cfg has one session that two streams resolve.                  *)
EXTENDS SessionRegistry
=============================================================================
