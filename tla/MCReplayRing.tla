---------------------------- MODULE MCReplayRing ----------------------------
(* ReplayRing on a ring of two or three frames, with frames that fit, that *)
(* fill the byte cap, and that exceed it on their own.                     *)
EXTENDS ReplayRing
=============================================================================
