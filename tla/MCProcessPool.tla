--------------------------- MODULE MCProcessPool ---------------------------
(* ProcessPool for TLC: pool.cfg has two acquirers that compete for room   *)
(* for one process; killed.cfg has a turn on a pool of two.                *)
EXTENDS ProcessPool
=============================================================================
