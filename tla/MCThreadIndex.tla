---------------------------- MODULE MCThreadIndex ----------------------------
(* ThreadIndex for TLC.  Two calls, and a pager that sees one row a page.  *)
EXTENDS ThreadIndex, TLC

Symmetry == Permutations(Calls)
=============================================================================
