----------------------------- MODULE MCSession -----------------------------
(* Session for TLC: delivery and in_flight have frames and no requests,    *)
(* prompts and live have one request, preempt two overlapping streams.     *)
EXTENDS Session, TLC

\* Streams, notifiers and callers are interchangeable; not used for liveness.
Symmetry == Permutations(Streams) \cup Permutations(Notifiers) \cup Permutations(Callers)
=============================================================================
