---------------------------- MODULE ReplayWindow ----------------------------
(***************************************************************************)
(* What a session's replay ring promises, whatever its byte accounting     *)
(* does: sequence numbers are handed out one by one, and the resident      *)
(* frames are always the unbroken window floor .. next - 1.  Session uses  *)
(* the ring through this module; ReplayRing, the deque of ring.rs,         *)
(* implements it.                                                          *)
(***************************************************************************)
EXTENDS Integers

CONSTANTS
    MaxMsgs,                \* max_msgs, raised to at least 1 by ReplayRing::new
    BytesEvict              \* can frames be evicted for their bytes?

VARIABLES
    floor,                  \* floor_seq: the lowest resident seq, next if none
    next                    \* next_seq: the seq the next push assigns

windowVars == <<floor, next>>

Init == floor = 1 /\ next = 1

\* A push may evict from the front: by count it must, by bytes it may, up to
\* the frame just pushed when that frame alone is over the byte cap.
Push ==
    /\ next' = next + 1
    /\ \E f \in floor .. next + 1 :
          /\ next + 1 - f <= MaxMsgs
          /\ BytesEvict \/ f = floor \/ next + 1 - f = MaxMsgs
          /\ floor' = f

Spec == Init /\ [][Push]_windowVars

-----------------------------------------------------------------------------
(* replay_from(last_seen), seen from outside.                              *)

CaughtUp(lastSeen) == lastSeen + 1 >= next
Replayable(lastSeen) == CaughtUp(lastSeen) \/ lastSeen + 1 >= floor
=============================================================================
