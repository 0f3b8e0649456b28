----------------------------- MODULE ReplayRing -----------------------------
(***************************************************************************)
(* session/ring.rs: the bounded, sequenced replay buffer.  Two caps, one   *)
(* on messages and one on serialized bytes; push evicts from the front     *)
(* until both hold.  Every operation runs under the session's ring mutex,  *)
(* so each is one step.  A frame is its seq and its byte length.           *)
(***************************************************************************)
EXTENDS Integers, Sequences

CONSTANTS
    MaxMsgs,                \* max_msgs
    MaxBytes,               \* max_bytes
    FrameSizes,             \* byte lengths a serialized payload can have
    MaxSeq                  \* bound of the model: frames pushed in a behaviour

ASSUME RingAssumption ==
    /\ MaxMsgs \in Nat \ {0}
    /\ MaxBytes \in Nat \ {0}
    /\ FrameSizes \subseteq Nat
    /\ MaxSeq \in Nat

VARIABLES
    buf,                    \* the deque, front first
    bytes,                  \* running total of the resident frames' bytes
    floor,                  \* floor_seq
    next                    \* next_seq

ringVars == <<buf, bytes, floor, next>>

Frame == [seq : Nat, bytes : Nat]

RingTypeOK ==
    /\ buf \in Seq(Frame)
    /\ bytes \in Nat
    /\ floor \in Nat
    /\ next \in Nat

-----------------------------------------------------------------------------
\* Serialized bytes held by a sequence of frames.
BytesOf(frames) ==
    LET total[n \in 0 .. Len(frames)] ==
            IF n = 0 THEN 0 ELSE total[n - 1] + frames[n].bytes
    IN  total[Len(frames)]

\* The eviction loop stops after popping k frames: nothing is left to pop, or
\* both caps hold.
CapsHold(frames, k) ==
    \/ k = Len(frames)
    \/ /\ Len(frames) - k <= MaxMsgs
       /\ BytesOf(SubSeq(frames, k + 1, Len(frames))) <= MaxBytes

\* evict pops until the caps hold, not one frame further.
Evicts(frames, k) ==
    /\ k \in 0 .. Len(frames)
    /\ CapsHold(frames, k)
    /\ \A j \in 0 .. k - 1 : ~CapsHold(frames, j)

\* Bug variant: the floor stays on the frame just evicted.
FloorOnEvicted(frames, k, newNext) ==
    CASE k = Len(frames) -> newNext
      [] k > 0 /\ k < Len(frames) -> frames[k].seq
      [] OTHER -> floor

\* Bug variant: an emptied buffer keeps its old floor.
FloorNotReset(frames, k, newNext) ==
    IF k > 0 /\ k < Len(frames) THEN frames[k].seq + 1 ELSE floor

\* evict's floor_seq: past the last frame popped, next_seq once nothing is left.
FloorAfter(frames, k, newNext) ==
    CASE k = Len(frames) -> newNext
      [] k > 0 /\ k < Len(frames) -> frames[k].seq + 1
      [] OTHER -> floor

\* Bug variant: evicted bytes are never given back.
NeverSubtracts(a, b) == a

\* usize::saturating_sub
SaturatingSub(a, b) == IF a >= b THEN a - b ELSE 0

RingInit ==
    /\ buf = <<>>
    /\ bytes = 0
    /\ floor = 1
    /\ next = 1

Push(size) ==
    /\ next <= MaxSeq
    /\ LET grown == Append(buf, [seq |-> next, bytes |-> size])
       IN  \E k \in 0 .. Len(grown) :
              /\ Evicts(grown, k)
              /\ buf' = SubSeq(grown, k + 1, Len(grown))
              /\ bytes' = SaturatingSub(bytes + size, BytesOf(SubSeq(grown, 1, k)))
              /\ floor' = FloorAfter(grown, k, next + 1)
    /\ next' = next + 1

RingNext == \E size \in FrameSizes : Push(size)

RingSpec == RingInit /\ [][RingNext]_ringVars

-----------------------------------------------------------------------------
Drift == "drift"

\* The frames past the cursor.
Newer(frames, lastSeen) ==
    LET kept[n \in 0 .. Len(frames)] ==
            IF n = 0 THEN <<>>
            ELSE IF frames[n].seq > lastSeen THEN Append(kept[n - 1], frames[n])
            ELSE kept[n - 1]
    IN  kept[Len(frames)]

\* Bug variant: the frame at the cursor is sent again.
ReplayFromInclusive(lastSeen) ==
    CASE lastSeen + 1 >= next -> <<>>
      [] lastSeen + 1 < next /\ lastSeen + 1 < floor -> Drift
      [] OTHER -> Newer(buf, lastSeen - 1)

\* replay_from(last_seen): the frames after the cursor, or Drift.
ReplayFrom(lastSeen) ==
    CASE lastSeen + 1 >= next -> <<>>
      [] lastSeen + 1 < next /\ lastSeen + 1 < floor -> Drift
      [] OTHER -> Newer(buf, lastSeen)

Window == INSTANCE ReplayWindow WITH BytesEvict <- TRUE

-----------------------------------------------------------------------------
\* The deque holds exactly the seqs floor .. next - 1, in order: eviction by
\* either cap, even of the frame just pushed, leaves no gap and no stale
\* floor (evict, and the reset of floor_seq on an emptied buffer).
Contiguous ==
    /\ Len(buf) = next - floor
    /\ \A i \in 1 .. Len(buf) : buf[i].seq = floor + i - 1

\* The incremental byte counter never drifts from the frames it stands for,
\* so the byte cap is enforced on what is really resident.
BytesExact ==
    /\ bytes = BytesOf(buf)
    /\ bytes <= MaxBytes

\* replay_from hands a client every frame it misses and no other, in order, or
\* says Drift -- and says Drift only when a frame it needs has been evicted.
ReplayExact ==
    \A lastSeen \in 0 .. next + 1 :
        IF Window!Replayable(lastSeen)
        THEN LET replay == ReplayFrom(lastSeen)
             IN  /\ Len(replay) = IF lastSeen >= next - 1 THEN 0 ELSE next - 1 - lastSeen
                 /\ \A i \in 1 .. Len(replay) : replay[i].seq = lastSeen + i
        ELSE ReplayFrom(lastSeen) = Drift

\* The ring implements the window Session relies on (refinement).
ImplementsWindow == Window!Spec
=============================================================================
