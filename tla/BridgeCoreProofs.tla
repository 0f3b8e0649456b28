---------------------------- MODULE BridgeCoreProofs ----------------------------
(***************************************************************************)
(* Three parts of the bridge-core crate, for every value of the constants. *)
(*   ring      the deque is the unbroken window floor .. next - 1, and     *)
(*             implements ReplayWindow, which is all Session knows of it;  *)
(*             its byte count is exact, and so is what a replay clones     *)
(*   registry  a minted session is the one its key resolves to until the   *)
(*             reaper drops it                                             *)
(*   pool      its two tables in lockstep, no child forgotten, and by how  *)
(*             much the cap can be passed                                  *)
(***************************************************************************)
EXTENDS ReplayRing, SessionRegistry, ProcessPool, WellFoundedInduction,
        FiniteSetTheorems, TLAPS

-----------------------------------------------------------------------------
(* The ring.                                                               *)

\* The inductive invariant: the deque holds exactly the seqs of the window, in
\* order, and never more of them than max_msgs.
RingInv ==
    /\ buf \in Seq(Frame)
    /\ floor \in Nat /\ next \in Nat
    /\ floor <= next
    /\ Len(buf) <= MaxMsgs
    /\ Contiguous

\* What one push does to floor and deque when evict pops k frames.
LEMMA PushStep ==
    ASSUME RingInv, NEW size \in FrameSizes, Push(size)
    PROVE  /\ RingInv'
           /\ next' = next + 1
           /\ floor <= floor' /\ floor' <= next + 1 /\ next + 1 - floor' <= MaxMsgs
<1> DEFINE grown == Append(buf, [seq |-> next, bytes |-> size])
<1>1. PICK k \in 0 .. Len(grown) :
         /\ Evicts(grown, k)
         /\ buf' = SubSeq(grown, k + 1, Len(grown))
         /\ floor' = FloorAfter(grown, k, next + 1)
  BY DEF Push
<1>2. next' = next + 1
  BY DEF Push
<1>3. /\ grown \in Seq(Frame) /\ Len(grown) = Len(buf) + 1
      /\ \A i \in 1 .. Len(grown) : grown[i].seq = floor + i - 1
  <2>1. [seq |-> next, bytes |-> size] \in Frame
    BY RingAssumption DEF RingInv, Frame
  <2>2. grown \in Seq(Frame) /\ Len(grown) = Len(buf) + 1
    BY <2>1 DEF RingInv
  <2>3. \A i \in 1 .. Len(buf) : grown[i] = buf[i]
    BY <2>1 DEF RingInv
  <2>4. grown[Len(buf) + 1] = [seq |-> next, bytes |-> size]
    BY <2>1 DEF RingInv
  <2>5. grown[Len(buf) + 1].seq = floor + Len(buf)
    BY <2>4 DEF RingInv, Contiguous
  <2>6. \A i \in 1 .. Len(buf) : grown[i].seq = floor + i - 1
    BY <2>3 DEF RingInv, Contiguous
  <2>7. Len(buf) \in Nat /\ floor \in Nat
    BY DEF RingInv
  <2> QED
    BY <2>2, <2>5, <2>6, <2>7
<1> HIDE DEF grown
<1>0. Len(grown) \in Nat /\ k \in Nat /\ floor \in Nat /\ next \in Nat
  BY <1>1, <1>3 DEF RingInv
<1>4. Len(grown) = next + 1 - floor
  BY <1>3 DEF RingInv, Contiguous
<1>5. /\ buf' \in Seq(Frame) /\ Len(buf') = Len(grown) - k
      /\ \A i \in 1 .. Len(buf') : buf'[i] = grown[k + i]
  BY <1>1, <1>3
<1>6. floor' = floor + k
  <2>1. CASE k = Len(grown)
    BY <1>1, <1>4, <2>1 DEF FloorAfter, RingInv
  <2>2. CASE k > 0 /\ k < Len(grown)
    <3>1. floor' = grown[k].seq + 1
      BY <1>1, <2>2 DEF FloorAfter
    <3>2. grown[k].seq = floor + k - 1
      BY <1>3, <2>2
    <3> QED
      BY <3>1, <3>2, <1>0
  <2>3. CASE k = 0
    <3>1. Len(grown) # 0
      BY <1>3 DEF RingInv
    <3>2. floor' = floor
      BY <1>1, <2>3, <3>1 DEF FloorAfter
    <3> QED
      BY <2>3, <3>2 DEF RingInv
  <2> QED
    BY <1>1, <1>3, <2>1, <2>2, <2>3 DEF RingInv
<1>7. Len(buf') = next' - floor'
  BY <1>1, <1>2, <1>4, <1>5, <1>6 DEF RingInv
<1>8. \A i \in 1 .. Len(buf') : buf'[i].seq = floor' + i - 1
  <2> SUFFICES ASSUME NEW i \in 1 .. Len(buf') PROVE buf'[i].seq = floor' + i - 1
    OBVIOUS
  <2>1. k + i \in 1 .. Len(grown) /\ buf'[i] = grown[k + i]
    BY <1>1, <1>3, <1>5
  <2>2. grown[k + i].seq = floor + (k + i) - 1
    BY <1>3, <2>1
  <2> QED
    BY <1>6, <1>0, <2>1, <2>2
<1>9. Len(buf') <= MaxMsgs
  <2>1. k = Len(grown) \/ Len(grown) - k <= MaxMsgs
    BY <1>1 DEF Evicts, CapsHold
  <2> QED
    BY <1>1, <1>3, <1>5, <2>1, RingAssumption DEF RingInv
<1>10. floor' \in Nat /\ next' \in Nat /\ floor <= floor' /\ floor' <= next'
  BY <1>1, <1>2, <1>3, <1>4, <1>6 DEF RingInv
<1>11. floor' <= next + 1 /\ next + 1 - floor' <= MaxMsgs
  <2>1. Len(buf') = next + 1 - floor'
    BY <1>0, <1>2, <1>7, <1>10
  <2> QED
    BY <1>0, <1>2, <1>9, <1>10, <2>1
<1>12. RingInv'
  BY <1>5, <1>7, <1>8, <1>9, <1>10 DEF RingInv, Contiguous
<1> QED
  BY <1>2, <1>10, <1>11, <1>12

\* Whatever the payload sizes, the deque never has a gap, a stale floor or more
\* than max_msgs frames.
THEOREM RingAlwaysContiguous == RingSpec => []Contiguous
<1>1. RingInit => RingInv
  BY RingAssumption DEF RingInit, RingInv, Contiguous, Frame
<1>2. RingInv /\ [RingNext]_ringVars => RingInv'
  <2> SUFFICES ASSUME RingInv, [RingNext]_ringVars PROVE RingInv'
    OBVIOUS
  <2>1. ASSUME NEW size \in FrameSizes, Push(size) PROVE RingInv'
    BY <2>1, PushStep
  <2>2. CASE UNCHANGED ringVars
    BY <2>2 DEF ringVars, RingInv, Contiguous
  <2> QED
    BY <2>1, <2>2 DEF RingNext
<1>3. RingInv => Contiguous
  BY DEF RingInv
<1> QED
  BY <1>1, <1>2, <1>3, PTL DEF RingSpec

\* The ring implements the window: each push is a window push, whichever cap
\* evicted and however much.
THEOREM RingImplementsWindow == RingSpec => ImplementsWindow
<1>1. RingInit => RingInv
  BY RingAssumption DEF RingInit, RingInv, Contiguous, Frame
<1>2. RingInv /\ [RingNext]_ringVars => RingInv'
  <2> SUFFICES ASSUME RingInv, [RingNext]_ringVars PROVE RingInv'
    OBVIOUS
  <2>1. ASSUME NEW size \in FrameSizes, Push(size) PROVE RingInv'
    BY <2>1, PushStep
  <2>2. CASE UNCHANGED ringVars
    BY <2>2 DEF ringVars, RingInv, Contiguous
  <2> QED
    BY <2>1, <2>2 DEF RingNext
<1>3. RingInit => Window!Init
  BY DEF RingInit, Window!Init
<1>4. RingInv /\ [RingNext]_ringVars => [Window!Push]_(Window!windowVars)
  <2> SUFFICES ASSUME RingInv, [RingNext]_ringVars PROVE [Window!Push]_(Window!windowVars)
    OBVIOUS
  <2>1. ASSUME NEW size \in FrameSizes, Push(size) PROVE Window!Push
    <3>1. /\ next' = next + 1
          /\ floor <= floor' /\ floor' <= next + 1 /\ next + 1 - floor' <= MaxMsgs
          /\ floor' \in Nat
      BY <2>1, PushStep DEF RingInv
    <3>2. floor' \in floor .. next + 1
      BY <3>1 DEF RingInv
    <3> QED
      BY <3>1, <3>2 DEF Window!Push
  <2>2. CASE UNCHANGED ringVars
    BY <2>2 DEF ringVars, Window!windowVars
  <2> QED
    BY <2>1, <2>2 DEF RingNext
<1> QED
  BY <1>1, <1>2, <1>3, <1>4, PTL DEF RingSpec, ImplementsWindow, Window!Spec

-----------------------------------------------------------------------------
(* What the two loops over the deque compute.  A function that unfolds as  *)
(* the loop does is the loop's result: by induction over a set of numbers, *)
(* of which Nat being well founded makes all.                              *)

Less == {pair \in Nat \X Nat : pair[1] < pair[2]}

\* Induction, over a set of numbers.
LEMMA EveryNumber == ASSUME NEW S \in SUBSET Nat, 0 \in S, \A n \in S : n + 1 \in S
                     PROVE  S = Nat
<1> SUFFICES ASSUME Nat \ S # {} PROVE FALSE
  OBVIOUS
<1>1. IsWellFoundedOn(Less, Nat)
  BY NatLessThanWellFounded DEF OpToRel, Less
<1>2. PICK x \in Nat \ S : \A y \in Nat \ S : ~(<<y, x>> \in Less)
  BY <1>1, WFMin
<1>3. x # 0 /\ x - 1 \in Nat
  OBVIOUS
<1>4. x - 1 \in S
  <2>1. <<x - 1, x>> \in Less
    BY <1>3 DEF Less
  <2> QED
    BY <1>2, <1>3, <2>1
<1>5. (x - 1) + 1 \in S
  BY <1>4
<1> QED
  BY <1>3, <1>5

\* g sums up the bytes of the frames.
Sums(frames, g) ==
    /\ DOMAIN g = 0 .. Len(frames) /\ g = [n \in 0 .. Len(frames) |-> g[n]]
    /\ g[0] = 0
    /\ \A n \in 1 .. Len(frames) : g[n] = g[n - 1] + frames[n].bytes

LEMMA SumsUnfold ==
    ASSUME NEW frames \in Seq(Frame), NEW g
    PROVE  Sums(frames, g) <=>
               g = [n \in 0 .. Len(frames) |-> IF n = 0 THEN 0 ELSE g[n - 1] + frames[n].bytes]
<1> DEFINE dom == 0 .. Len(frames)
<1>1. Len(frames) \in Nat
  OBVIOUS
<1>2. ASSUME Sums(frames, g)
      PROVE  g = [n \in dom |-> IF n = 0 THEN 0 ELSE g[n - 1] + frames[n].bytes]
  <2>1. \A n \in dom : n = 0 \/ n \in 1 .. Len(frames)
    BY <1>1
  <2> QED
    BY <1>2, <2>1 DEF Sums
<1>3. ASSUME g = [n \in dom |-> IF n = 0 THEN 0 ELSE g[n - 1] + frames[n].bytes]
      PROVE  Sums(frames, g)
  <2>1. DOMAIN g = dom /\ g = [n \in dom |-> g[n]]
    BY <1>3
  <2>2. \A n \in dom : g[n] = IF n = 0 THEN 0 ELSE g[n - 1] + frames[n].bytes
    BY <1>3
  <2>3. 0 \in dom /\ \A n \in 1 .. Len(frames) : n \in dom /\ n # 0
    BY <1>1
  <2> QED
    BY <2>1, <2>2, <2>3 DEF Sums
<1> QED
  BY <1>2, <1>3

LEMMA SumIs == ASSUME NEW frames \in Seq(Frame), NEW g, Sums(frames, g)
               PROVE  BytesOf(frames) = g[Len(frames)]
<1> DEFINE Unfolds(h) ==
               h = [n \in 0 .. Len(frames) |-> IF n = 0 THEN 0 ELSE h[n - 1] + frames[n].bytes]
           c == CHOOSE h : Unfolds(h)
           S == {m \in Nat : m <= Len(frames) => c[m] = g[m]}
<1>1. BytesOf(frames) = c[Len(frames)]
  BY DEF BytesOf
<1>2. Unfolds(c)
  BY SumsUnfold
<1> HIDE DEF c
<1>3. Sums(frames, c)
  BY <1>2, SumsUnfold
<1>4. 0 \in S
  BY <1>3 DEF Sums
<1>5. ASSUME NEW m \in S PROVE m + 1 \in S
  <2> SUFFICES ASSUME m + 1 <= Len(frames) PROVE c[m + 1] = g[m + 1]
    OBVIOUS
  <2>1. m + 1 \in 1 .. Len(frames) /\ (m + 1) - 1 = m /\ c[m] = g[m]
    OBVIOUS
  <2>2. c[m + 1] = c[(m + 1) - 1] + frames[m + 1].bytes
    BY <1>3, <2>1 DEF Sums
  <2>3. g[m + 1] = g[(m + 1) - 1] + frames[m + 1].bytes
    BY <2>1 DEF Sums
  <2> QED
    BY <2>1, <2>2, <2>3
<1>6. S = Nat
  BY <1>4, <1>5, EveryNumber
<1> QED
  BY <1>1, <1>6

LEMMA SumExists == ASSUME NEW frames \in Seq(Frame)
                   PROVE  \E g \in [0 .. Len(frames) -> Nat] : Sums(frames, g)
<1> DEFINE SumTo(m, g) == g[0] = 0 /\ \A n \in 1 .. m : g[n] = g[n - 1] + frames[n].bytes
           S == {m \in Nat : m <= Len(frames) => \E g \in [0 .. m -> Nat] : SumTo(m, g)}
<1>1. 0 \in S
  <2>1. [n \in 0 .. 0 |-> 0] \in [0 .. 0 -> Nat] /\ SumTo(0, [n \in 0 .. 0 |-> 0])
    OBVIOUS
  <2> QED
    BY <2>1
<1>2. ASSUME NEW m \in Nat, m <= Len(frames) => \E g \in [0 .. m -> Nat] : SumTo(m, g),
             m + 1 <= Len(frames)
      PROVE  \E g \in [0 .. m + 1 -> Nat] : SumTo(m + 1, g)
  <2> HIDE DEF SumTo
  <2>0. m <= Len(frames)
    BY <1>2
  <2>1. PICK g \in [0 .. m -> Nat] : SumTo(m, g)
    BY <1>2, <2>0
  <2> USE DEF SumTo
  <2>2. frames[m + 1].bytes \in Nat
    <3>1. frames[m + 1] \in Frame
      BY <1>2
    <3> QED
      BY <3>1 DEF Frame
  <2> DEFINE h == [n \in 0 .. m + 1 |-> IF n = m + 1 THEN g[m] + frames[m + 1].bytes ELSE g[n]]
  <2>3. h \in [0 .. m + 1 -> Nat]
    BY <2>2
  <2>4. \A n \in 0 .. m : h[n] = g[n]
    OBVIOUS
  <2>5. h[m + 1] = g[m] + frames[m + 1].bytes
    OBVIOUS
  <2> HIDE DEF h
  <2>6. h[0] = 0
    BY <2>1, <2>4
  <2>7. ASSUME NEW n \in 1 .. m + 1 PROVE h[n] = h[n - 1] + frames[n].bytes
    <3>1. CASE n = m + 1
      BY <2>4, <2>5, <3>1
    <3>2. CASE n # m + 1
      <4>1. n \in 1 .. m /\ n \in 0 .. m /\ n - 1 \in 0 .. m
        BY <3>2
      <4> QED
        BY <2>1, <2>4, <4>1
    <3> QED
      BY <3>1, <3>2
  <2>8. SumTo(m + 1, h)
    BY <2>6, <2>7
  <2> HIDE DEF SumTo
  <2> QED
    BY <2>3, <2>8
<1> HIDE DEF SumTo
<1>3. \A m \in S : m + 1 \in S
  <2> SUFFICES ASSUME NEW m \in S PROVE m + 1 \in S
    OBVIOUS
  <2>1. m \in Nat /\ m + 1 \in Nat /\ (m <= Len(frames) => \E g \in [0 .. m -> Nat] : SumTo(m, g))
    OBVIOUS
  <2>2. m + 1 <= Len(frames) => \E g \in [0 .. m + 1 -> Nat] : SumTo(m + 1, g)
    BY <1>2, <2>1
  <2> QED
    BY <2>1, <2>2
<1>4. S = Nat
  <2> HIDE DEF S
  <2>1. S \in SUBSET Nat
    BY DEF S
  <2> QED
    BY <1>1, <1>3, <2>1, EveryNumber
<1>5. PICK g \in [0 .. Len(frames) -> Nat] : SumTo(Len(frames), g)
  <2>1. Len(frames) \in Nat /\ Len(frames) <= Len(frames)
    OBVIOUS
  <2> QED
    BY <1>4, <2>1
<1>6. Sums(frames, g)
  BY <1>5 DEF Sums, SumTo
<1> QED
  BY <1>6

LEMMA BytesType == ASSUME NEW frames \in Seq(Frame) PROVE BytesOf(frames) \in Nat
<1>1. PICK g \in [0 .. Len(frames) -> Nat] : Sums(frames, g)
  BY SumExists
<1>2. BytesOf(frames) = g[Len(frames)]
  BY <1>1, SumIs
<1> QED
  BY <1>2

LEMMA BytesAppend == ASSUME NEW frames \in Seq(Frame), NEW f \in Frame
                     PROVE  BytesOf(Append(frames, f)) = BytesOf(frames) + f.bytes
<1>1. PICK g \in [0 .. Len(frames) -> Nat] : Sums(frames, g)
  BY SumExists
<1> DEFINE len == Len(frames)
           all == Append(frames, f)
           h == [n \in 0 .. len + 1 |-> IF n = len + 1 THEN g[len] + f.bytes ELSE g[n]]
<1>2. /\ all \in Seq(Frame) /\ Len(all) = len + 1 /\ len \in Nat
      /\ \A n \in 1 .. len : all[n] = frames[n]
      /\ all[len + 1] = f
  OBVIOUS
<1>3. /\ DOMAIN h = 0 .. len + 1 /\ h = [n \in 0 .. len + 1 |-> h[n]]
      /\ \A n \in 0 .. len : h[n] = g[n]
      /\ h[len + 1] = g[len] + f.bytes
  BY <1>2
<1> HIDE DEF h, all
<1>4. ASSUME NEW n \in 1 .. len + 1 PROVE h[n] = h[n - 1] + all[n].bytes
  <2>1. CASE n = len + 1
    BY <1>2, <1>3, <2>1
  <2>2. CASE n # len + 1
    <3>1. n \in 1 .. len /\ n \in 0 .. len /\ n - 1 \in 0 .. len
      BY <1>2, <2>2
    <3> QED
      BY <1>1, <1>2, <1>3, <3>1 DEF Sums
  <2> QED
    BY <2>1, <2>2
<1>5. Sums(all, h)
  BY <1>1, <1>2, <1>3, <1>4 DEF Sums
<1>6. BytesOf(all) = h[len + 1] /\ BytesOf(frames) = g[len]
  BY <1>1, <1>2, <1>5, SumIs
<1> QED
  BY <1>3, <1>6 DEF all

\* The bytes of the frames are those of the first k and those of the rest.
LEMMA BytesSplit ==
    ASSUME NEW frames \in Seq(Frame), NEW k \in 0 .. Len(frames)
    PROVE  BytesOf(frames) = BytesOf(SubSeq(frames, 1, k))
                                 + BytesOf(SubSeq(frames, k + 1, Len(frames)))
<1>1. PICK g \in [0 .. Len(frames) -> Nat] : Sums(frames, g)
  BY SumExists
<1> DEFINE len == Len(frames)
           first == SubSeq(frames, 1, k)
           rest == SubSeq(frames, k + 1, len)
           h == [n \in 0 .. k |-> g[n]]
           i == [n \in 0 .. len - k |-> g[k + n] - g[k]]
<1>2. len \in Nat /\ k \in Nat /\ k <= len
  OBVIOUS
<1>3. /\ first \in Seq(Frame) /\ Len(first) = k
      /\ \A n \in 1 .. k : first[n] = frames[n]
  BY <1>2
<1>4. /\ rest \in Seq(Frame) /\ Len(rest) = len - k
      /\ \A n \in 1 .. len - k : rest[n] = frames[k + n]
  BY <1>2
<1>5. /\ DOMAIN h = 0 .. k /\ h = [n \in 0 .. k |-> h[n]]
      /\ \A n \in 0 .. k : h[n] = g[n]
      /\ DOMAIN i = 0 .. len - k /\ i = [n \in 0 .. len - k |-> i[n]]
      /\ \A n \in 0 .. len - k : i[n] = g[k + n] - g[k]
  OBVIOUS
<1> HIDE DEF first, rest, h, i
<1>6. Sums(first, h)
  <2>1. ASSUME NEW n \in 1 .. k PROVE h[n] = h[n - 1] + first[n].bytes
    <3>1. n \in 1 .. len /\ n \in 0 .. k /\ n - 1 \in 0 .. k
      BY <1>2
    <3> QED
      BY <1>1, <1>3, <1>5, <3>1 DEF Sums
  <2>2. h[0] = 0
    <3>1. 0 \in 0 .. k
      BY <1>2
    <3> QED
      BY <1>1, <1>5, <3>1 DEF Sums
  <2> QED
    BY <1>3, <1>5, <2>1, <2>2 DEF Sums
<1>7. Sums(rest, i)
  <2>1. ASSUME NEW n \in 1 .. len - k PROVE i[n] = i[n - 1] + rest[n].bytes
    <3>1. k + n \in 1 .. len /\ n \in 0 .. len - k /\ n - 1 \in 0 .. len - k
      BY <1>2
    <3>2. g[k + n] = g[k + n - 1] + frames[k + n].bytes
      <4> DEFINE m == k + n
      <4>1. m \in 1 .. len
        BY <3>1
      <4> HIDE DEF m
      <4>2. g[m] = g[m - 1] + frames[m].bytes
        BY <1>1, <4>1 DEF Sums
      <4> QED
        BY <4>2 DEF m
    <3>3. i[n] = g[k + n] - g[k] /\ i[n - 1] = g[k + (n - 1)] - g[k]
      BY <1>5, <3>1
    <3>4. k + (n - 1) = k + n - 1
      BY <1>2
    <3>5. g[k] \in Nat /\ g[k + n - 1] \in Nat /\ frames[k + n].bytes \in Nat
      <4>1. k \in 0 .. len /\ k + n - 1 \in 0 .. len /\ frames[k + n] \in Frame
        BY <1>2, <3>1
      <4> QED
        BY <1>1, <4>1 DEF Frame
    <3> QED
      BY <1>4, <3>2, <3>3, <3>4, <3>5
  <2>2. i[0] = 0
    <3>1. 0 \in 0 .. len - k /\ k \in 0 .. len /\ k + 0 = k
      BY <1>2
    <3>2. i[0] = g[k + 0] - g[k] /\ g[k] \in Nat
      BY <1>1, <1>5, <3>1
    <3> QED
      BY <3>1, <3>2
  <2> QED
    BY <1>4, <1>5, <2>1, <2>2 DEF Sums
<1>8. BytesOf(frames) = g[len] /\ BytesOf(first) = h[k] /\ BytesOf(rest) = i[len - k]
  BY <1>1, <1>3, <1>4, <1>6, <1>7, SumIs
<1>9. /\ h[k] = g[k] /\ i[len - k] = g[len] - g[k]
      /\ g[k] \in Nat /\ g[len] \in Nat
  <2>1. k \in 0 .. k /\ len - k \in 0 .. len - k /\ k + (len - k) = len
        /\ k \in 0 .. len /\ len \in 0 .. len
    BY <1>2
  <2> QED
    BY <1>1, <1>5, <2>1
<1> QED
  BY <1>8, <1>9 DEF first, rest

\* k is what the filter has kept of the frames, up to each of them.
Keeps(frames, lastSeen, k) ==
    k = [n \in 0 .. Len(frames) |->
            IF n = 0 THEN <<>>
            ELSE IF frames[n].seq > lastSeen THEN Append(k[n - 1], frames[n])
            ELSE k[n - 1]]

LEMMA SameFrames ==
    ASSUME NEW a \in Seq(Frame), NEW b \in Seq(Frame), Len(a) = Len(b),
           \A i \in 1 .. Len(a) : a[i] = b[i]
    PROVE  a = b
OBVIOUS

\* Of frames numbered one by one, those past the cursor are the last ones.
LEMMA NewerIsTail ==
    ASSUME NEW frames \in Seq(Frame), NEW first \in Nat, NEW lastSeen \in Nat,
           \A i \in 1 .. Len(frames) : frames[i].seq = first + i - 1,
           first <= lastSeen + 1, lastSeen + 1 < first + Len(frames)
    PROVE  Newer(frames, lastSeen) = SubSeq(frames, lastSeen + 2 - first, Len(frames))
<1> DEFINE len == Len(frames)
           d == lastSeen + 1 - first
           g == [n \in 0 .. len |-> SubSeq(frames, d + 1, n)]
           c == CHOOSE k : Keeps(frames, lastSeen, k)
           S == {m \in Nat : m <= len => c[m] = g[m]}
<1>1. len \in Nat /\ d \in Nat /\ d < len /\ d + 1 = lastSeen + 2 - first
  OBVIOUS
<1>2. g[0] = <<>>
  BY <1>1
<1>3. ASSUME NEW n \in 1 .. len
      PROVE  g[n] = IF frames[n].seq > lastSeen THEN Append(g[n - 1], frames[n]) ELSE g[n - 1]
  <2>1. frames[n].seq > lastSeen <=> n >= d + 1
    <3>1. frames[n].seq = first + n - 1 /\ n \in Nat
      BY <1>1
    <3> QED
      BY <3>1
  <2>2. g[n] = SubSeq(frames, d + 1, n) /\ g[n - 1] = SubSeq(frames, d + 1, n - 1)
    BY <1>1
  <2>3. CASE n >= d + 1
    <3> DEFINE long == SubSeq(frames, d + 1, n)
               short == SubSeq(frames, d + 1, n - 1)
    <3>1. /\ long \in Seq(Frame) /\ Len(long) = n - d
          /\ \A i \in 1 .. n - d : long[i] = frames[d + i]
      BY <1>1, <2>3
    <3>2. /\ short \in Seq(Frame) /\ Len(short) = n - 1 - d
          /\ \A i \in 1 .. n - 1 - d : short[i] = frames[d + i]
      BY <1>1, <2>3
    <3> HIDE DEF long, short
    <3>3. frames[n] \in Frame /\ d + (n - d) = n /\ n - d \in Nat
      BY <1>1, <2>3
    <3>4. /\ Append(short, frames[n]) \in Seq(Frame)
          /\ Len(Append(short, frames[n])) = n - d
          /\ \A i \in 1 .. n - 1 - d : Append(short, frames[n])[i] = frames[d + i]
          /\ Append(short, frames[n])[n - d] = frames[n]
      BY <3>2, <3>3
    <3>5. \A i \in 1 .. n - d : i \in 1 .. n - 1 - d \/ i = n - d
      BY <3>3
    <3>6. \A i \in 1 .. n - d : Append(short, frames[n])[i] = long[i]
      BY <3>1, <3>3, <3>4, <3>5
    <3>7. long = Append(short, frames[n])
      <4> DEFINE grown == Append(short, frames[n])
      <4>1. /\ grown \in Seq(Frame) /\ Len(grown) = Len(long)
            /\ \A i \in 1 .. Len(long) : long[i] = grown[i]
        BY <3>1, <3>4, <3>6
      <4> HIDE DEF grown
      <4>2. long = grown
        BY <3>1, <4>1, SameFrames
      <4> QED
        BY <4>2 DEF grown
    <3> QED
      BY <2>1, <2>2, <2>3, <3>7 DEF long, short
  <2>4. CASE ~(n >= d + 1)
    <3>1. SubSeq(frames, d + 1, n) = <<>> /\ SubSeq(frames, d + 1, n - 1) = <<>>
      BY <1>1, <2>4
    <3> QED
      BY <2>1, <2>2, <2>4, <3>1
  <2> QED
    BY <2>3, <2>4
<1>4. Newer(frames, lastSeen) = c[len]
  BY DEF Newer, Keeps
<1>5. DOMAIN g = 0 .. len /\ g = [n \in 0 .. len |-> g[n]]
  OBVIOUS
<1>6. g[len] = SubSeq(frames, lastSeen + 2 - first, len)
  <2>1. len \in 0 .. len
    BY <1>1
  <2>2. g[len] = SubSeq(frames, d + 1, len)
    BY <2>1
  <2> QED
    BY <1>1, <2>2
<1> HIDE DEF g
<1>7. Keeps(frames, lastSeen, g)
  <2>1. \A n \in 0 .. len : n = 0 \/ n \in 1 .. len
    BY <1>1
  <2> QED
    BY <1>2, <1>3, <1>5, <2>1 DEF Keeps
<1>8. Keeps(frames, lastSeen, c)
  BY <1>7
<1> HIDE DEF c
<1>9. /\ c[0] = <<>>
      /\ \A n \in 1 .. len :
            c[n] = IF frames[n].seq > lastSeen THEN Append(c[n - 1], frames[n]) ELSE c[n - 1]
  <2>1. \A n \in 1 .. len : n \in 0 .. len /\ n # 0
    BY <1>1
  <2>2. 0 \in 0 .. len
    BY <1>1
  <2> QED
    BY <1>8, <2>1, <2>2 DEF Keeps
<1>10. 0 \in S
  BY <1>2, <1>9
<1>11. ASSUME NEW m \in S PROVE m + 1 \in S
  <2> SUFFICES ASSUME m + 1 <= len PROVE c[m + 1] = g[m + 1]
    OBVIOUS
  <2>1. m + 1 \in 1 .. len /\ (m + 1) - 1 = m /\ c[m] = g[m]
    BY <1>1
  <2> QED
    BY <1>3, <1>9, <2>1
<1>12. S = Nat
  <2> HIDE DEF S
  <2>1. S \in SUBSET Nat
    BY DEF S
  <2> QED
    BY <1>10, <1>11, <2>1, EveryNumber
<1> QED
  BY <1>1, <1>4, <1>6, <1>12

-----------------------------------------------------------------------------
\* A push keeps the byte counter on the bytes of what is left.
LEMMA PushBytes == ASSUME RingInv, BytesExact, NEW size \in FrameSizes, Push(size)
                   PROVE  BytesExact'
<1> DEFINE f == [seq |-> next, bytes |-> size]
           grown == Append(buf, f)
<1>1. PICK k \in 0 .. Len(grown) :
         /\ Evicts(grown, k)
         /\ buf' = SubSeq(grown, k + 1, Len(grown))
         /\ bytes' = SaturatingSub(bytes + size, BytesOf(SubSeq(grown, 1, k)))
  BY DEF Push
<1>2. f \in Frame /\ f.bytes = size /\ buf \in Seq(Frame)
  BY RingAssumption DEF RingInv, Frame
<1>3. grown \in Seq(Frame) /\ BytesOf(grown) = bytes + size
  BY <1>2, BytesAppend DEF BytesExact
<1> HIDE DEF grown, f
<1> DEFINE first == SubSeq(grown, 1, k)
<1>4. first \in Seq(Frame) /\ buf' \in Seq(Frame)
  BY <1>1, <1>3
<1>5. bytes + size = BytesOf(first) + BytesOf(buf')
  BY <1>1, <1>3, BytesSplit
<1>6. BytesOf(first) \in Nat /\ BytesOf(buf') \in Nat
  BY <1>4, BytesType
<1>7. bytes' = BytesOf(buf')
  BY <1>1, <1>5, <1>6 DEF SaturatingSub
<1>8. BytesOf(buf') <= MaxBytes
  <2>1. CASE k = Len(grown)
    <3>1. buf' = <<>>
      BY <1>1, <1>3, <2>1
    <3>2. Sums(<<>>, [n \in 0 .. 0 |-> 0]) /\ Len(<<>>) = 0
      BY DEF Sums
    <3>3. BytesOf(<<>>) = 0
      BY <3>2, SumIs
    <3> QED
      BY <3>1, <3>3, RingAssumption
  <2>2. CASE k # Len(grown)
    BY <1>1, <2>2 DEF Evicts, CapsHold
  <2> QED
    BY <2>1, <2>2
<1> QED
  BY <1>7, <1>8 DEF BytesExact

LEMMA RingInvInit == RingInit => RingInv /\ BytesExact
<1> SUFFICES ASSUME RingInit PROVE RingInv /\ BytesExact
  OBVIOUS
<1>1. RingInv
  BY RingAssumption DEF RingInit, RingInv, Contiguous, Frame
<1>2. Sums(<<>>, [n \in 0 .. 0 |-> 0]) /\ Len(<<>>) = 0 /\ <<>> \in Seq(Frame)
  BY DEF Sums
<1>3. BytesOf(<<>>) = 0
  BY <1>2, SumIs
<1> QED
  BY <1>1, <1>3, RingAssumption DEF RingInit, BytesExact

LEMMA RingStep == RingInv /\ BytesExact /\ [RingNext]_ringVars => RingInv' /\ BytesExact'
<1> SUFFICES ASSUME RingInv, BytesExact, [RingNext]_ringVars PROVE RingInv' /\ BytesExact'
  OBVIOUS
<1>1. ASSUME NEW size \in FrameSizes, Push(size) PROVE RingInv' /\ BytesExact'
  BY <1>1, PushStep, PushBytes
<1>2. CASE UNCHANGED ringVars
  BY <1>2 DEF ringVars, RingInv, Contiguous, BytesExact
<1> QED
  BY <1>1, <1>2 DEF RingNext

\* The byte counter is the bytes of the resident frames, whatever sizes were pushed and
\* evicted, and never over the cap.
THEOREM BytesAlwaysExact == RingSpec => []BytesExact
BY RingInvInit, RingStep, PTL DEF RingSpec

\* A replay is every frame past the cursor, in order, or Drift if one of them is gone:
\* for every cursor, every capacity and every history of pushes.
THEOREM ReplayAlwaysExact == RingSpec => []ReplayExact
<1>1. RingInv => ReplayExact
  <2> SUFFICES ASSUME RingInv, NEW lastSeen \in 0 .. next + 1
               PROVE  IF Window!Replayable(lastSeen)
                      THEN LET replay == ReplayFrom(lastSeen)
                           IN  /\ Len(replay) = IF lastSeen >= next - 1 THEN 0
                                                ELSE next - 1 - lastSeen
                               /\ \A i \in 1 .. Len(replay) : replay[i].seq = lastSeen + i
                      ELSE ReplayFrom(lastSeen) = Drift
    BY DEF ReplayExact
  <2>1. /\ floor \in Nat /\ next \in Nat /\ lastSeen \in Nat /\ buf \in Seq(Frame)
        /\ Len(buf) = next - floor /\ \A i \in 1 .. Len(buf) : buf[i].seq = floor + i - 1
    BY DEF RingInv, Contiguous
  <2>2. CASE lastSeen + 1 >= next
    <3>1. ReplayFrom(lastSeen) = <<>> /\ lastSeen >= next - 1
      BY <2>1, <2>2 DEF ReplayFrom
    <3> QED
      BY <2>2, <3>1 DEF Window!Replayable, Window!CaughtUp
  <2>3. CASE lastSeen + 1 < next /\ lastSeen + 1 < floor
    <3>1. ReplayFrom(lastSeen) = Drift
      BY <2>1, <2>3 DEF ReplayFrom
    <3> QED
      BY <2>1, <2>3, <3>1 DEF Window!Replayable, Window!CaughtUp
  <2>4. CASE lastSeen + 1 < next /\ floor <= lastSeen + 1
    <3>1. ReplayFrom(lastSeen) = Newer(buf, lastSeen)
      BY <2>1, <2>4 DEF ReplayFrom
    <3> DEFINE from == lastSeen + 2 - floor
               replay == SubSeq(buf, from, Len(buf))
    <3>2. floor <= lastSeen + 1 /\ lastSeen + 1 < floor + Len(buf) /\ Len(buf) \in Nat
      BY <2>1, <2>4
    <3>3. Newer(buf, lastSeen) = replay
      BY <2>1, <3>2, NewerIsTail
    <3>4. from \in 1 .. Len(buf) /\ Len(buf) - from + 1 = next - 1 - lastSeen
      BY <2>1, <2>4, <3>2
    <3> HIDE DEF from
    <3>5. /\ Len(replay) = Len(buf) - from + 1
          /\ \A i \in 1 .. Len(replay) : replay[i] = buf[from + i - 1]
      <4> DEFINE len == Len(buf)
      <4>1. from \in 1 .. len /\ len \in Nat
        BY <3>2, <3>4
      <4> HIDE DEF len
      <4>2. /\ Len(SubSeq(buf, from, len)) = len - from + 1
            /\ \A i \in 1 .. len - from + 1 : SubSeq(buf, from, len)[i] = buf[from + i - 1]
        BY <4>1
      <4> QED
        BY <4>2 DEF len
    <3> HIDE DEF replay
    <3>6. ASSUME NEW i \in 1 .. Len(replay) PROVE replay[i].seq = lastSeen + i
      <4>1. from + i - 1 \in 1 .. Len(buf) /\ replay[i] = buf[from + i - 1]
        BY <3>2, <3>4, <3>5
      <4>2. replay[i].seq = floor + (from + i - 1) - 1
        BY <2>1, <4>1
      <4>3. floor + (from + i - 1) - 1 = lastSeen + i
        <5>1. i \in Nat
          BY <3>2, <3>4, <3>5
        <5> QED
          BY <2>1, <5>1 DEF from
      <4> QED
        BY <4>2, <4>3
    <3>7. Window!Replayable(lastSeen) /\ ~(lastSeen >= next - 1)
      BY <2>1, <2>4 DEF Window!Replayable, Window!CaughtUp
    <3> QED
      BY <3>1, <3>3, <3>4, <3>5, <3>6, <3>7
  <2> QED
    BY <2>1, <2>2, <2>3, <2>4
<1> QED
  BY <1>1, RingInvInit, RingStep, PTL DEF RingSpec

-----------------------------------------------------------------------------
(* The registry.                                                           *)

\* A reaper that is cancelling has a session in hand, and a stream that is
\* past resolving has one too.
InHand ==
    /\ reaper = "cancelling" => expired \in Sessions
    /\ \A c \in Streams : stream[c] # "new" => held[c] \in Sessions

RegistryInv == RegistryTypeOK /\ InHand /\ NoneReplaced

LEMMA RegistryInvInit == RegistryInit => RegistryInv
BY RegistryAssumption DEF RegistryInit, RegistryInv, RegistryTypeOK, InHand, NoneReplaced

\* Only Resolve and DropSessions touch the map: the first fills a slot that was
\* empty, so no minted session loses it; the second records what it removes.
LEMMA RegistryStep == RegistryInv /\ [RegistryNext]_registryVars => RegistryInv'
<1> SUFFICES ASSUME RegistryInv, [RegistryNext]_registryVars PROVE RegistryInv'
  OBVIOUS
<1> USE RegistryAssumption DEF RegistryInv
<1>1. ASSUME NEW c \in Streams, NEW k \in Keys, Resolve(c, k) PROVE RegistryInv'
  <2>1. CASE registry[k] # NoSession
    BY <1>1, <2>1 DEF Resolve, RegistryTypeOK, InHand, NoneReplaced, reapVars
  <2>2. CASE registry[k] = NoSession
    <3>1. PICK s \in Sessions \ Minted :
             /\ registry' = [registry EXCEPT ![k] = s]
             /\ minted' = minted \cup {<<s, k>>}
             /\ held' = [held EXCEPT ![c] = s]
      BY <1>1, <2>2 DEF Resolve
    <3>2. RegistryTypeOK' /\ InHand'
      BY <1>1, <3>1 DEF Resolve, RegistryTypeOK, InHand, reapVars
    <3>3. NoneReplaced'
      <4> SUFFICES ASSUME NEW m \in minted', m[1] \notin dropped'
                   PROVE  registry'[m[2]] = m[1]
        BY DEF NoneReplaced
      <4>1. dropped' = dropped
        BY <1>1 DEF Resolve, reapVars
      <4>2. CASE m = <<s, k>>
        BY <3>1, <4>2 DEF RegistryTypeOK
      <4>3. CASE m \in minted
        <5>1. registry[m[2]] = m[1] /\ m[1] \in Sessions
          BY <4>1, <4>3 DEF NoneReplaced, RegistryTypeOK
        <5>2. m[2] # k
          BY <2>2, <5>1
        <5> QED
          BY <3>1, <5>1, <5>2 DEF RegistryTypeOK
      <4> QED
        BY <3>1, <4>2, <4>3
    <3> QED
      BY <3>2, <3>3
  <2> QED
    BY <2>1, <2>2
<1>2. ASSUME NEW c \in Streams, GiveUp(c) \/ Install(c) \/ Drop(c) PROVE RegistryInv'
  BY <1>2 DEF GiveUp, Install, Drop, RegistryTypeOK, InHand, NoneReplaced, sessionVars, reapVars
<1>3. ASSUME NEW s \in Sessions, Prompt(s) \/ Answer(s) \/ Ages(s) PROVE RegistryInv'
  <2>1. CASE Prompt(s)
    BY <2>1 DEF Prompt, RegistryTypeOK, InHand, NoneReplaced, streamVars, reapVars
  <2>2. CASE Answer(s)
    BY <2>2 DEF Answer, RegistryTypeOK, InHand, NoneReplaced, streamVars, reapVars
  <2>3. CASE Ages(s)
    BY <2>3 DEF Ages, RegistryTypeOK, InHand, NoneReplaced, streamVars, reapVars
  <2> QED
    BY <1>3, <2>1, <2>2, <2>3
<1>4. CASE Wake
  BY <1>4 DEF Wake, Registered, RegistryTypeOK, InHand, NoneReplaced, sessionVars, streamVars
<1>5. ASSUME NEW s \in Sessions, Check(s) PROVE RegistryInv'
  BY <1>5 DEF Check, RegistryTypeOK, InHand, NoneReplaced, sessionVars, streamVars
<1>6. CASE Cancel
  BY <1>6 DEF Cancel, RegistryTypeOK, InHand, NoneReplaced, streamVars
<1>7. CASE Collect
  BY <1>7 DEF Collect, RegistryTypeOK, InHand, NoneReplaced, sessionVars, streamVars
<1>8. CASE DropSessions
  <2>1. RegistryTypeOK' /\ InHand'
    BY <1>8 DEF DropSessions, RegistryTypeOK, InHand, sessionVars, streamVars
  <2>2. NoneReplaced'
    <3> SUFFICES ASSUME NEW m \in minted, m[1] \notin dropped'
                 PROVE  registry'[m[2]] = m[1]
      BY <1>8 DEF NoneReplaced, DropSessions, sessionVars
    <3>1. m[1] \in Sessions /\ m[2] \in Keys /\ registry[m[2]] = m[1]
      BY <1>8 DEF DropSessions, NoneReplaced, RegistryTypeOK
    <3>2. m[2] \notin toDrop
      BY <1>8, <3>1 DEF DropSessions
    <3> QED
      BY <1>8, <3>1, <3>2 DEF DropSessions
  <2> QED
    BY <2>1, <2>2
<1>9. CASE UNCHANGED registryVars
  BY <1>9 DEF registryVars, RegistryTypeOK, InHand, NoneReplaced, sessionVars, streamVars, reapVars
<1> QED
  BY <1>1, <1>2, <1>3, <1>4, <1>5, <1>6, <1>7, <1>8, <1>9 DEF RegistryNext, Reap

\* The registry keeps its types, for any number of clients and keys.
THEOREM RegistryTypeCorrect == RegistrySpec => []RegistryTypeOK
<1>1. RegistryInv => RegistryTypeOK
  BY DEF RegistryInv
<1> QED
  BY <1>1, RegistryInvInit, RegistryStep, PTL DEF RegistrySpec

\* However many clients resolve the same key, and whatever the reaper does in
\* between, a minted session stays the one its key resolves to until dropped.
THEOREM NoSessionReplaced == RegistrySpec => []NoneReplaced
<1>1. RegistryInv => NoneReplaced
  BY DEF RegistryInv
<1> QED
  BY <1>1, RegistryInvInit, RegistryStep, PTL DEF RegistrySpec

-----------------------------------------------------------------------------
(* The pool.                                                               *)

\* The table, as any holder of the lock finds it.
TableInv ==
    /\ process \in [Threads -> Processes \cup {NoProcess}]
    /\ home \in [Threads -> Cwds \cup {NoCwd}]
    /\ \A t \in Tracked : home[t] \in Cwds
    /\ active \subseteq Tracked
    /\ older \subseteq Tracked \X Tracked
    /\ byCwd \in [Cwds -> SUBSET Threads]
    /\ IndexInLockstep

\* The acquirers: what each holds at each point of its way.
AcquireInv ==
    /\ alive \subseteq Processes
    /\ pc \in [Acquirers -> {"idle", "checking", "collecting", "reaping", "shutting",
                             "confirming", "spawning", "tracking", "rejected"}]
    /\ thread \in [Acquirers -> Threads \cup {NoThread}]
    /\ cwd \in [Acquirers -> Cwds \cup {NoCwd}]
    /\ condemned \in [Acquirers -> SUBSET Threads]
    /\ holds \in [Acquirers -> Processes \cup {NoProcess}]
    /\ \A k \in Acquirers :
          /\ pc[k] # "idle" => thread[k] \in Threads /\ cwd[k] \in Cwds
          /\ pc[k] \notin {"shutting", "tracking", "rejected"} => holds[k] = NoProcess
          /\ pc[k] = "tracking" => holds[k] \in Processes

TurnInv ==
    /\ turn \in [Turns -> {"idle", "found", "marked", "running", "ended"}]
    /\ on \in [Turns -> Threads \cup {NoThread}]
    /\ using \in [Turns -> Processes \cup {NoProcess}]
    /\ \A u \in Turns : turn[u] # "idle" => on[u] \in Threads

PoolInv == TableInv /\ AcquireInv /\ TurnInv /\ NoOrphan

-----------------------------------------------------------------------------
(* The operations on the table.                                            *)

LEMMA TouchedIsRecency ==
    ASSUME TableInv, NEW t \in Threads
    PROVE  Touched(t) \subseteq (Tracked \cup {t}) \X (Tracked \cup {t})
BY DEF TableInv, Touched, Without

LEMMA TouchKeepsTable ==
    ASSUME TableInv, NEW t \in Tracked, older' = Touched(t),
           UNCHANGED <<process, home, active, byCwd>>
    PROVE  TableInv'
<1>1. t \in Threads /\ Tracked \cup {t} = Tracked /\ Tracked' = Tracked
  BY DEF Tracked
<1>2. older' \subseteq Tracked' \X Tracked'
  BY <1>1, TouchedIsRecency
<1>3. QED
  BY <1>1, <1>2 DEF TableInv, IndexInLockstep

LEMMA MarkKeepsTable ==
    ASSUME TableInv, NEW t \in Threads, NEW busy \in BOOLEAN, Mark(t, busy)
    PROVE  TableInv' /\ UNCHANGED process /\ Tracked' = Tracked
<1>1. UNCHANGED <<process, home, byCwd>> /\ Tracked' = Tracked
  BY DEF Mark, Tracked
<1>2. active' \subseteq Tracked
  BY DEF Mark, TableInv
<1>3. older' \subseteq Tracked \X Tracked
  <2>1. CASE t \in Tracked
    <3>1. Tracked \cup {t} = Tracked
      BY <2>1
    <3>2. QED
      BY <2>1, <3>1, TouchedIsRecency DEF Mark
  <2>2. CASE t \notin Tracked
    BY <2>2 DEF Mark, TableInv
  <2>3. QED
    BY <2>1, <2>2
<1>4. QED
  BY <1>1, <1>2, <1>3 DEF TableInv, IndexInLockstep

LEMMA InsertKeepsTable ==
    ASSUME TableInv, NEW t \in Threads, NEW c \in Cwds, NEW h \in Processes,
           t \notin Tracked, Insert(t, c, h)
    PROVE  /\ TableInv'
           /\ process' = [process EXCEPT ![t] = h]
           /\ Tracked' = Tracked \cup {t}
<1>1. process' = [process EXCEPT ![t] = h] /\ home' = [home EXCEPT ![t] = c]
  BY DEF Insert
<1>2. Tracked' = Tracked \cup {t}
  BY <1>1, PoolAssumption DEF Tracked, TableInv
<1>3. older' \subseteq Tracked' \X Tracked'
  BY <1>2, TouchedIsRecency DEF Insert
<1>4. active' \subseteq Tracked'
  BY <1>2 DEF Insert, TableInv
<1>5. /\ process' \in [Threads -> Processes \cup {NoProcess}]
      /\ home' \in [Threads -> Cwds \cup {NoCwd}]
      /\ \A u \in Tracked' : home'[u] \in Cwds
      /\ byCwd' \in [Cwds -> SUBSET Threads]
  BY <1>1, <1>2 DEF TableInv, Insert, Tracked
<1>6. IndexInLockstep'
  <2>1. SUFFICES ASSUME NEW d \in Cwds
                 PROVE  byCwd'[d] = {u \in Tracked' : home'[u] = d}
    BY DEF IndexInLockstep
  <2>2. byCwd[d] = {u \in Tracked : home[u] = d}
    BY DEF TableInv, IndexInLockstep
  <2>3. byCwd'[d] = IF d = c THEN byCwd[d] \cup {t} ELSE byCwd[d]
    BY DEF Insert, TableInv
  <2>4. \A u \in Threads : home'[u] = IF u = t THEN c ELSE home[u]
    BY <1>1 DEF TableInv
  <2>5. Tracked \subseteq Threads
    BY DEF Tracked
  <2>6. QED
    BY <1>2, <2>2, <2>3, <2>4, <2>5
<1>7. QED
  BY <1>1, <1>2, <1>3, <1>4, <1>5, <1>6 DEF TableInv

LEMMA RemoveKeepsTable ==
    ASSUME TableInv, NEW t \in Tracked, Remove(t)
    PROVE  /\ TableInv'
           /\ process' = [process EXCEPT ![t] = NoProcess]
           /\ Tracked' = Tracked \ {t}
<1>1. t \in Threads /\ home[t] \in Cwds
  BY DEF Tracked, TableInv
<1>2. process' = [process EXCEPT ![t] = NoProcess] /\ home' = [home EXCEPT ![t] = NoCwd]
  BY DEF Remove
<1>3. Tracked' = Tracked \ {t}
  BY <1>1, <1>2 DEF Tracked, TableInv
<1>4. older' \subseteq Tracked' \X Tracked'
  BY <1>3 DEF Remove, Without, TableInv
<1>5. active' \subseteq Tracked'
  BY <1>3 DEF Remove, TableInv
<1>6. /\ process' \in [Threads -> Processes \cup {NoProcess}]
      /\ home' \in [Threads -> Cwds \cup {NoCwd}]
      /\ \A u \in Tracked' : home'[u] \in Cwds
      /\ byCwd' \in [Cwds -> SUBSET Threads]
  BY <1>1, <1>2, <1>3 DEF TableInv, Remove, Tracked
<1>7. IndexInLockstep'
  <2>1. SUFFICES ASSUME NEW d \in Cwds
                 PROVE  byCwd'[d] = {u \in Tracked' : home'[u] = d}
    BY DEF IndexInLockstep
  <2>2. byCwd[d] = {u \in Tracked : home[u] = d}
    BY DEF TableInv, IndexInLockstep
  <2>3. byCwd'[d] = IF d = home[t] THEN byCwd[d] \ {t} ELSE byCwd[d]
    BY <1>1 DEF Remove, TableInv
  <2>4. \A u \in Threads \ {t} : home'[u] = home[u]
    BY <1>1, <1>2 DEF TableInv
  <2>5. Tracked \subseteq Threads
    BY DEF Tracked
  <2>6. QED
    BY <1>3, <2>2, <2>3, <2>4, <2>5
<1>8. QED
  BY <1>2, <1>3, <1>4, <1>5, <1>6, <1>7 DEF TableInv

-----------------------------------------------------------------------------
(* The steps.                                                              *)

LEMMA PoolInvInit ==
    ASSUME PoolInit
    PROVE  PoolInv
<1>1. \A t \in Threads : process[t] = NoProcess
  BY DEF PoolInit
<1>2. Tracked = {}
  BY <1>1 DEF Tracked
<1>3. IndexInLockstep
  <2>1. \A c \in Cwds : byCwd[c] = {}
    BY DEF PoolInit
  <2>2. QED
    BY <1>2, <2>1 DEF IndexInLockstep
<1>4. TableInv
  BY <1>2, <1>3 DEF PoolInit, TableInv
<1>5. AcquireInv
  <2>1. \A k \in Acquirers : pc[k] = "idle" /\ holds[k] = NoProcess
    BY DEF PoolInit
  <2>2. alive \subseteq Processes /\ condemned \in [Acquirers -> SUBSET Threads]
    BY DEF PoolInit
  <2>3. QED
    BY <2>1, <2>2 DEF PoolInit, AcquireInv
<1>6. TurnInv
  <2>1. \A u \in Turns : turn[u] = "idle"
    BY DEF PoolInit
  <2>2. QED
    BY <2>1 DEF PoolInit, TurnInv
<1>7. QED
  BY <1>4, <1>5, <1>6 DEF PoolInit, PoolInv, NoOrphan

\* A step that leaves the table alone needs to show only the rest.
LEMMA SameTable ==
    ASSUME TableInv, UNCHANGED entryVars
    PROVE  TableInv' /\ Tracked' = Tracked
BY DEF TableInv, entryVars, Tracked, IndexInLockstep

LEMMA AcquireKeepsPool ==
    ASSUME PoolInv, NEW k \in Acquirers,
           \/ \E t \in Threads, c \in Cwds : Acquire(k, t, c)
           \/ AcquireStep(k)
    PROVE  PoolInv'
<1> USE DEF PoolInv
<1>1. ASSUME NEW t \in Threads, NEW c \in Cwds, Acquire(k, t, c) PROVE PoolInv'
  <2>1. TableInv' /\ UNCHANGED <<process, alive, holds, turnVars>>
    BY <1>1, SameTable DEF Acquire, entryVars
  <2>2. AcquireInv'
    BY <1>1 DEF Acquire, AcquireInv
  <2>3. QED
    BY <2>1, <2>2 DEF TurnInv, NoOrphan, turnVars
<1>2. CASE CheckDuplicate(k)
  <2>1. TableInv' /\ UNCHANGED <<process, alive, holds, turnVars>>
    BY <1>2, SameTable DEF CheckDuplicate, entryVars
  <2>2. AcquireInv'
    BY <1>2 DEF CheckDuplicate, GoTo, Return, AcquireInv
  <2>3. QED
    BY <2>1, <2>2 DEF TurnInv, NoOrphan, turnVars
<1>3. CASE CollectExpired(k)
  <2>1. TableInv' /\ UNCHANGED <<process, alive, holds, turnVars>>
    BY <1>3, SameTable DEF CollectExpired, entryVars
  <2>2. PICK E \in Expired : condemned' = [condemned EXCEPT ![k] = E]
    BY <1>3 DEF CollectExpired
  <2>3. E \subseteq Threads
    BY DEF Expired, Idle, Tracked
  <2>4. AcquireInv'
    BY <1>3, <2>2, <2>3 DEF CollectExpired, GoTo, AcquireInv
  <2>5. QED
    BY <2>1, <2>4 DEF TurnInv, NoOrphan, turnVars
<1>4. CASE RemoveNext(k)
  <2>1. PICK t \in condemned[k] :
           /\ condemned' = [condemned EXCEPT ![k] = @ \ {t}]
           /\ IF t \in Tracked
              THEN /\ Remove(t)
                   /\ holds' = [holds EXCEPT ![k] = process[t]]
                   /\ GoTo(k, "shutting")
              ELSE UNCHANGED <<entryVars, holds, pc, thread, cwd>>
    BY <1>4 DEF RemoveNext
  <2>2. UNCHANGED <<alive, turnVars>> /\ pc[k] = "reaping" /\ holds[k] = NoProcess
    BY <1>4 DEF RemoveNext, AcquireInv
  <2>3. CASE t \in Tracked
    <3>1. TableInv' /\ process' = [process EXCEPT ![t] = NoProcess]
      BY <2>1, <2>3, RemoveKeepsTable
    <3>2. t \in Threads /\ process[t] \in Processes
      BY <2>3 DEF Tracked, TableInv
    <3>3. AcquireInv'
      BY <2>1, <2>2, <2>3, <3>2 DEF GoTo, AcquireInv
    <3>4. NoOrphan'
      <4>1. SUFFICES ASSUME NEW h \in alive
                     PROVE  h \in {process'[u] : u \in Threads} \cup {holds'[j] : j \in Acquirers}
        BY <2>2 DEF NoOrphan
      <4>2. holds'[k] = process[t] /\ \A j \in Acquirers \ {k} : holds'[j] = holds[j]
        BY <2>1, <2>3 DEF AcquireInv
      <4>3. \A u \in Threads \ {t} : process'[u] = process[u]
        BY <3>1, <3>2 DEF TableInv
      <4>4. h # NoProcess
        BY PoolAssumption DEF AcquireInv
      <4>5. QED
        BY <2>2, <4>2, <4>3, <4>4 DEF NoOrphan
    <3>5. QED
      BY <2>2, <3>1, <3>3, <3>4 DEF TurnInv, turnVars
  <2>4. CASE t \notin Tracked
    <3>1. TableInv' /\ UNCHANGED <<process, holds, pc, thread, cwd>>
      BY <2>1, <2>4, SameTable DEF entryVars
    <3>2. AcquireInv'
      BY <2>1, <2>2, <3>1 DEF AcquireInv
    <3>3. QED
      BY <2>2, <3>1, <3>2 DEF TurnInv, NoOrphan, turnVars
  <2>5. QED
    BY <2>3, <2>4
<1>5. CASE ShutDown(k)
  <2>1. TableInv' /\ UNCHANGED <<process, turnVars>>
    BY <1>5, SameTable DEF ShutDown, entryVars
  <2>2. AcquireInv'
    BY <1>5 DEF ShutDown, GoTo, Return, AcquireInv
  <2>3. NoOrphan'
    <3>1. \A j \in Acquirers \ {k} : holds'[j] = holds[j]
      BY <1>5 DEF ShutDown, AcquireInv
    <3>2. alive' = alive \ {holds[k]}
      BY <1>5 DEF ShutDown
    <3>3. QED
      BY <2>1, <3>1, <3>2 DEF NoOrphan
  <2>4. QED
    BY <2>1, <2>2, <2>3 DEF TurnInv, turnVars
<1>6. CASE PickVictim(k)
  <2>1. TableInv' /\ UNCHANGED <<process, alive, holds, turnVars>>
    BY <1>6, SameTable DEF PickVictim, entryVars
  <2>2. LruIdle \subseteq Threads
    BY DEF LruIdle, Idle, Tracked
  <2>3. AcquireInv'
    BY <1>6, <2>2 DEF PickVictim, GoTo, AcquireInv
  <2>4. QED
    BY <2>1, <2>3 DEF TurnInv, NoOrphan, turnVars
<1>7. CASE ConfirmRoom(k)
  <2>1. TableInv' /\ UNCHANGED <<process, alive, holds, turnVars>>
    BY <1>7, SameTable DEF ConfirmRoom, entryVars
  <2>2. AcquireInv'
    BY <1>7 DEF ConfirmRoom, GoTo, Return, AcquireInv
  <2>3. QED
    BY <2>1, <2>2 DEF TurnInv, NoOrphan, turnVars
<1>8. CASE Spawn(k)
  <2>1. TableInv' /\ UNCHANGED <<process, turnVars>>
    BY <1>8, SameTable DEF Spawn, entryVars
  <2>2. PICK h \in Processes : holds' = [holds EXCEPT ![k] = h] /\ alive' = alive \cup {h}
    BY <1>8 DEF Spawn
  <2>3. pc[k] = "spawning" /\ GoTo(k, "tracking") /\ UNCHANGED condemned
    BY <1>8 DEF Spawn
  <2>4. AcquireInv'
    BY <2>2, <2>3 DEF GoTo, AcquireInv
  <2>5. NoOrphan'
    <3>1. holds'[k] = h /\ \A j \in Acquirers \ {k} : holds'[j] = holds[j]
      BY <2>2 DEF AcquireInv
    <3>2. holds[k] \notin alive
      BY <2>3, PoolAssumption DEF AcquireInv
    <3>3. QED
      BY <2>1, <2>2, <3>1, <3>2 DEF NoOrphan
  <2>6. QED
    BY <2>1, <2>4, <2>5 DEF TurnInv, turnVars
<1>9. CASE SpawnFails(k)
  <2>1. TableInv' /\ UNCHANGED <<process, alive, holds, turnVars>>
    BY <1>9, SameTable DEF SpawnFails, entryVars
  <2>2. AcquireInv'
    BY <1>9 DEF SpawnFails, Return, AcquireInv
  <2>3. QED
    BY <2>1, <2>2 DEF TurnInv, NoOrphan, turnVars
<1>10. CASE TrackNew(k)
  <2>1. UNCHANGED <<alive, condemned, turnVars>> /\ pc[k] = "tracking"
    BY <1>10 DEF TrackNew
  <2>2. CASE thread[k] \in Tracked
    <3>1. TableInv' /\ UNCHANGED <<process, holds>> /\ GoTo(k, "rejected")
      BY <1>10, <2>2, SameTable DEF TrackNew, entryVars
    <3>2. AcquireInv'
      BY <2>1, <3>1 DEF GoTo, AcquireInv
    <3>3. QED
      BY <2>1, <3>1, <3>2 DEF TurnInv, NoOrphan, turnVars
  <2>3. CASE thread[k] \notin Tracked
    <3>1. /\ Insert(thread[k], cwd[k], holds[k])
          /\ holds' = [holds EXCEPT ![k] = NoProcess]
          /\ Return(k)
      BY <1>10, <2>3 DEF TrackNew
    <3>2. thread[k] \in Threads /\ cwd[k] \in Cwds /\ holds[k] \in Processes
      BY <2>1 DEF AcquireInv
    <3>3. TableInv' /\ process' = [process EXCEPT ![thread[k]] = holds[k]]
      BY <2>3, <3>1, <3>2, InsertKeepsTable
    <3>4. AcquireInv'
      BY <2>1, <3>1 DEF Return, AcquireInv
    <3>5. NoOrphan'
      <4>1. SUFFICES ASSUME NEW h \in alive
                     PROVE  h \in {process'[u] : u \in Threads} \cup {holds'[j] : j \in Acquirers}
        BY <2>1 DEF NoOrphan
      <4>2. \A j \in Acquirers \ {k} : holds'[j] = holds[j]
        BY <3>1 DEF AcquireInv
      <4>3. /\ process'[thread[k]] = holds[k]
            /\ \A u \in Threads \ {thread[k]} : process'[u] = process[u]
        BY <3>2, <3>3 DEF TableInv
      <4>4. process[thread[k]] = NoProcess /\ h # NoProcess
        BY <2>3, <3>2, PoolAssumption DEF Tracked, AcquireInv
      <4>5. QED
        BY <3>2, <4>2, <4>3, <4>4 DEF NoOrphan
    <3>6. QED
      BY <2>1, <3>3, <3>4, <3>5 DEF TurnInv, turnVars
  <2>4. QED
    BY <2>2, <2>3
<1>11. QED
  BY <1>1, <1>2, <1>3, <1>4, <1>5, <1>6, <1>7, <1>8, <1>9, <1>10 DEF AcquireStep

\* What a turn, or a get, does not touch.
LEMMA TurnKeepsPool ==
    ASSUME PoolInv, TableInv', TurnInv', UNCHANGED <<process, alive, acquireVars>>
    PROVE  PoolInv'
BY DEF PoolInv, AcquireInv, NoOrphan, acquireVars

LEMMA TurnStep ==
    ASSUME PoolInv, NEW u \in Turns,
           \/ \E t \in Threads : StartTurn(u, t)
           \/ OverridesFail(u) \/ MarkActive(u) \/ SendPrompt(u)
           \/ Complete(u) \/ MarkIdle(u)
    PROVE  PoolInv'
<1> USE DEF PoolInv
<1>1. ASSUME NEW t \in Threads, StartTurn(u, t) PROVE PoolInv'
  <2>1. TableInv'
    BY <1>1, TouchKeepsTable DEF StartTurn
  <2>2. TurnInv'
    BY <1>1 DEF StartTurn, TurnTo, TurnInv, TableInv
  <2>3. QED
    BY <1>1, <2>1, <2>2, TurnKeepsPool DEF StartTurn
<1>2. CASE OverridesFail(u)
  <2>1. TableInv' /\ UNCHANGED <<process, alive, acquireVars>>
    BY <1>2, SameTable DEF OverridesFail, entryVars
  <2>2. TurnInv'
    BY <1>2 DEF OverridesFail, TurnOver, TurnTo, TurnInv
  <2>3. QED
    BY <2>1, <2>2, TurnKeepsPool
<1>3. CASE MarkActive(u)
  <2>1. on[u] \in Threads
    BY <1>3 DEF MarkActive, TurnInv
  <2>2. TableInv' /\ UNCHANGED process
    BY <1>3, <2>1, MarkKeepsTable DEF MarkActive
  <2>3. TurnInv'
    BY <1>3 DEF MarkActive, TurnTo, TurnInv
  <2>4. QED
    BY <1>3, <2>2, <2>3, TurnKeepsPool DEF MarkActive
<1>4. CASE SendPrompt(u)
  <2>1. TableInv' /\ UNCHANGED <<process, alive, acquireVars>>
    BY <1>4, SameTable DEF SendPrompt, entryVars
  <2>2. TurnInv'
    BY <1>4 DEF SendPrompt, TurnTo, TurnInv
  <2>3. QED
    BY <2>1, <2>2, TurnKeepsPool
<1>5. CASE Complete(u)
  <2>1. TableInv' /\ UNCHANGED <<process, alive, acquireVars>>
    BY <1>5, SameTable DEF Complete, entryVars
  <2>2. TurnInv'
    BY <1>5 DEF Complete, TurnTo, TurnInv
  <2>3. QED
    BY <2>1, <2>2, TurnKeepsPool
<1>6. CASE MarkIdle(u)
  <2>1. on[u] \in Threads
    BY <1>6 DEF MarkIdle, TurnInv
  <2>2. TableInv' /\ UNCHANGED process
    BY <1>6, <2>1, MarkKeepsTable DEF MarkIdle
  <2>3. TurnInv'
    BY <1>6 DEF MarkIdle, TurnOver, TurnTo, TurnInv
  <2>4. QED
    BY <1>6, <2>2, <2>3, TurnKeepsPool DEF MarkIdle
<1>7. QED
  BY <1>1, <1>2, <1>3, <1>4, <1>5, <1>6

LEMMA PoolStep ==
    ASSUME PoolInv, [PoolNext]_poolVars
    PROVE  PoolInv'
<1>1. CASE UNCHANGED poolVars
  <2>1. TableInv'
    BY <1>1, SameTable DEF PoolInv, poolVars
  <2>2. QED
    BY <1>1, <2>1 DEF PoolInv, AcquireInv, TurnInv, NoOrphan, poolVars, acquireVars, turnVars,
       entryVars
<1>2. ASSUME NEW t \in Threads, Get(t) PROVE PoolInv'
  <2>1. t \in Tracked /\ TableInv'
    BY <1>2, TouchKeepsTable DEF Get, PoolInv
  <2>2. TurnInv'
    BY <1>2 DEF Get, PoolInv, TurnInv, turnVars
  <2>3. QED
    BY <1>2, <2>1, <2>2, TurnKeepsPool DEF Get
<1>3. QED
  BY <1>1, <1>2, AcquireKeepsPool, TurnStep DEF PoolNext

-----------------------------------------------------------------------------
(* How far past the cap.                                                   *)

CapInv == IsFiniteSet(Tracked) /\ OverCapBounded

LEMMA SomeAcquirers ==
    ASSUME NEW S \in SUBSET Acquirers
    PROVE  /\ IsFiniteSet(S) /\ Cardinality(S) \in Nat
           /\ Cardinality(Acquirers) \in Nat
           /\ Cardinality(S) <= Cardinality(Acquirers)
BY PoolAssumption, FS_Subset, FS_CardinalityType

\* Fewer entries, fewer spawns: the bound can only get better.
LEMMA FewerIsBelow ==
    ASSUME CapInv, Tracked' \subseteq Tracked, Spawning' \subseteq Spawning
    PROVE  CapInv'
<1>1. IsFiniteSet(Tracked) /\ Cardinality(Tracked) \in Nat
  BY FS_CardinalityType DEF CapInv
<1>2. /\ IsFiniteSet(Tracked') /\ Cardinality(Tracked') \in Nat
      /\ Cardinality(Tracked') <= Cardinality(Tracked)
  BY <1>1, FS_Subset, FS_CardinalityType
<1>3. /\ Cardinality(Spawning') \in Nat /\ Cardinality(Spawning) \in Nat
      /\ Cardinality(Spawning') <= Cardinality(Spawning)
  <2>1. Spawning \in SUBSET Acquirers /\ Spawning' \in SUBSET Acquirers
    BY DEF Spawning
  <2>2. QED
    BY <2>1, SomeAcquirers, FS_Subset
<1>4. Cardinality(Acquirers) \in Nat /\ MaxProcesses \in Nat
  BY PoolAssumption, FS_CardinalityType
<1>5. OverCapBounded'
  BY <1>1, <1>2, <1>3, <1>4 DEF CapInv, OverCapBounded
<1>6. QED
  BY <1>2, <1>5 DEF CapInv

LEMMA CapStep ==
    ASSUME PoolInv, CapInv, [PoolNext]_poolVars
    PROVE  CapInv'
<1> USE DEF PoolInv
<1>1. ASSUME UNCHANGED <<process, pc>> PROVE CapInv'
  <2>1. Tracked' = Tracked /\ Spawning' = Spawning
    BY <1>1 DEF Tracked, Spawning
  <2>2. QED
    BY <2>1, FewerIsBelow
<1>2. ASSUME NEW k \in Acquirers, UNCHANGED process,
             \E to \in {"idle", "checking", "collecting", "reaping", "shutting",
                        "confirming", "rejected"} : pc' = [pc EXCEPT ![k] = to]
      PROVE  CapInv'
  <2>1. Tracked' = Tracked /\ Spawning' \subseteq Spawning
    BY <1>2 DEF Tracked, Spawning, AcquireInv
  <2>2. QED
    BY <2>1, FewerIsBelow
<1>3. ASSUME NEW k \in Acquirers, AcquireStep(k) PROVE CapInv'
  <2>1. CASE \/ CheckDuplicate(k) \/ CollectExpired(k) \/ ShutDown(k)
             \/ PickVictim(k) \/ SpawnFails(k)
    BY <1>1, <1>2, <2>1 DEF CheckDuplicate, CollectExpired, ShutDown, PickVictim, SpawnFails,
       GoTo, Return, entryVars
  <2>2. CASE RemoveNext(k)
    <3>1. PICK t \in condemned[k] :
             IF t \in Tracked
             THEN Remove(t) /\ GoTo(k, "shutting")
             ELSE UNCHANGED <<entryVars, pc>>
      BY <2>2 DEF RemoveNext
    <3>2. CASE t \in Tracked
      <4>1. Tracked' \subseteq Tracked
        BY <3>1, <3>2, RemoveKeepsTable
      <4>2. Spawning' \subseteq Spawning
        BY <3>1, <3>2 DEF GoTo, Spawning, AcquireInv
      <4>3. QED
        BY <4>1, <4>2, FewerIsBelow
    <3>3. CASE t \notin Tracked
      BY <1>1, <3>1, <3>3 DEF entryVars
    <3>4. QED
      BY <3>2, <3>3
  <2>3. CASE ConfirmRoom(k)
    <3>1. CASE Full
      BY <1>2, <2>3, <3>1 DEF ConfirmRoom, Return, entryVars
    <3>2. CASE ~Full
      <4>1. Tracked' = Tracked
        BY <2>3 DEF ConfirmRoom, entryVars, Tracked
      <4>2. Cardinality(Tracked) \in Nat /\ Cardinality(Tracked) < MaxProcesses
        BY <3>2, PoolAssumption, FS_CardinalityType DEF CapInv, Full
      <4>3. Spawning' \in SUBSET Acquirers
        BY DEF Spawning
      <4>4. OverCapBounded'
        BY <4>1, <4>2, <4>3, SomeAcquirers, PoolAssumption DEF OverCapBounded
      <4>5. QED
        BY <4>1, <4>4 DEF CapInv
    <3>3. QED
      BY <3>1, <3>2
  <2>4. CASE Spawn(k)
    <3>1. UNCHANGED process /\ pc[k] = "spawning" /\ pc' = [pc EXCEPT ![k] = "tracking"]
      BY <2>4 DEF Spawn, GoTo, entryVars
    <3>2. Tracked' = Tracked /\ Spawning' = Spawning
      BY <3>1 DEF Tracked, Spawning, AcquireInv
    <3>3. QED
      BY <3>2, FewerIsBelow
  <2>5. CASE TrackNew(k)
    <3>1. CASE thread[k] \in Tracked
      BY <1>2, <2>5, <3>1 DEF TrackNew, GoTo, entryVars
    <3>2. CASE thread[k] \notin Tracked
      <4>1. /\ pc[k] = "tracking" /\ pc' = [pc EXCEPT ![k] = "idle"]
            /\ Insert(thread[k], cwd[k], holds[k])
        BY <2>5, <3>2 DEF TrackNew, Return
      <4>2. thread[k] \in Threads /\ cwd[k] \in Cwds /\ holds[k] \in Processes
        BY <4>1 DEF AcquireInv
      <4>3. Tracked' = Tracked \cup {thread[k]}
        BY <3>2, <4>1, <4>2, InsertKeepsTable
      <4>4. k \in Spawning /\ Spawning' = Spawning \ {k}
        BY <4>1 DEF Spawning, AcquireInv
      <4>5. /\ IsFiniteSet(Tracked') /\ Cardinality(Tracked) \in Nat
            /\ Cardinality(Tracked') = Cardinality(Tracked) + 1
        BY <3>2, <4>3, FS_AddElement, FS_CardinalityType DEF CapInv
      <4>6. /\ Cardinality(Spawning) \in Nat
            /\ Cardinality(Spawning') = Cardinality(Spawning) - 1
        <5>1. Spawning \in SUBSET Acquirers
          BY DEF Spawning
        <5>2. QED
          BY <4>4, <5>1, SomeAcquirers, FS_RemoveElement
      <4>7. Cardinality(Acquirers) \in Nat /\ MaxProcesses \in Nat
        BY PoolAssumption, FS_CardinalityType
      <4>8. QED
        BY <4>5, <4>6, <4>7 DEF CapInv, OverCapBounded
    <3>3. QED
      BY <3>1, <3>2
  <2>6. QED
    BY <1>3, <2>1, <2>2, <2>3, <2>4, <2>5 DEF AcquireStep
<1>4. ASSUME NEW k \in Acquirers, NEW t \in Threads, NEW c \in Cwds, Acquire(k, t, c)
      PROVE  CapInv'
  BY <1>2, <1>4 DEF Acquire, entryVars
<1>5. ASSUME NEW u \in Turns, NEW t \in Threads, StartTurn(u, t) PROVE CapInv'
  BY <1>1, <1>5 DEF StartTurn, acquireVars
<1>6. ASSUME NEW u \in Turns,
             \/ OverridesFail(u) \/ MarkActive(u) \/ SendPrompt(u)
             \/ Complete(u) \/ MarkIdle(u)
      PROVE  CapInv'
  BY <1>1, <1>6 DEF OverridesFail, MarkActive, SendPrompt, Complete, MarkIdle, Mark,
     entryVars, acquireVars
<1>7. ASSUME NEW t \in Threads, Get(t) PROVE CapInv'
  BY <1>1, <1>7 DEF Get, acquireVars
<1>8. CASE UNCHANGED poolVars
  BY <1>1, <1>8 DEF poolVars, entryVars, acquireVars
<1>9. QED
  BY <1>3, <1>4, <1>5, <1>6, <1>7, <1>8 DEF PoolNext

-----------------------------------------------------------------------------
LEMMA PoolAlways == PoolSpec => [](PoolInv /\ CapInv)
<1>1. PoolInit => PoolInv /\ CapInv
  <2>1. SUFFICES ASSUME PoolInit PROVE CapInv
    BY PoolInvInit
  <2>2. Tracked = {} /\ Spawning = {}
    <3>1. /\ \A t \in Threads : process[t] = NoProcess
          /\ \A k \in Acquirers : pc[k] = "idle"
      BY <2>1 DEF PoolInit
    <3>2. QED
      BY <3>1 DEF Tracked, Spawning
  <2>3. IsFiniteSet({}) /\ Cardinality({}) = 0 /\ Cardinality(Acquirers) \in Nat
    BY PoolAssumption, FS_EmptySet, FS_CardinalityType
  <2>4. QED
    BY <2>2, <2>3, PoolAssumption DEF CapInv, OverCapBounded
<1>2. (PoolInv /\ CapInv) /\ [PoolNext]_poolVars => (PoolInv /\ CapInv)'
  BY PoolStep, CapStep
<1>3. QED
  BY <1>1, <1>2, PTL DEF PoolSpec

\* Every variable keeps its type, and only a tracked thread is marked active:
\* mark_active on a thread that was removed does nothing (pool.rs:157-163).
THEOREM PoolTypeCorrect == PoolSpec => []PoolTypeOK
<1>1. PoolInv => PoolTypeOK
  BY DEF PoolInv, TableInv, AcquireInv, TurnInv, PoolTypeOK
<1>2. QED
  BY <1>1, PoolAlways, PTL

\* by_cwd lists the entries of processes, each under its own cwd, whatever
\* the tasks do to the table between each other's lock sections.
THEOREM IndexAlwaysInLockstep == PoolSpec => []IndexInLockstep
<1>1. PoolInv => IndexInLockstep
  BY DEF PoolInv, TableInv
<1>2. QED
  BY <1>1, PoolAlways, PTL

\* No agent child runs that neither the table nor a task holds, through
\* evictions, refused registrations and spawns that fail.
THEOREM NoChildForgotten == PoolSpec => []NoOrphan
<1>1. PoolInv => NoOrphan
  BY DEF PoolInv
<1>2. QED
  BY <1>1, PoolAlways, PTL

\* However many tasks acquire at once, entries and spawns under way pass the
\* cap by less than the number of those tasks.
THEOREM CapPassedByFewerThanAcquirers == PoolSpec => []OverCapBounded
<1>1. CapInv => OverCapBounded
  BY DEF CapInv
<1>2. QED
  BY <1>1, PoolAlways, PTL
=============================================================================
