---------------------------- MODULE ClaudeTurnProofs ----------------------------
(***************************************************************************)
(* What holds of a thread's turns for any number of them, also when the    *)
(* client overlaps them: the types, and that a thread that is quiet is     *)
(* idle in the pool and registers no turn.  With clients that wait for a   *)
(* turn before they start the next, that no turn is completed by another's *)
(* result (CompletedByOwn).                                                *)
(***************************************************************************)
EXTENDS ClaudeTurn, SequenceTheorems, TLAPS

\* The stages at which a turn will still clear the slot, or the active flag.
WillUnregister == {"registered", "marked", "announced", "subscribed", "pumping", "finishing",
                   "failed", "emitted"}
WillMarkIdle == (WillUnregister \ {"registered"}) \cup {"unwinding", "cleared"}

\* The slot and the flag never outlive every turn that will clear them.
ClearedBySomebody ==
    /\ activeTurn # NoTurn => \E u \in Turns : stage[u] \in WillUnregister
    /\ busy => \E u \in Turns : stage[u] \in WillMarkIdle

TurnInv == TypeOK /\ ClearedBySomebody

-----------------------------------------------------------------------------
LEMMA StagesListed ==
    Stages = {"new", "failed", "unwinding", "emitted", "cleared", "done", "found",
              "registered", "marked", "announced", "subscribed", "pumping", "finishing"}
BY DEF Stages, Handling, Pumping

LEMMA TurnInit ==
    ASSUME Init
    PROVE  TurnInv
<1>1. events \in Seq(Event) /\ stdin \in Seq(Turns \cup {Stray})
  <2>1. <<>> \in Seq(Event) /\ <<>> \in Seq(Turns \cup {Stray})
    OBVIOUS
  <2>2. QED
    BY <2>1 DEF Init
<1>2. TypeOK
  <2>1. at \in [Turns -> 0 .. Len(events)]
    BY DEF Init
  <2>2. QED
    BY <1>1, <2>1, StagesListed DEF Init, TypeOK
<1>3. QED
  BY <1>2 DEF Init, TurnInv, ClearedBySomebody

\* What the child broadcasts reaches no receiver's position.
LEMMA EmitKeepsTypes ==
    ASSUME TypeOK, NEW t \in Turns \cup {Stray}, NEW result \in BOOLEAN, Emit(t, result),
           UNCHANGED at
    PROVE  events' \in Seq(Event) /\ at' \in [Turns -> 0 .. Len(events')]
<1> DEFINE e == [turn |-> t, result |-> result]
<1>1. e \in Event
  BY DEF Event
<1>2. events' = Append(events, e) /\ events \in Seq(Event)
  BY DEF Emit, TypeOK
<1>3. events' \in Seq(Event) /\ Len(events') = Len(events) + 1 /\ Len(events) \in Nat
  BY <1>1, <1>2, AppendProperties, LenProperties
<1>4. QED
  BY <1>3 DEF TypeOK

LEMMA ReceivedIsPosition ==
    ASSUME TypeOK, NEW u \in Turns, at[u] < Len(events)
    PROVE  Received(u) \in 0 .. Len(events)
<1>1. Len(events) \in Nat /\ at[u] \in 0 .. Len(events)
  BY LenProperties DEF TypeOK
<1>2. QED
  BY <1>1, TurnAssumption DEF Received

-----------------------------------------------------------------------------
LEMMA TypeStep ==
    ASSUME TypeOK, [Next]_vars
    PROVE  TypeOK'
<1> USE DEF TypeOK
<1>1. CASE UNCHANGED vars
  BY <1>1 DEF vars, childVars, clientVars
<1>2. CASE ChildReads
  <2>1. Head(stdin) \in Turns \cup {Stray} /\ Tail(stdin) \in Seq(Turns \cup {Stray})
    BY <1>2, HeadTailProperties DEF ChildReads
  <2>2. QED
    BY <1>2, <2>1 DEF ChildReads, clientVars
<1>3. CASE ChildFolds
  <2>1. Tail(stdin) \in Seq(Turns \cup {Stray})
    BY <1>3, HeadTailProperties DEF ChildFolds
  <2>2. QED
    BY <1>3, <2>1 DEF ChildFolds, clientVars
<1>4. CASE ChildStreams
  <2>1. events' \in Seq(Event) /\ at' \in [Turns -> 0 .. Len(events')]
    BY <1>4, EmitKeepsTypes DEF ChildStreams
  <2>2. QED
    BY <1>4, <2>1 DEF ChildStreams, clientVars
<1>5. CASE ChildFinishes
  <2>1. events' \in Seq(Event) /\ at' \in [Turns -> 0 .. Len(events')]
    BY <1>5, EmitKeepsTypes DEF ChildFinishes
  <2>2. QED
    BY <1>5, <2>1 DEF ChildFinishes, clientVars
<1>6. CASE ChildExits
  <2>1. <<>> \in Seq(Turns \cup {Stray})
    BY EmptySeq
  <2>2. QED
    BY <1>6, <2>1 DEF ChildExits, Dies, clientVars
<1>7. ASSUME NEW u \in Turns, Start(u) \/ Handler(u) PROVE TypeOK'
  <2>1. CASE Start(u) \/ OverridesFail(u) \/ Register(u) \/ MarkActive(u) \/ Announce(u)
    BY <2>1, StagesListed DEF Start, OverridesFail, Register, MarkActive, Announce, StageTo,
       childVars, clientVars
  <2>2. CASE Subscribe(u)
    <3>1. Len(events) \in 0 .. Len(events)
      BY LenProperties
    <3>2. QED
      BY <2>2, <3>1, StagesListed DEF Subscribe, StageTo, childVars, clientVars
  <2>3. CASE SendPrompt(u)
    <3>1. Append(stdin, u) \in Seq(Turns \cup {Stray})
      BY AppendProperties
    <3>2. QED
      BY <2>3, <3>1, StagesListed DEF SendPrompt, StageTo, clientVars
  <2>4. QED
    BY <1>7, <2>1, <2>2, <2>3 DEF Handler
<1>8. ASSUME NEW u \in Turns, Pump(u) PROVE TypeOK'
  <2>1. CASE Receive(u)
    <3>1. Received(u) \in 0 .. Len(events)
      BY <2>1, ReceivedIsPosition DEF Receive
    <3>2. events[at[u] + 1].turn \in Turns \cup {Stray}
      <4>1. at[u] + 1 \in 1 .. Len(events)
        BY <2>1, LenProperties DEF Receive
      <4>2. events[at[u] + 1] \in Event
        BY <4>1, ElementOfSeq
      <4>3. QED
        BY <4>2 DEF Event
    <3>3. QED
      BY <2>1, <3>1, <3>2, StagesListed DEF Receive, StageTo, childVars, clientVars
  <2>2. CASE Complete(u) \/ Unregister(u) \/ MarkIdle(u)
    BY <2>2, StagesListed DEF Complete, Unregister, MarkIdle, StageTo, childVars, clientVars
  <2>3. QED
    BY <1>8, <2>1, <2>2 DEF Pump
<1>9. ASSUME NEW u \in Turns, SteerChecks(u) \/ SteerWrites(u) PROVE TypeOK'
  <2>1. Append(stdin, Stray) \in Seq(Turns \cup {Stray})
    BY AppendProperties
  <2>2. QED
    BY <1>9, <2>1 DEF SteerChecks, SteerWrites, childVars
<1>10. ASSUME NEW u \in Turns, InterruptChecks(u) PROVE TypeOK'
  BY <1>10 DEF InterruptChecks, childVars
<1>11. ASSUME NEW u \in Turns, InterruptLands(u) PROVE TypeOK'
  <2>1. /\ interrupt' \in [Turns -> {"none", "checked", "sent"}]
        /\ UNCHANGED <<stage, activeTurn, busy, at, cause, steer>>
    BY <1>11 DEF InterruptLands
  <2>2. CASE alive /\ working # NoTurn /\ Emit(working, TRUE) /\ working' = NoTurn
             /\ UNCHANGED <<alive, stdin>>
    <3>1. events' \in Seq(Event) /\ at' \in [Turns -> 0 .. Len(events')]
      BY <2>1, <2>2, EmitKeepsTypes
    <3>2. QED
      BY <2>1, <2>2, <3>1
  <2>3. CASE UNCHANGED childVars
    BY <2>1, <2>3 DEF childVars
  <2>4. CASE Dies /\ UNCHANGED events
    <3>1. <<>> \in Seq(Turns \cup {Stray})
      BY EmptySeq
    <3>2. QED
      BY <2>1, <2>4, <3>1 DEF Dies
  <2>5. QED
    BY <1>11, <2>2, <2>3, <2>4 DEF InterruptLands
<1>12. QED
  BY <1>1, <1>2, <1>3, <1>4, <1>5, <1>6, <1>7, <1>8, <1>9, <1>10, <1>11 DEF Next, Child

-----------------------------------------------------------------------------
\* A turn that moves on, but not past its own clearing, keeps the promise.
LEMMA MovingOnKeepsPromise ==
    ASSUME TypeOK, ClearedBySomebody, NEW u \in Turns, NEW next \in Stages, StageTo(u, next),
           activeTurn' # NoTurn => activeTurn # NoTurn \/ next \in WillUnregister,
           busy' => busy \/ next \in WillMarkIdle,
           \/ stage[u] \in WillUnregister => next \in WillUnregister
           \/ activeTurn' = NoTurn,
           \/ stage[u] \in WillMarkIdle => next \in WillMarkIdle
           \/ ~busy'
    PROVE  ClearedBySomebody'
<1>1. stage'[u] = next /\ \A w \in Turns \ {u} : stage'[w] = stage[w]
  BY DEF StageTo, TypeOK
<1>2. ASSUME activeTurn' # NoTurn PROVE \E w \in Turns : stage'[w] \in WillUnregister
  BY <1>1, <1>2 DEF ClearedBySomebody
<1>3. ASSUME busy' PROVE \E w \in Turns : stage'[w] \in WillMarkIdle
  BY <1>1, <1>3 DEF ClearedBySomebody
<1>4. QED
  BY <1>2, <1>3 DEF ClearedBySomebody, WillUnregister, WillMarkIdle

LEMMA PromiseStep ==
    ASSUME TypeOK, ClearedBySomebody, [Next]_vars
    PROVE  ClearedBySomebody'
<1>1. ASSUME UNCHANGED <<stage, activeTurn, busy>> PROVE ClearedBySomebody'
  BY <1>1 DEF ClearedBySomebody
<1>2. ASSUME NEW u \in Turns, Start(u) \/ Handler(u) PROVE ClearedBySomebody'
  <2>1. CASE Start(u) \/ OverridesFail(u) \/ MarkActive(u) \/ Announce(u) \/ Subscribe(u)
    BY <2>1, MovingOnKeepsPromise, StagesListed DEF Start, OverridesFail, MarkActive, Announce,
       Subscribe, WillUnregister, WillMarkIdle
  <2>2. CASE Register(u)
    BY <2>2, MovingOnKeepsPromise, StagesListed DEF Register, WillUnregister, WillMarkIdle
  <2>3. CASE SendPrompt(u)
    BY <2>3, MovingOnKeepsPromise, StagesListed DEF SendPrompt, WillUnregister, WillMarkIdle
  <2>4. QED
    BY <1>2, <2>1, <2>2, <2>3 DEF Handler
<1>3. ASSUME NEW u \in Turns, Pump(u) PROVE ClearedBySomebody'
  <2>1. CASE Receive(u)
    <3>1. CASE StageTo(u, "finishing")
      BY <2>1, <3>1, MovingOnKeepsPromise, StagesListed DEF Receive, WillUnregister, WillMarkIdle
    <3>2. CASE UNCHANGED stage
      BY <1>1, <2>1, <3>2 DEF Receive
    <3>3. QED
      BY <2>1, <3>1, <3>2 DEF Receive
  <2>2. CASE Complete(u)
    BY <2>2, MovingOnKeepsPromise, StagesListed DEF Complete, WillUnregister, WillMarkIdle
  <2>3. CASE Unregister(u)
    BY <2>3, MovingOnKeepsPromise, StagesListed DEF Unregister, WillUnregister, WillMarkIdle
  <2>4. CASE MarkIdle(u)
    BY <2>4, MovingOnKeepsPromise, StagesListed DEF MarkIdle, WillUnregister, WillMarkIdle
  <2>5. QED
    BY <1>3, <2>1, <2>2, <2>3, <2>4 DEF Pump
<1>4. CASE UNCHANGED vars
  BY <1>1, <1>4 DEF vars
<1>5. CASE Child \/ ChildExits
  BY <1>1, <1>5 DEF Child, ChildReads, ChildFolds, ChildStreams, ChildFinishes, ChildExits
<1>6. ASSUME NEW u \in Turns,
             SteerChecks(u) \/ SteerWrites(u) \/ InterruptChecks(u) \/ InterruptLands(u)
      PROVE  ClearedBySomebody'
  BY <1>1, <1>6 DEF SteerChecks, SteerWrites, InterruptChecks, InterruptLands
<1>7. QED
  BY <1>2, <1>3, <1>4, <1>5, <1>6 DEF Next

-----------------------------------------------------------------------------
LEMMA TurnAlways == Spec => []TurnInv
<1>1. Init => TurnInv
  BY TurnInit
<1>2. TurnInv /\ [Next]_vars => TurnInv'
  BY TypeStep, PromiseStep DEF TurnInv
<1>3. QED
  BY <1>1, <1>2, PTL DEF Spec

\* Every variable keeps its type; no receiver is ever ahead of what the child
\* has broadcast, however often it lags (run_event_pump, turn.rs:396-549).
THEOREM TurnTypeCorrect == Spec => []TypeOK
<1>1. TurnInv => TypeOK
  BY DEF TurnInv
<1>2. QED
  BY <1>1, TurnAlways, PTL

\* A thread whose turns are all over is idle in the pool and has no turn
\* registered, whichever of its turns overlapped, failed or were interrupted.
THEOREM QuietThreadIsIdle == Spec => []QuietIsIdle
<1>1. TurnInv => QuietIsIdle
  BY DEF TurnInv, ClearedBySomebody, QuietIsIdle, WillUnregister, WillMarkIdle
<1>2. QED
  BY <1>1, TurnAlways, PTL
-----------------------------------------------------------------------------
(* A client that waits for each turn, and no steer that became a turn.     *)

\* The child has turn t's prompt, or is at work on it; it has answered it.
Awaited(t) == working = t \/ \E i \in 1 .. Len(stdin) : stdin[i] = t
Answered(t) == \E i \in 1 .. Len(events) : events[i] = [turn |-> t, result |-> TRUE]

OneAtATime == \A u, w \in Turns : Over(u) \/ Over(w) \/ u = w

\* A prompt is with the child at most once, and only while its pump waits.
PromptOnce ==
    /\ \A i, j \in 1 .. Len(stdin) : stdin[i] = stdin[j] => i = j \/ stdin[i] = Stray
    /\ \A i \in 1 .. Len(stdin) : stdin[i] = working => working = Stray

AwaitedIsPumping == \A u \in Turns : Awaited(u) => stage[u] = "pumping" /\ ~Answered(u)

AnsweredWasPumped ==
    \A u \in Turns : Answered(u) => stage[u] \in {"pumping", "finishing", "emitted", "cleared", "done"}

\* The results a pump has still to receive are its own turn's.
OwnAhead ==
    \A u \in Turns : stage[u] \in {"subscribed", "pumping"} =>
        \A i \in (at[u] + 1) .. Len(events) : events[i].result => events[i].turn \in {u, Stray}

OwnCause == \A u \in Turns : cause[u] \in {u, NoTurn}

Serial ==
    /\ OneAtATime /\ PromptOnce /\ AwaitedIsPumping /\ AnsweredWasPumped
    /\ OwnAhead /\ OwnCause

SerialInv == Overlap \/ SteerTookResult \/ Serial

-----------------------------------------------------------------------------
LEMMA SerialInit ==
    ASSUME Init
    PROVE  Serial
<1>1. Len(stdin) = 0 /\ Len(events) = 0
  BY DEF Init
<1>2. 1 .. 0 = {}
  OBVIOUS
<1>3. \A u \in Turns : ~Awaited(u) /\ ~Answered(u) /\ Over(u)
  BY <1>1, <1>2, TurnAssumption DEF Init, Awaited, Answered, Over
<1>4. OneAtATime /\ AwaitedIsPumping /\ AnsweredWasPumped
  BY <1>3 DEF OneAtATime, AwaitedIsPumping, AnsweredWasPumped
<1>5. PromptOnce
  BY <1>1, <1>2 DEF PromptOnce
<1>6. OwnAhead /\ OwnCause
  BY DEF Init, OwnAhead, OwnCause
<1>7. QED
  BY <1>4, <1>5, <1>6 DEF Serial

\* Every result the child ever broadcasts stays one of its events.
LEMMA StrayResultStays ==
    ASSUME TypeOK, SteerTookResult,
           \/ UNCHANGED events
           \/ \E e : events' = Append(events, e)
    PROVE  SteerTookResult'
<1>1. PICK i \in DOMAIN events : events[i] = [turn |-> Stray, result |-> TRUE]
  BY DEF SteerTookResult
<1>2. i \in DOMAIN events' /\ events'[i] = events[i]
  <2>1. CASE UNCHANGED events
    BY <2>1
  <2>2. ASSUME NEW e, events' = Append(events, e) PROVE i \in DOMAIN events' /\ events'[i] = events[i]
    BY <2>2 DEF TypeOK
  <2>3. QED
    BY <2>1, <2>2
<1>3. QED
  BY <1>1, <1>2 DEF SteerTookResult

LEMMA EventsGrow ==
    ASSUME TypeOK, [Next]_vars
    PROVE  UNCHANGED events \/ \E e : events' = Append(events, e)
<1>1. ASSUME NEW u \in Turns,
             \/ Start(u) \/ Handler(u) \/ Pump(u)
             \/ SteerChecks(u) \/ SteerWrites(u) \/ InterruptChecks(u) \/ InterruptLands(u)
      PROVE  UNCHANGED events \/ \E e : events' = Append(events, e)
  BY <1>1 DEF Start, Handler, OverridesFail, Register, MarkActive, Announce, Subscribe, SendPrompt,
     Pump, Receive, Complete, Unregister, MarkIdle, SteerChecks, SteerWrites, InterruptChecks,
     InterruptLands, childVars, Emit, Dies
<1>2. CASE Child \/ ChildExits
  BY <1>2 DEF Child, ChildReads, ChildFolds, ChildStreams, ChildFinishes, ChildExits, Dies, Emit
<1>3. CASE UNCHANGED vars
  BY <1>3 DEF vars, childVars
<1>4. QED
  BY <1>1, <1>2, <1>3 DEF Next

-----------------------------------------------------------------------------
\* A step of turn u's handler or pump that neither writes the prompt nor
\* receives an event.
LEMMA StageStepSerial ==
    ASSUME TypeOK, Serial, NEW u \in Turns, NEW next \in Stages, StageTo(u, next),
           UNCHANGED <<events, stdin, working, cause>>,
           \A w \in Turns : at'[w] = at[w] \/ (w = u /\ at'[w] = Len(events)),
           next \in {"new", "emitted", "cleared", "done"} \/ ~Over(u) \/ \A w \in Turns : Over(w),
           stage[u] # "pumping" /\ next # "pumping",
           next = "subscribed" => at'[u] = Len(events),
           stage[u] \in {"finishing", "emitted", "cleared", "done"}
               => next \in {"finishing", "emitted", "cleared", "done"}
    PROVE  Serial'
<1> USE DEF Serial
<1>1. stage'[u] = next /\ (\A w \in Turns \ {u} : stage'[w] = stage[w])
  BY DEF StageTo, TypeOK
<1>2. OneAtATime'
  BY <1>1 DEF OneAtATime, Over
<1>3. PromptOnce' /\ OwnCause'
  BY DEF PromptOnce, OwnCause
<1>4. \A w \in Turns : (Awaited(w)' <=> Awaited(w)) /\ (Answered(w)' <=> Answered(w))
  BY DEF Awaited, Answered
<1>5. AwaitedIsPumping' /\ AnsweredWasPumped'
  BY <1>1, <1>4 DEF AwaitedIsPumping, AnsweredWasPumped
<1>6. ASSUME NEW w \in Turns, stage'[w] \in {"subscribed", "pumping"},
             NEW i \in (at'[w] + 1) .. Len(events'), events'[i].result
      PROVE  events'[i].turn \in {w, Stray}
  <2>1. Len(events) \in Nat /\ at[w] \in Nat
    BY LenProperties DEF TypeOK
  <2>2. CASE at'[w] = Len(events)
    BY <2>1, <2>2, <1>6
  <2>3. CASE at'[w] = at[w] /\ stage[w] \in {"subscribed", "pumping"}
    BY <2>3, <1>6 DEF OwnAhead
  <2>4. QED
    BY <1>1, <1>6, <2>2, <2>3
<1>7. OwnAhead'
  BY <1>6 DEF OwnAhead
<1>8. QED
  BY <1>2, <1>3, <1>5, <1>7

LEMMA SendSerial ==
    ASSUME TypeOK, Serial, NEW u \in Turns, SendPrompt(u)
    PROVE  Serial'
<1> USE DEF Serial
<1>1. PICK next \in {"pumping", "failed"} : StageTo(u, next)
  BY DEF SendPrompt
<1>2. /\ stage[u] = "subscribed" /\ stage'[u] = next
      /\ \A w \in Turns \ {u} : stage'[w] = stage[w]
      /\ UNCHANGED <<at, cause, events, working>>
  BY <1>1 DEF SendPrompt, StageTo, TypeOK
<1>3. stdin' = stdin \/ (stdin' = Append(stdin, u) /\ next = "pumping")
  BY <1>2 DEF SendPrompt, StageTo, TypeOK
<1>4. ~Awaited(u) /\ ~Answered(u) /\ u # Stray
  BY <1>2, TurnAssumption DEF AwaitedIsPumping, AnsweredWasPumped
<1>5. Len(stdin) \in Nat
  BY LenProperties DEF TypeOK
<1>6. ASSUME stdin' = Append(stdin, u)
      PROVE  /\ Len(stdin') = Len(stdin) + 1 /\ stdin'[Len(stdin) + 1] = u
             /\ \A i \in 1 .. Len(stdin) : stdin'[i] = stdin[i]
  BY <1>6, AppendProperties DEF TypeOK
<1>7. PromptOnce'
  <2>1. CASE stdin' = stdin
    BY <2>1, <1>2 DEF PromptOnce
  <2>2. CASE stdin' = Append(stdin, u)
    <3>1. \A i \in 1 .. Len(stdin) : stdin[i] # u
      BY <1>4 DEF Awaited
    <3>2. \A i \in 1 .. Len(stdin') : i \in 1 .. Len(stdin) \/ i = Len(stdin) + 1
      BY <2>2, <1>5, <1>6
    <3>3. \A i, j \in 1 .. Len(stdin') : stdin'[i] = stdin'[j] => i = j \/ stdin'[i] = Stray
      BY <2>2, <1>6, <3>1, <3>2 DEF PromptOnce
    <3>4. \A i \in 1 .. Len(stdin') : stdin'[i] = working' => working' = Stray
      BY <2>2, <1>2, <1>4, <1>6, <3>2 DEF PromptOnce, Awaited
    <3>5. QED
      BY <3>3, <3>4 DEF PromptOnce
  <2>3. QED
    BY <1>3, <2>1, <2>2
<1>8. \A w \in Turns : Answered(w)' <=> Answered(w)
  BY <1>2 DEF Answered
<1>9. \A w \in Turns : Awaited(w)' => Awaited(w) \/ (w = u /\ next = "pumping")
  BY <1>2, <1>3, <1>5, <1>6 DEF Awaited
<1>10. OneAtATime' /\ AwaitedIsPumping' /\ AnsweredWasPumped' /\ OwnCause'
  BY <1>2, <1>4, <1>8, <1>9 DEF OneAtATime, Over, AwaitedIsPumping, AnsweredWasPumped, OwnCause
<1>11. OwnAhead'
  BY <1>2 DEF OwnAhead
<1>12. QED
  BY <1>7, <1>10, <1>11

\* recv() advances one receiver, never past an event it has not looked at
\* unless the channel has dropped it.
LEMMA ReceiveSerial ==
    ASSUME TypeOK, Serial, ~SteerTookResult, NEW u \in Turns, Receive(u)
    PROVE  Serial'
<1> USE DEF Serial
<1> DEFINE event == events[at[u] + 1]
<1>1. /\ stage[u] = "pumping" /\ at[u] \in Nat /\ at[u] < Len(events) /\ Len(events) \in Nat
      /\ UNCHANGED <<events, stdin, working>>
      /\ at' = [at EXCEPT ![u] = Received(u)]
  BY LenProperties DEF Receive, TypeOK, childVars
<1>2. /\ Received(u) \in Nat /\ at[u] < Received(u)
      /\ at'[u] = Received(u) /\ \A w \in Turns \ {u} : at'[w] = at[w]
  BY <1>1, TurnAssumption DEF Received, TypeOK
<1>3. PromptOnce'
  BY <1>1 DEF PromptOnce
<1>4. \A w \in Turns : (Awaited(w)' <=> Awaited(w)) /\ (Answered(w)' <=> Answered(w))
  BY <1>1 DEF Awaited, Answered
<1>5. CASE UNCHANGED <<stage, cause>>
  <2>1. OneAtATime' /\ AwaitedIsPumping' /\ AnsweredWasPumped' /\ OwnCause'
    BY <1>4, <1>5 DEF OneAtATime, Over, AwaitedIsPumping, AnsweredWasPumped, OwnCause
  <2>2. \A w \in Turns : at'[w] \in Nat /\ at[w] \in Nat /\ at[w] <= at'[w]
    BY <1>1, <1>2, LenProperties DEF TypeOK
  <2>3. \A w \in Turns : \A i \in (at'[w] + 1) .. Len(events) : i \in (at[w] + 1) .. Len(events)
    BY <2>2, <1>1
  <2>4. OwnAhead'
    BY <2>3, <1>1, <1>5 DEF OwnAhead
  <2>5. QED
    BY <1>3, <2>1, <2>4
<1>6. CASE event.result /\ StageTo(u, "finishing") /\ cause' = [cause EXCEPT ![u] = event.turn]
  <2>1. at[u] + 1 \in (at[u] + 1) .. Len(events) /\ at[u] + 1 \in DOMAIN events
    BY <1>1 DEF TypeOK
  <2>2. event \in Event
    BY <2>1, ElementOfSeq DEF TypeOK
  <2>3. event.turn \in {u, Stray}
    BY <1>1, <1>6, <2>1 DEF OwnAhead
  <2>4. event = [turn |-> event.turn, result |-> TRUE]
    BY <1>6, <2>2 DEF Event
  <2>5. event.turn = u
    BY <2>1, <2>3, <2>4 DEF SteerTookResult
  <2>6. Answered(u)
    BY <2>1, <2>4, <2>5, LenProperties DEF Answered, TypeOK
  <2>7. /\ stage'[u] = "finishing" /\ cause'[u] = u
        /\ \A w \in Turns \ {u} : stage'[w] = stage[w] /\ cause'[w] = cause[w]
    BY <1>6, <2>5 DEF StageTo, TypeOK
  <2>8. OneAtATime' /\ OwnCause'
    BY <1>1, <2>7 DEF OneAtATime, Over, OwnCause
  <2>9. AwaitedIsPumping' /\ AnsweredWasPumped'
    BY <1>4, <2>6, <2>7 DEF AwaitedIsPumping, AnsweredWasPumped
  <2>10. OwnAhead'
    BY <1>1, <1>2, <2>7 DEF OwnAhead
  <2>11. QED
    BY <1>3, <2>8, <2>9, <2>10
<1>7. QED
  BY <1>5, <1>6 DEF Receive

\* The child takes an envelope from stdin, to work on it or to fold it, or
\* loses what it was sent; a steer may be written behind.
LEMMA StdinStepSerial ==
    ASSUME TypeOK, Serial, UNCHANGED <<stage, events, at, cause>>,
           \/ ChildReads \/ ChildFolds
           \/ Dies
           \/ stdin' \in {stdin, Append(stdin, Stray)} /\ UNCHANGED working
    PROVE  Serial'
<1> USE DEF Serial
<1>1. Len(stdin) \in Nat /\ NoTurn \notin Turns /\ Stray \notin Turns
  BY LenProperties, TurnAssumption DEF TypeOK
<1>2. PromptOnce' /\ \A u \in Turns : Awaited(u)' => Awaited(u)
  <2>1. CASE ChildReads \/ ChildFolds
    <3> DEFINE rest == Tail(stdin)
    <3>1. stdin' = rest /\ stdin # <<>> /\ (working' = working \/ working' = Head(stdin))
      BY <2>1 DEF ChildReads, ChildFolds
    <3>2. /\ Len(stdin) >= 1 /\ Head(stdin) = stdin[1]
          /\ Len(rest) = Len(stdin) - 1
          /\ \A i \in 1 .. Len(rest) : rest[i] = stdin[i + 1]
      BY <3>1 DEF TypeOK
    <3> HIDE DEF rest
    <3>3. \A i \in 1 .. Len(stdin') : i + 1 \in 1 .. Len(stdin) /\ stdin'[i] = stdin[i + 1] /\ i + 1 # 1
      BY <1>1, <3>1, <3>2
    <3>4. 1 \in 1 .. Len(stdin)
      BY <1>1, <3>2
    <3>5. \A i, j \in 1 .. Len(stdin') : i \in Int /\ j \in Int /\ (i + 1 = j + 1 => i = j)
      OBVIOUS
    <3>6. PromptOnce'
      <4>1. \A i, j \in 1 .. Len(stdin') : stdin'[i] = stdin'[j] => i = j \/ stdin'[i] = Stray
        BY <3>3, <3>5 DEF PromptOnce
      <4>2. ASSUME NEW i \in 1 .. Len(stdin'), stdin'[i] = working' PROVE working' = Stray
        <5>1. CASE working' = working
          BY <3>3, <4>2, <5>1 DEF PromptOnce
        <5>2. CASE working' = stdin[1]
          <6>1. i + 1 \in 1 .. Len(stdin) /\ stdin[i + 1] = stdin[1] /\ i + 1 # 1
            BY <3>3, <4>2, <5>2
          <6> QED
            BY <3>4, <5>2, <6>1 DEF PromptOnce
        <5> QED
          BY <3>1, <3>2, <5>1, <5>2
      <4> QED
        BY <4>1, <4>2 DEF PromptOnce
    <3>7. \A u \in Turns : Awaited(u)' => Awaited(u)
      BY <3>1, <3>2, <3>3, <3>4 DEF Awaited
    <3>8. QED
      BY <3>6, <3>7
  <2>2. CASE Dies
    <3>1. 1 .. Len(stdin') = {} /\ working' = NoTurn
      BY <2>2 DEF Dies
    <3>2. QED
      BY <1>1, <3>1 DEF PromptOnce, Awaited
  <2>3. CASE UNCHANGED <<stdin, working>>
    BY <2>3 DEF PromptOnce, Awaited
  <2>4. CASE stdin' = Append(stdin, Stray) /\ UNCHANGED working
    <3>1. /\ Len(stdin') = Len(stdin) + 1 /\ stdin'[Len(stdin) + 1] = Stray
          /\ \A i \in 1 .. Len(stdin) : stdin'[i] = stdin[i]
      BY <2>4, AppendProperties DEF TypeOK
    <3>2. \A i \in 1 .. Len(stdin') : i \in 1 .. Len(stdin) \/ i = Len(stdin) + 1
      BY <1>1, <3>1
    <3>3. PromptOnce'
      BY <2>4, <3>1, <3>2 DEF PromptOnce
    <3>4. \A u \in Turns : Awaited(u)' => Awaited(u)
      BY <1>1, <2>4, <3>1, <3>2 DEF Awaited
    <3>5. QED
      BY <3>3, <3>4
  <2>5. QED
    BY <2>1, <2>2, <2>3, <2>4
<1>3. \A w \in Turns : Answered(w)' <=> Answered(w)
  BY DEF Answered
<1>4. OneAtATime' /\ AwaitedIsPumping' /\ AnsweredWasPumped' /\ OwnAhead' /\ OwnCause'
  BY <1>2, <1>3 DEF OneAtATime, Over, AwaitedIsPumping, AnsweredWasPumped, OwnAhead, OwnCause
<1>5. QED
  BY <1>2, <1>4

\* The child broadcasts a delta, or the result of what it works on.
LEMMA EmitSerial ==
    ASSUME TypeOK, Serial, UNCHANGED <<stage, at, cause, stdin>>, NEW result \in BOOLEAN,
           working # NoTurn, Emit(working, result), working' = IF result THEN NoTurn ELSE working
    PROVE  Serial'
<1> USE DEF Serial
<1> DEFINE e == [turn |-> working, result |-> result]
<1>1. /\ Len(events) \in Nat /\ Len(events') = Len(events) + 1 /\ events'[Len(events) + 1] = e
      /\ \A i \in 1 .. Len(events) : events'[i] = events[i]
  <2>1. events' = Append(events, e) /\ events \in Seq(Event)
    BY DEF Emit, TypeOK
  <2>2. QED
    BY <2>1, AppendProperties, LenProperties
<1>2. \A i \in 1 .. Len(events') : i \in 1 .. Len(events) \/ i = Len(events) + 1
  BY <1>1
<1>3. working \in Turns \cup {Stray} /\ NoTurn \notin Turns /\ Stray # NoTurn /\ Stray \notin Turns
  BY TurnAssumption DEF TypeOK
<1>4. \A u \in Turns : Answered(u)' => Answered(u) \/ (result /\ u = working)
  <2>1. ASSUME NEW u \in Turns,
               NEW i \in 1 .. Len(events'), events'[i] = [turn |-> u, result |-> TRUE]
        PROVE  Answered(u) \/ (result /\ u = working)
    <3>1. CASE i \in 1 .. Len(events)
      BY <1>1, <2>1, <3>1 DEF Answered
    <3>2. CASE i = Len(events) + 1
      <4>1. e.turn = u /\ e.result = TRUE
        BY <1>1, <2>1, <3>2
      <4>2. QED
        BY <4>1
    <3>3. QED
      BY <1>2, <2>1, <3>1, <3>2
  <2>2. QED
    BY <2>1 DEF Answered
<1>5. \A u \in Turns : Awaited(u)' => Awaited(u) /\ ~(result /\ u = working)
  <2>1. ASSUME NEW u \in Turns, Awaited(u)' PROVE Awaited(u) /\ ~(result /\ u = working)
    <3>1. CASE working' = u
      BY <1>3, <3>1 DEF Awaited
    <3>2. ASSUME NEW i \in 1 .. Len(stdin), stdin[i] = u
          PROVE  Awaited(u) /\ ~(result /\ u = working)
      BY <1>3, <3>2 DEF Awaited, PromptOnce
    <3>3. QED
      BY <2>1, <3>1, <3>2 DEF Awaited
  <2>2. QED
    BY <2>1
<1>6. PromptOnce'
  <2>1. \A i \in 1 .. Len(stdin) : stdin[i] # NoTurn
    BY <1>3, ElementOfSeq DEF TypeOK
  <2>2. QED
    BY <2>1 DEF PromptOnce
<1>7. OneAtATime' /\ OwnCause'
  BY DEF OneAtATime, Over, OwnCause
<1>8. working \in Turns => Awaited(working)
  BY DEF Awaited
<1>9. AwaitedIsPumping' /\ AnsweredWasPumped'
  BY <1>3, <1>4, <1>5, <1>8 DEF AwaitedIsPumping, AnsweredWasPumped
<1>10. ASSUME NEW u \in Turns, stage[u] \in {"subscribed", "pumping"},
              NEW i \in (at[u] + 1) .. Len(events'), events'[i].result
       PROVE  events'[i].turn \in {u, Stray}
  <2>1. at[u] \in Nat
    BY LenProperties DEF TypeOK
  <2>2. CASE i \in 1 .. Len(events)
    <3>1. i \in (at[u] + 1) .. Len(events) /\ events'[i] = events[i]
      BY <1>1, <2>1, <2>2
    <3>2. QED
      BY <1>10, <3>1 DEF OwnAhead
  <2>3. CASE i = Len(events) + 1
    <3>1. events'[i].turn = working
      BY <1>1, <2>3
    <3>2. working \in Turns => working = u
      BY <1>8, <1>10 DEF AwaitedIsPumping, OneAtATime, Over
    <3>3. QED
      BY <1>3, <3>1, <3>2
  <2>4. i \in 1 .. Len(events')
    BY <2>1, <1>1
  <2>5. QED
    BY <1>2, <2>2, <2>3, <2>4
<1>11. OwnAhead'
  BY <1>10 DEF OwnAhead
<1>12. QED
  BY <1>6, <1>7, <1>9, <1>11

-----------------------------------------------------------------------------
LEMMA SerialStep ==
    ASSUME TypeOK, Serial, ~Overlap, ~SteerTookResult, [Next]_vars
    PROVE  Serial'
<1>1. CASE UNCHANGED vars
  BY <1>1, StdinStepSerial DEF vars, childVars
<1>2. CASE ChildReads \/ ChildFolds
  BY <1>2, StdinStepSerial DEF ChildReads, ChildFolds
<1>3. CASE ChildStreams \/ ChildFinishes
  BY <1>3, EmitSerial DEF ChildStreams, ChildFinishes
<1>4. CASE ChildExits
  BY <1>4, StdinStepSerial DEF ChildExits
<1>5. ASSUME NEW u \in Turns, Start(u) \/ Handler(u) \/ Pump(u) PROVE Serial'
  <2>1. CASE Start(u) \/ OverridesFail(u) \/ Register(u) \/ MarkActive(u) \/ Announce(u)
             \/ Complete(u) \/ MarkIdle(u)
    BY <2>1, StageStepSerial, StagesListed DEF Start, OverridesFail, Register, MarkActive, Announce,
       Complete, MarkIdle, Over, childVars
  <2>2. CASE Unregister(u)
    BY <2>2, StageStepSerial, StagesListed DEF Unregister, Over, childVars
  <2>3. CASE Subscribe(u)
    <3>1. at'[u] = Len(events) /\ (\A w \in Turns \ {u} : at'[w] = at[w])
      BY <2>3 DEF Subscribe, TypeOK
    <3>2. QED
      BY <2>3, <3>1, StageStepSerial, StagesListed DEF Subscribe, Over, childVars
  <2>4. QED
    BY <1>5, <2>1, <2>2, <2>3, SendSerial, ReceiveSerial DEF Handler, Pump
<1>6. ASSUME NEW u \in Turns, SteerChecks(u) \/ InterruptChecks(u) PROVE Serial'
  BY <1>6, StdinStepSerial DEF SteerChecks, InterruptChecks, childVars
<1>7. ASSUME NEW u \in Turns, SteerWrites(u) PROVE Serial'
  BY <1>7, StdinStepSerial DEF SteerWrites
<1>8. ASSUME NEW u \in Turns, InterruptLands(u) PROVE Serial'
  <2>1. UNCHANGED <<stage, at, cause>>
    BY <1>8 DEF InterruptLands
  <2>2. CASE working # NoTurn /\ Emit(working, TRUE) /\ working' = NoTurn /\ UNCHANGED stdin
    BY <2>1, <2>2, EmitSerial
  <2>3. CASE UNCHANGED childVars
    BY <2>1, <2>3, StdinStepSerial DEF childVars
  <2>4. CASE Dies /\ UNCHANGED events
    BY <2>1, <2>4, StdinStepSerial
  <2>5. QED
    BY <1>8, <2>2, <2>3, <2>4 DEF InterruptLands
<1>9. QED
  BY <1>1, <1>2, <1>3, <1>4, <1>5, <1>6, <1>7, <1>8 DEF Next, Child

\* Where the client waits for a turn's end before it starts the next, and no
\* steer has become a turn of its own, every turn is completed by the result of
\* its own prompt: however far its pump lags (run_event_pump, turn.rs:396-549),
\* and with every interrupt and every exit of the child in between.
THEOREM CompletedByOwn == Spec => []CompletedByOwnResult
<1>1. Init => SerialInv
  BY SerialInit DEF SerialInv
<1>2. TypeOK /\ SerialInv /\ [Next]_vars => SerialInv'
  BY SerialStep, EventsGrow, StrayResultStays DEF SerialInv
<1>3. SerialInv => CompletedByOwnResult
  BY DEF SerialInv, Serial, OwnCause, CompletedByOwnResult
<1>4. QED
  BY <1>1, <1>2, <1>3, TurnTypeCorrect, PTL DEF Spec
=============================================================================
