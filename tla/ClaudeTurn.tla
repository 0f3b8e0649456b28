------------------------------ MODULE ClaudeTurn ------------------------------
(***************************************************************************)
(* The turns of one claude-bridge thread: handlers/turn.rs with the handle *)
(* of pool/process.rs.  Every turn/start request becomes a handler and then *)
(* the event pump it spawns; all of them share the thread's child process, *)
(* its broadcast channel, its slot in ACTIVE_TURNS and its pool entry.     *)
(* The child is external: it reads envelopes from stdin in order, folds one *)
(* that arrives during a turn into it or keeps it for later, and ends every *)
(* turn with one result envelope.                                          *)
(***************************************************************************)
EXTENDS Integers, Sequences, FiniteSets

CONSTANTS
    Turns, NoTurn,
    Overlap,                \* may the client start a turn during another one?
    Steering,               \* does the client use turn/steer?
    Interrupts,             \* does the client use turn/interrupt?
    Exits,                  \* may the child exit, or be killed by the pool?
    Capacity,               \* EVENT_CHANNEL_CAPACITY
    MaxDeltas               \* bound of the model: events that are not results

\* An envelope that no turn/start wrote: a steer the child did not fold.
Stray == "stray"

ASSUME TurnAssumption ==
    /\ NoTurn \notin Turns
    /\ Stray \notin Turns \cup {NoTurn}
    /\ {Overlap, Steering, Interrupts, Exits} \subseteq BOOLEAN
    /\ Capacity \in Nat \ {0}
    /\ MaxDeltas \in Nat

VARIABLES
    stage,                  \* control state of each turn's handler and pump
    activeTurn,             \* the thread's slot in ACTIVE_TURNS
    busy,                   \* active flag of the thread's pool entry
    events,                 \* every event the child has broadcast
    at,                     \* events a turn's receiver has got or skipped
    cause,                  \* the turn whose result ended a pump
    alive,                  \* is the child running?
    stdin,                  \* envelopes written and not read
    working,                \* the turn whose envelope the child works on
    steer,                  \* progress of a turn's one turn/steer request
    interrupt               \* progress of a turn's one turn/interrupt request

childVars == <<events, alive, stdin, working>>
clientVars == <<steer, interrupt>>
vars == <<stage, activeTurn, busy, at, cause, childVars, clientVars>>

Handling == {"found", "registered", "marked", "announced", "subscribed"}
Pumping == {"pumping", "finishing"}
Stages == {"new", "failed", "unwinding", "emitted", "cleared", "done"} \cup Handling \cup Pumping

Event == [turn : Turns \cup {Stray}, result : BOOLEAN]

TypeOK ==
    /\ stage \in [Turns -> Stages]
    /\ activeTurn \in Turns \cup {NoTurn}
    /\ busy \in BOOLEAN
    /\ events \in Seq(Event)
    /\ at \in [Turns -> 0 .. Len(events)]
    /\ cause \in [Turns -> Turns \cup {Stray, NoTurn}]
    /\ alive \in BOOLEAN
    /\ stdin \in Seq(Turns \cup {Stray})
    /\ working \in Turns \cup {Stray, NoTurn}
    /\ steer \in [Turns -> {"none", "checked", "sent"}]
    /\ interrupt \in [Turns -> {"none", "checked", "sent"}]

Init ==
    /\ stage = [u \in Turns |-> "new"]
    /\ activeTurn = NoTurn
    /\ busy = FALSE
    /\ events = <<>>
    /\ at = [u \in Turns |-> 0]
    /\ cause = [u \in Turns |-> NoTurn]
    /\ alive = TRUE
    /\ stdin = <<>>
    /\ working = NoTurn
    /\ steer = [u \in Turns |-> "none"]
    /\ interrupt = [u \in Turns |-> "none"]

-----------------------------------------------------------------------------
(* The child.                                                              *)

Emit(t, result) == events' = Append(events, [turn |-> t, result |-> result])

ChildReads ==
    /\ alive /\ working = NoTurn /\ stdin # <<>>
    /\ working' = Head(stdin)
    /\ stdin' = Tail(stdin)
    /\ UNCHANGED <<stage, activeTurn, busy, events, at, cause, alive, clientVars>>

ChildFolds ==
    /\ alive /\ working # NoTurn /\ stdin # <<>>
    /\ stdin' = Tail(stdin)
    /\ UNCHANGED <<stage, activeTurn, busy, events, at, cause, alive, working, clientVars>>

ChildStreams ==
    /\ alive /\ working # NoTurn
    /\ Cardinality({i \in DOMAIN events : ~events[i].result}) < MaxDeltas
    /\ Emit(working, FALSE)
    /\ UNCHANGED <<stage, activeTurn, busy, at, cause, alive, stdin, working, clientVars>>

ChildFinishes ==
    /\ alive /\ working # NoTurn
    /\ Emit(working, TRUE)
    /\ working' = NoTurn
    /\ UNCHANGED <<stage, activeTurn, busy, at, cause, alive, stdin, clientVars>>

\* shutdown(), or the child ends by itself; what it was sent is lost with it.
Dies ==
    /\ alive' = FALSE
    /\ working' = NoTurn
    /\ stdin' = <<>>

ChildExits ==
    /\ Exits /\ alive
    /\ Dies
    /\ UNCHANGED <<stage, activeTurn, busy, events, at, cause, clientVars>>

-----------------------------------------------------------------------------
(* turn/start.                                                             *)

StageTo(u, next) == stage' = [stage EXCEPT ![u] = next]

\* To the client a turn is over once turn/completed, or an error, was sent.
Over(u) == stage[u] \in {"new", "emitted", "cleared", "done"}

Start(u) ==
    /\ stage[u] = "new"
    /\ Overlap \/ \A w \in Turns : Over(w)
    /\ StageTo(u, "found")
    /\ UNCHANGED <<activeTurn, busy, at, cause, childVars, clientVars>>

\* apply_runtime_overrides fails (or, before it, the translation of the input):
\* the early returns before the turn exists.
OverridesFail(u) ==
    /\ stage[u] = "found"
    /\ StageTo(u, "done")
    /\ UNCHANGED <<activeTurn, busy, at, cause, childVars, clientVars>>

Register(u) ==
    /\ stage[u] = "found"
    /\ activeTurn' = u
    /\ StageTo(u, "registered")
    /\ UNCHANGED <<busy, at, cause, childVars, clientVars>>

MarkActive(u) ==
    /\ stage[u] = "registered"
    /\ busy' = TRUE
    /\ StageTo(u, "marked")
    /\ UNCHANGED <<activeTurn, at, cause, childVars, clientVars>>

\* turn/started and the echoed user message.
Announce(u) ==
    /\ stage[u] = "marked"
    /\ StageTo(u, "announced")
    /\ UNCHANGED <<activeTurn, busy, at, cause, childVars, clientVars>>

\* Bug: the turn's receiver also gets what was broadcast before it subscribed.
SubscribeFromStart(u) ==
    /\ stage[u] = "announced"
    /\ at' = [at EXCEPT ![u] = 0]
    /\ StageTo(u, "subscribed")
    /\ UNCHANGED <<activeTurn, busy, cause, childVars, clientVars>>

Subscribe(u) ==
    /\ stage[u] = "announced"
    /\ at' = [at EXCEPT ![u] = Len(events)]
    /\ StageTo(u, "subscribed")
    /\ UNCHANGED <<activeTurn, busy, cause, childVars, clientVars>>

\* send_serialized.  A write to a child that has gone is accepted, and lost,
\* until the writer task has noticed.
SendPrompt(u) ==
    /\ stage[u] = "subscribed"
    /\ \/ /\ stdin' = IF alive THEN Append(stdin, u) ELSE stdin
          /\ StageTo(u, "pumping")
       \/ /\ ~alive
          /\ StageTo(u, "failed")
          /\ UNCHANGED stdin
    /\ UNCHANGED <<activeTurn, busy, at, cause, events, alive, working, clientVars>>

-----------------------------------------------------------------------------
(* The end of a turn, by its pump or because its prompt was not sent.      *)

\* Bug: a receiver that lags is moved to the newest event, past all others.
ReceivedAllSkipped(u) == IF Len(events) - at[u] > Capacity THEN Len(events) ELSE at[u] + 1

\* A receiver that lags is moved to the oldest event the channel still holds.
Received(u) == IF Len(events) - at[u] > Capacity THEN Len(events) - Capacity ELSE at[u] + 1

\* One recv().  It never gives Closed: the pump's own Arc of the handle keeps a
\* sender of the channel.
Receive(u) ==
    /\ stage[u] = "pumping" /\ at[u] < Len(events)
    /\ at' = [at EXCEPT ![u] = Received(u)]
    /\ LET lagged == Len(events) - at[u] > Capacity
           event == events[at[u] + 1]
       IN  IF ~lagged /\ event.result
           THEN /\ StageTo(u, "finishing")
                /\ cause' = [cause EXCEPT ![u] = event.turn]
           ELSE UNCHANGED <<stage, cause>>
    /\ UNCHANGED <<activeTurn, busy, childVars, clientVars>>

Complete(u) ==
    /\ stage[u] = "finishing"
    /\ StageTo(u, "emitted")
    /\ UNCHANGED <<activeTurn, busy, at, cause, childVars, clientVars>>

\* clear_active_turn: by thread, whichever turn is registered.
Unregister(u) ==
    /\ stage[u] \in {"failed", "emitted"}
    /\ activeTurn' = NoTurn
    /\ StageTo(u, IF stage[u] = "failed" THEN "unwinding" ELSE "cleared")
    /\ UNCHANGED <<busy, at, cause, childVars, clientVars>>

\* Bug: a prompt that could not be sent leaves the thread marked active.
MarkIdleAfterPump(u) ==
    /\ stage[u] \in {"unwinding", "cleared"}
    /\ busy' = (busy /\ stage[u] = "unwinding")
    /\ StageTo(u, "done")
    /\ UNCHANGED <<activeTurn, at, cause, childVars, clientVars>>

MarkIdle(u) ==
    /\ stage[u] \in {"unwinding", "cleared"}
    /\ busy' = FALSE
    /\ StageTo(u, "done")
    /\ UNCHANGED <<activeTurn, at, cause, childVars, clientVars>>

-----------------------------------------------------------------------------
(* turn/steer and turn/interrupt, by a client that has seen turn/started.  *)

Underway(u) == stage[u] \in {"announced", "subscribed"} \cup Pumping

SteerChecks(u) ==
    /\ Steering /\ steer[u] = "none" /\ Underway(u)
    /\ activeTurn = u
    /\ steer' = [steer EXCEPT ![u] = "checked"]
    /\ UNCHANGED <<stage, activeTurn, busy, at, cause, childVars, interrupt>>

SteerWrites(u) ==
    /\ steer[u] = "checked"
    /\ steer' = [steer EXCEPT ![u] = "sent"]
    /\ stdin' = IF alive THEN Append(stdin, Stray) ELSE stdin
    /\ UNCHANGED <<stage, activeTurn, busy, at, cause, events, alive, working, interrupt>>

\* No registered turn passes the check too.
InterruptChecks(u) ==
    /\ Interrupts /\ interrupt[u] = "none" /\ Underway(u)
    /\ activeTurn \in {u, NoTurn}
    /\ interrupt' = [interrupt EXCEPT ![u] = "checked"]
    /\ UNCHANGED <<stage, activeTurn, busy, at, cause, childVars, steer>>

\* The child acknowledges and aborts what it works on, or is killed because
\* it refused, or did not answer within CONTROL_INTERRUPT_TIMEOUT.
InterruptLands(u) ==
    /\ interrupt[u] = "checked"
    /\ interrupt' = [interrupt EXCEPT ![u] = "sent"]
    /\ \/ /\ alive /\ working # NoTurn
          /\ Emit(working, TRUE)
          /\ working' = NoTurn
          /\ UNCHANGED <<alive, stdin>>
       \/ /\ alive => working = NoTurn
          /\ UNCHANGED childVars
       \/ /\ alive
          /\ Dies
          /\ UNCHANGED events
    /\ UNCHANGED <<stage, activeTurn, busy, at, cause, steer>>

-----------------------------------------------------------------------------
Child == ChildReads \/ ChildFolds \/ ChildStreams \/ ChildFinishes

Handler(u) ==
    \/ OverridesFail(u) \/ Register(u) \/ MarkActive(u) \/ Announce(u)
    \/ Subscribe(u) \/ SendPrompt(u)

Pump(u) == Receive(u) \/ Complete(u) \/ Unregister(u) \/ MarkIdle(u)

Next ==
    \/ Child \/ ChildExits
    \/ \E u \in Turns :
          \/ Start(u) \/ Handler(u) \/ Pump(u)
          \/ SteerChecks(u) \/ SteerWrites(u) \/ InterruptChecks(u) \/ InterruptLands(u)

Spec == Init /\ [][Next]_vars

\* A handler and its pump run on, and the child works on what it reads and
\* comes to its result; deltas are bounded.
FairSpec ==
    /\ Spec
    /\ WF_vars(ChildReads) /\ WF_vars(ChildFinishes)
    /\ \A u \in Turns : WF_vars(Handler(u)) /\ WF_vars(Pump(u))

-----------------------------------------------------------------------------
\* Every turn a client was told has started comes to its turn/completed, or to
\* the error of its turn/start, as long as the child lives: whatever else the
\* child broadcasts, and however far the pump lags behind it.
TurnEnds == []alive => \A u \in Turns : stage[u] = "announced" ~> Over(u)

\* Where a client waits for one turn before it starts the next, no turn is
\* completed by another turn's result, nor by one broadcast before it began --
\* until a steer becomes a turn of its own, because the child had not read the
\* prompt yet or was done with it: a pump takes the first result it gets, and
\* from then on each may be the one before.
SteerTookResult == \E i \in DOMAIN events : events[i] = [turn |-> Stray, result |-> TRUE]

CompletedByOwnResult ==
    Overlap \/ SteerTookResult \/ \A u \in Turns : cause[u] \in {u, NoTurn}

\* Once every turn of a thread has been wound up, nothing keeps the thread
\* from the reaper, and nothing lets a steer through.
QuietIsIdle ==
    (\A u \in Turns : stage[u] \in {"new", "found", "done"}) => ~busy /\ activeTurn = NoTurn

-----------------------------------------------------------------------------
(* What the documentation says, and the code does not do.                  *)

\* turn.rs:295-297: the interrupt "falls back to a hard process kill so the
\* codex client still sees turn/completed{Failed}".  The pump waits for Closed, which
\* its own Arc of the handle rules out: after a kill it waits for ever.
InterruptEnds == \A u \in Turns : interrupt[u] = "sent" ~> Over(u)
=============================================================================
