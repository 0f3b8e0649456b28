-------------------------------- MODULE PiTurn --------------------------------
(***************************************************************************)
(* The turns of one pi-bridge thread: handlers/turn.rs over the process of *)
(* pool/process.rs and the translator PiEvents.  A turn is a handler, which *)
(* asks pi twice and waits for the responses, and then a pump, which waits *)
(* inline for the client whenever pi runs a command that needs approval,   *)
(* while pi runs on and the event channel fills.                           *)
(***************************************************************************)
EXTENDS Integers, Sequences

CONSTANTS
    Turns, None,            \* the turns, numbered as the client starts them
    Script,                 \* the events of each turn's run, were it not cut
    Exits,                  \* may the pi process end?
    Interruptible,          \* turns the client may interrupt
    Capacity                \* EVENT_CHANNEL_CAPACITY

ASSUME PiTurnAssumption ==
    /\ Turns \subseteq Nat /\ None \notin Turns
    /\ Exits \in BOOLEAN
    /\ Interruptible \subseteq Turns
    /\ Capacity \in Nat \ {0}

Ids == UNION {{Script[u][k].id : k \in DOMAIN Script[u]} : u \in Turns}

Kinds == {"message_start", "text_delta", "text_end", "message_end",
          "thinking_start", "thinking_delta", "thinking_end",
          "bash_start", "tool_start", "tool_update", "tool_end",
          "compaction_start", "compaction_end", "agent_end"}
Event == [kind : Kinds, id : Ids, text : BOOLEAN]

OfMessage(e) == e.kind \in {"message_start", "text_delta", "text_end", "message_end"}
ToolStarts(e) == e.kind \in {"bash_start", "tool_start"}

\* What pi sends in a run that is not cut: agent_end last and only last; a message
\* from its one start to its end, and only then the next; a tool started once, and
\* ended later; a compaction started once.
Regular(run) ==
    /\ run # <<>>
    /\ \A k \in DOMAIN run : run[k].kind = "agent_end" <=> k = Len(run)
    /\ \A i, j \in DOMAIN run : i < j =>
          /\ OfMessage(run[i]) /\ OfMessage(run[j]) =>
                IF run[i].id = run[j].id
                THEN run[i].kind # "message_end" /\ run[j].kind # "message_start"
                ELSE \E k \in i .. j - 1 :
                        run[k].kind = "message_end" /\ run[k].id = run[i].id
          /\ ToolStarts(run[i]) /\ ToolStarts(run[j]) => run[i].id # run[j].id
          /\ run[i].kind = "compaction_start" /\ run[j].kind = "compaction_start" =>
                run[i].id # run[j].id
    /\ \A i \in DOMAIN run : ToolStarts(run[i]) =>
          \E k \in DOMAIN run : i < k /\ run[k].kind = "tool_end" /\ run[k].id = run[i].id

\* No two turns have an id in common: that of a message or its reasoning is made
\* of the turn's index and the message's time, a tool's is the model's, and a
\* compaction's is drawn.
ASSUME PiRunAssumption ==
    /\ None \notin Ids /\ None \notin Event
    /\ \A u \in Turns : Script[u] \in Seq(Event) /\ Regular(Script[u])
    /\ \A u, w \in Turns : \A j \in DOMAIN Script[u], k \in DOMAIN Script[w] :
          Script[u][j].id = Script[w][k].id => u = w

Pi == INSTANCE PiEvents WITH NoItem <- None

VARIABLES
    stage,                  \* control state of each turn's handler and pump
    slot,                   \* the thread's entry in ACTIVE_TURNS
    busy,                   \* active flag of the thread's pool entry
    alive,                  \* is pi running?
    working, position,      \* the turn pi works on, and how far it is
    cut,                    \* turns whose run was aborted
    queue,                  \* what each turn's receiver has yet to get
    skipped,                \* turns whose pump has lagged
    held,                   \* the event whose approval a pump waits for
    translator,             \* EventTranslatorState of each pump
    out,                    \* notifications a pump has yet to send
    interrupt,              \* progress of a turn's one turn/interrupt request
    life, last              \* what the client was told about the items

piVars == <<alive, working, position, cut>>
pumpVars == <<queue, skipped, held, translator, out>>
clientVars == <<life, last>>
vars == <<stage, slot, busy, piVars, pumpVars, interrupt, clientVars>>

Items == {"message", "reasoning", "tool", "compaction"} \X Ids
Stream == INSTANCE ItemStream WITH Late <- {}

Pumping == {"pumping", "asking", "aborting", "finishing"}
Subscribed == {"prompting", "accepted"} \cup Pumping
Stages == {"new", "indexing", "indexed", "registered", "announced", "prompting",
           "accepted", "refused", "unwinding", "emitted", "cleared", "done",
           "abandoned", "stuck"} \cup Pumping

TypeOK ==
    /\ stage \in [Turns -> Stages]
    /\ slot \in Turns \cup {None}
    /\ busy \in BOOLEAN
    /\ alive \in BOOLEAN
    /\ working \in Turns \cup {None} /\ position \in Nat
    /\ cut \subseteq Turns /\ skipped \subseteq Turns
    /\ \A u \in Turns : queue[u] # <<>> => stage[u] \in Subscribed \cup {"refused", "stuck"}
    /\ \A u \in Turns : held[u] # None <=> stage[u] \in {"asking", "aborting"}
    /\ interrupt \in [Turns -> {"none", "checked", "sent"}]

Init ==
    /\ stage = [u \in Turns |-> "new"]
    /\ slot = None
    /\ busy = FALSE
    /\ alive = TRUE
    /\ working = None /\ position = 1
    /\ cut = {}
    /\ queue = [u \in Turns |-> <<>>]
    /\ skipped = {}
    /\ held = [u \in Turns |-> None]
    /\ translator = [u \in Turns |-> Pi!Fresh]
    /\ out = [u \in Turns |-> <<>>]
    /\ interrupt = [u \in Turns |-> "none"]
    /\ Stream!Init

-----------------------------------------------------------------------------
(* The pi process.                                                         *)

\* The next event of the run, or of an aborted run the last.
PiEmits ==
    /\ alive /\ working # None
    /\ \E k \in position .. Len(Script[working]) :
          /\ k = position \/ (working \in cut /\ k = Len(Script[working]))
          /\ queue' = [u \in Turns |->
                 IF stage[u] \in Subscribed
                 THEN Append(queue[u], Script[working][k])
                 ELSE queue[u]]
          /\ IF k = Len(Script[working])
             THEN working' = None /\ position' = 1
             ELSE working' = working /\ position' = k + 1
    /\ UNCHANGED <<stage, slot, busy, alive, cut, skipped, held, translator, out,
                   interrupt, clientVars>>

PiExits ==
    /\ Exits /\ alive
    /\ alive' = FALSE
    /\ working' = None
    /\ position' = 1
    /\ UNCHANGED <<stage, slot, busy, cut, pumpVars, interrupt, clientVars>>

\* What a request ends in when pi has gone: the reader's last act drops those
\* that wait, or the closed writer refuses it; or neither, if the reader was
\* aborted or had ended before, and the writer has not noticed yet.
NeverAnswered(u) == stage' = [stage EXCEPT ![u] = "stuck"]

-----------------------------------------------------------------------------
(* turn/start.                                                             *)

StageTo(u, next) == stage' = [stage EXCEPT ![u] = next]

\* To the client a turn is over once turn/completed, or an error, was sent.
Over(u) == stage[u] \in {"new", "emitted", "cleared", "done", "abandoned"}

\* The thread's handle; the overrides and get_messages are sent to pi.
Start(u) ==
    /\ stage[u] = "new" /\ \A w \in Turns : w < u => stage[w] # "new"
    /\ \A w \in Turns : Over(w)
    /\ StageTo(u, "indexing")
    /\ UNCHANGED <<slot, busy, piVars, pumpVars, interrupt, clientVars>>

Index(u) ==
    /\ stage[u] = "indexing"
    /\ \/ alive /\ StageTo(u, "indexed")
       \/ StageTo(u, "done")
       \/ ~alive /\ NeverAnswered(u)
    /\ UNCHANGED <<slot, busy, piVars, pumpVars, interrupt, clientVars>>

Register(u) ==
    /\ stage[u] = "indexed"
    /\ slot' = u
    /\ StageTo(u, "registered")
    /\ UNCHANGED <<busy, piVars, pumpVars, interrupt, clientVars>>

\* And turn/started and the echoed user message go out.
MarkActive(u) ==
    /\ stage[u] = "registered"
    /\ busy' = TRUE
    /\ StageTo(u, "announced")
    /\ UNCHANGED <<slot, piVars, pumpVars, interrupt, clientVars>>

\* subscribe_events, then the prompt.
SendPrompt(u) ==
    /\ stage[u] = "announced"
    /\ StageTo(u, "prompting")
    /\ UNCHANGED <<slot, busy, piVars, pumpVars, interrupt, clientVars>>

\* Pi acknowledges and runs, or refuses: it works on another prompt, or its own
\* checks fail.
PiPrompted(u) ==
    /\ stage[u] = "prompting" /\ alive
    /\ \/ /\ working = None
          /\ working' = u
          /\ StageTo(u, "accepted")
       \/ StageTo(u, "refused") /\ UNCHANGED working
    /\ UNCHANGED <<slot, busy, alive, position, cut, pumpVars, interrupt, clientVars>>

\* The transport fails: the handler returns at once.
PromptLost(u) ==
    /\ stage[u] = "prompting" /\ ~alive
    /\ StageTo(u, "abandoned") \/ NeverAnswered(u)
    /\ UNCHANGED <<slot, busy, piVars, pumpVars, interrupt, clientVars>>

\* The response is there: the pump is spawned.
SpawnPump(u) ==
    /\ stage[u] = "accepted"
    /\ StageTo(u, "pumping")
    /\ UNCHANGED <<slot, busy, piVars, pumpVars, interrupt, clientVars>>

-----------------------------------------------------------------------------
(* The event pump.                                                         *)

Handle(u, e) ==
    LET r == Pi!Translate(translator[u], e) IN
    /\ translator' = [translator EXCEPT ![u] = r.state]
    /\ out' = [out EXCEPT ![u] = r.notes]

\* One recv().  It never gives Closed: the pump's own Arc of the handle keeps a
\* sender of the channel.
Receive(u) ==
    /\ stage[u] = "pumping" /\ out[u] = <<>>
    /\ Len(queue[u]) \in 1 .. Capacity
    /\ queue' = [queue EXCEPT ![u] = Tail(@)]
    /\ LET next == Head(queue[u]) IN
       IF next.kind = "bash_start"
       THEN /\ StageTo(u, "asking")
            /\ held' = [held EXCEPT ![u] = next]
            /\ UNCHANGED <<translator, out>>
       ELSE /\ Handle(u, next)
            /\ IF next.kind = "agent_end" THEN StageTo(u, "finishing") ELSE UNCHANGED stage
            /\ UNCHANGED held
    /\ UNCHANGED <<slot, busy, piVars, skipped, interrupt, clientVars>>

\* Bug: a receiver that lags is moved past everything that was broadcast.
LagPastAll(u) == <<>>

\* The oldest events are overwritten.
Remaining(u) == SubSeq(queue[u], Len(queue[u]) - Capacity + 1, Len(queue[u]))

Lag(u) ==
    /\ stage[u] = "pumping" /\ out[u] = <<>>
    /\ Len(queue[u]) > Capacity
    /\ queue' = [queue EXCEPT ![u] = Remaining(u)]
    /\ skipped' = skipped \cup {u}
    /\ UNCHANGED <<stage, slot, busy, piVars, held, translator, out,
                   interrupt, clientVars>>

\* Whatever the verdict, the command's item is shown; a cancel aborts the run
\* first.  No answer is an error, or a timeout after five minutes.
Show(u) ==
    /\ StageTo(u, "pumping")
    /\ Handle(u, held[u])
    /\ held' = [held EXCEPT ![u] = None]

Verdict(u) ==
    /\ stage[u] = "asking"
    /\ \/ Show(u)
       \/ StageTo(u, "aborting") /\ UNCHANGED <<held, translator, out>>
    /\ UNCHANGED <<slot, busy, piVars, queue, skipped, interrupt, clientVars>>

Aborted == cut' = IF working = None THEN cut ELSE cut \cup {working}

\* send_request(Abort), whose outcome is ignored.
AbortRun(u) ==
    /\ stage[u] = "aborting"
    /\ \/ Show(u)
       \/ /\ ~alive
          /\ NeverAnswered(u)
          /\ held' = [held EXCEPT ![u] = None]
          /\ UNCHANGED <<translator, out>>
    /\ Aborted
    /\ UNCHANGED <<slot, busy, alive, working, position, queue, skipped,
                   interrupt, clientVars>>

Deliver(u) ==
    /\ out[u] # <<>>
    /\ last' = Head(out[u])
    /\ life' = CASE Head(out[u]).note = "started" -> [life EXCEPT ![Head(out[u]).item] = "open"]
                 [] Head(out[u]).note = "completed" -> [life EXCEPT ![Head(out[u]).item] = "done"]
                 [] OTHER -> life
    /\ out' = [out EXCEPT ![u] = Tail(@)]
    /\ UNCHANGED <<stage, slot, busy, piVars, queue, skipped, held, translator,
                   interrupt>>

Complete(u) ==
    /\ stage[u] = "finishing" /\ out[u] = <<>>
    /\ StageTo(u, "emitted")
    /\ translator' = [translator EXCEPT ![u] = Pi!Fresh]
    /\ queue' = [queue EXCEPT ![u] = <<>>]
    /\ UNCHANGED <<slot, busy, piVars, skipped, held, out, interrupt, clientVars>>

\* clear_active_turn: by thread, whichever turn is registered.
Unregister(u) ==
    /\ stage[u] \in {"refused", "emitted"}
    /\ slot' = None
    /\ StageTo(u, IF stage[u] = "refused" THEN "unwinding" ELSE "cleared")
    /\ UNCHANGED <<busy, piVars, pumpVars, interrupt, clientVars>>

\* Bug: a refused prompt leaves the thread marked active.
MarkIdleAfterPump(u) ==
    /\ stage[u] \in {"unwinding", "cleared"}
    /\ busy' = (busy /\ stage[u] = "unwinding")
    /\ StageTo(u, "done")
    /\ UNCHANGED <<slot, piVars, pumpVars, interrupt, clientVars>>

MarkIdle(u) ==
    /\ stage[u] \in {"unwinding", "cleared"}
    /\ busy' = FALSE
    /\ StageTo(u, "done")
    /\ UNCHANGED <<slot, piVars, pumpVars, interrupt, clientVars>>

-----------------------------------------------------------------------------
(* turn/interrupt, by a client that has seen turn/started.                 *)

InterruptChecks(u) ==
    /\ u \in Interruptible /\ interrupt[u] = "none"
    /\ stage[u] \in {"announced", "prompting", "accepted"} \cup Pumping
    /\ slot \in {u, None}
    /\ interrupt' = [interrupt EXCEPT ![u] = "checked"]
    /\ UNCHANGED <<stage, slot, busy, piVars, pumpVars, clientVars>>

InterruptLands(u) ==
    /\ interrupt[u] = "checked"
    /\ interrupt' = [interrupt EXCEPT ![u] = "sent"]
    /\ Aborted
    /\ UNCHANGED <<stage, slot, busy, alive, working, position, pumpVars, clientVars>>

-----------------------------------------------------------------------------
Handler(u) ==
    \/ Index(u) \/ Register(u) \/ MarkActive(u) \/ SendPrompt(u)
    \/ PiPrompted(u) \/ PromptLost(u) \/ SpawnPump(u)

Pump(u) ==
    \/ Receive(u) \/ Lag(u) \/ Verdict(u) \/ AbortRun(u) \/ Deliver(u)
    \/ Complete(u) \/ Unregister(u) \/ MarkIdle(u)

Next ==
    \/ PiEmits \/ PiExits
    \/ \E u \in Turns :
          \/ Start(u) \/ Handler(u) \/ Pump(u)
          \/ InterruptChecks(u) \/ InterruptLands(u)

Spec == Init /\ [][Next]_vars

\* A handler and its pump run on; pi answers and comes to its agent_end; the
\* wait for an approval is timed.
FairSpec ==
    /\ Spec
    /\ WF_vars(PiEmits)
    /\ \A u \in Turns : WF_vars(Handler(u)) /\ WF_vars(Pump(u))

-----------------------------------------------------------------------------
\* However far a pump lags while it waits for an approval, and wherever a run is
\* cut: every item is started once, added to only while it is open, and completed
\* once.
ItemsStream == Stream!Spec

\* A pump that got every event leaves no message and no reasoning of its turn
\* open, and no tool either unless the run was cut.
ClosedAtEnd ==
    \A u \in Turns : stage[u] \in {"emitted", "cleared", "done"} /\ u \notin skipped =>
        \A k \in DOMAIN Script[u] : \A type \in {"message", "reasoning", "tool"} :
            (type = "tool" => u \notin cut) => life[<<type, Script[u][k].id>>] # "open"

\* Every turn the client was told has started comes to its turn/completed, or to
\* the error of its turn/start, as long as pi lives.
TurnEnds == \A u \in Turns : stage[u] = "announced" ~> Over(u) \/ ~alive

\* Once every turn is wound up nothing keeps the thread from the reaper -- as
\* long as pi has answered every prompt.
QuietIsIdle ==
    alive /\ (\A u \in Turns : stage[u] \in {"new", "indexing", "indexed", "done"}) =>
        ~busy /\ slot = None

-----------------------------------------------------------------------------
\* turn.rs:137: the pool entry is marked active "so the LRU reaper doesn't snipe a
\* turn mid-flight".  A turn that has ended clears the mark of the next one.
ActiveMidFlight ==
    \A u \in Turns : stage[u] \in {"accepted"} \cup Pumping => busy
=============================================================================
