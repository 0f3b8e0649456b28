----------------------------- MODULE ClaudeEvents -----------------------------
(***************************************************************************)
(* claude-bridge's translate/events.rs: the events of one turn, translated *)
(* one by one into notifications about items.  The child is external: it   *)
(* interleaves the content blocks of its own messages with those of the    *)
(* subagents its Task tools run, and each of these streams counts its      *)
(* blocks from 0 again in every message.                                   *)
(***************************************************************************)
EXTENDS Integers, Sequences, FiniteSets

CONSTANTS
    Blocks,                 \* the content blocks of the turn
    Main,                   \* the stream of the turn's own messages
    Kind,                   \* each block's kind
    StreamOf,               \* Main, or the Task block whose subagent writes it
    MaxIndex,               \* bound of the model: blocks of a message
    Unruly,                 \* may a subagent write before its Task is known?
    MaxLost,                \* bound of the model: blocks that lose an event
    BufferCap,              \* SUBAGENT_BUFFER_CAP_PER_PARENT
    None

Streamed == {"text", "thinking"}
Immediate == {"command", "dynamic"}     \* dynamic: file changes and MCP too
Deferred == {"task", "search"}          \* and plans, explorations
Silent == {"todo", "question"}
Kinds == Streamed \cup Immediate \cup Deferred \cup Silent
Indices == 0 .. MaxIndex

ASSUME ClaudeEventsAssumption ==
    /\ MaxIndex \in Nat /\ MaxLost \in Nat /\ BufferCap \in Nat \ {0}
    /\ Unruly \in BOOLEAN
    /\ None \notin Blocks /\ Main \notin Blocks
    /\ Kind \in [Blocks -> Kinds]
    /\ StreamOf \in [Blocks -> {b \in Blocks : Kind[b] = "task"} \cup {Main}]

VARIABLES
    phase,                  \* how far the child is with each block
    index,                  \* the block's index in its message
    next,                   \* the next index of each stream's message
    texts, thinkings,       \* open_message_items, open_thinking_items
    toolAt,                 \* block_index_to_tool_id
    calls,                  \* open_tool_calls
    echoed,                 \* calls with bash_command_terminated
    parents,                \* subagent_parents
    buffer,                 \* subagent_buffer
    replay,                 \* buffered events the current call has yet to translate
    draining,               \* the parent whose buffered events it is at
    asked,                  \* pending_user_input_requests that were dispatched
    out,                    \* notifications the pump has yet to send
    life, last,             \* what the client was told
    translated,             \* how far the translator is with each block
    lost,                   \* blocks of which an event was lost
    crossed                 \* were two blocks of one index open at once?

childVars == <<phase, index, next>>
tables == <<texts, thinkings, toolAt, calls, echoed, parents, asked>>
history == <<translated, lost, crossed>>
vars == <<childVars, tables, buffer, replay, draining, out, life, last, history>>

Visible == {b \in Blocks : Kind[b] \notin Silent}
Stream == INSTANCE ItemStream
    WITH Items <- Visible, Late <- {b \in Blocks : Kind[b] \in Deferred}

Steps == {"start", "delta", "stop", "answer"}
Event == [step : Steps, block : Blocks, index : Indices]
Phases == {"new", "writing", "written", "answered"}

TypeOK ==
    /\ phase \in [Blocks -> Phases]
    /\ index \in [Blocks -> Indices]
    /\ next \in [Blocks \cup {Main} -> 0 .. MaxIndex + 1]
    /\ texts \in [Indices -> Blocks \cup {None}]
    /\ thinkings \in [Indices -> Blocks \cup {None}]
    /\ toolAt \in [Indices -> Blocks \cup {None}]
    /\ calls \subseteq Blocks /\ echoed \subseteq Blocks
    /\ parents \subseteq Blocks /\ calls = parents
    /\ buffer \in [Blocks -> Seq(Event)]
    /\ \A p \in Blocks : Len(buffer[p]) <= BufferCap
    /\ replay \in [Blocks -> Seq(Event)]
    /\ draining \in Blocks \cup {None}
    /\ asked \in Seq(Blocks)
    /\ out \in Seq(Stream!Note)
    /\ life \in [Visible -> Stream!Lives]
    /\ last \in Stream!Note \cup {Stream!Nothing}
    /\ translated \in [Blocks -> Phases]
    /\ lost \subseteq Blocks
    /\ crossed \in BOOLEAN

Init ==
    /\ phase = [b \in Blocks |-> "new"]
    /\ index = [b \in Blocks |-> 0]
    /\ next = [s \in Blocks \cup {Main} |-> 0]
    /\ texts = [i \in Indices |-> None]
    /\ thinkings = texts
    /\ toolAt = texts
    /\ calls = {} /\ echoed = {} /\ parents = {}
    /\ buffer = [p \in Blocks |-> <<>>]
    /\ replay = buffer
    /\ draining = None
    /\ asked = <<>>
    /\ out = <<>>
    /\ Stream!Init
    /\ translated = phase
    /\ lost = {}
    /\ crossed = FALSE

-----------------------------------------------------------------------------
(* Translating one event.                                                  *)

Say(n, b) == out' = Append(out, [note |-> n, item |-> b])
SayNothing == UNCHANGED out
Has(table, i) == table[i] # None
Without(table, i) == [table EXCEPT ![i] = None]

StartBlock(b, i) ==
    /\ IF Kind[b] \in Streamed \cup Immediate THEN Say("started", b) ELSE SayNothing
    /\ texts' = IF Kind[b] = "text" THEN [texts EXCEPT ![i] = b] ELSE texts
    /\ thinkings' = IF Kind[b] = "thinking" THEN [thinkings EXCEPT ![i] = b] ELSE thinkings
    /\ IF Kind[b] \in Streamed
       THEN UNCHANGED <<toolAt, calls, parents>>
       ELSE /\ toolAt' = [toolAt EXCEPT ![i] = b]
            /\ calls' = calls \cup {b}
            /\ parents' = parents \cup {b}
    /\ UNCHANGED <<echoed, asked>>

\* What is open at an index, for a delta of the given kind of block.
Target(b, i) ==
    CASE Kind[b] = "text" -> texts[i]
      [] Kind[b] = "thinking" -> thinkings[i]
      [] OTHER -> IF toolAt[i] \in calls /\ Kind[toolAt[i]] \in Immediate THEN toolAt[i] ELSE None

AddDelta(b, i) ==
    /\ IF Target(b, i) = None THEN SayNothing ELSE Say("delta", Target(b, i))
    /\ UNCHANGED tables

\* A tool's block has stopped: its input is complete.
StopTool(i) ==
    /\ UNCHANGED <<texts, thinkings, toolAt, calls, parents>>
    /\ IF toolAt[i] \notin calls
       THEN SayNothing /\ UNCHANGED <<echoed, asked>>
       ELSE LET call == toolAt[i] IN
            /\ CASE Kind[call] \in Deferred -> Say("started", call)
                 [] Kind[call] = "command" /\ call \notin echoed -> Say("delta", call)
                 [] OTHER -> SayNothing
            /\ echoed' = IF Kind[call] = "command" THEN echoed \cup {call} ELSE echoed
            /\ asked' = IF Kind[call] = "question" THEN Append(asked, call) ELSE asked

\* Bug: the text item is completed and stays open at its index.
CloseTextKeeps(i) ==
    /\ Say("completed", texts[i])
    /\ UNCHANGED tables

CloseText(i) ==
    /\ Say("completed", texts[i])
    /\ texts' = Without(texts, i)
    /\ UNCHANGED <<thinkings, toolAt, calls, echoed, parents, asked>>

CloseThinking(i) ==
    /\ Say("completed", thinkings[i])
    /\ thinkings' = Without(thinkings, i)
    /\ UNCHANGED <<texts, toolAt, calls, echoed, parents, asked>>

\* Bug: the tool tables are asked first, as if an index named one block for good.
StopBlockToolFirst(i) ==
    IF toolAt[i] \in calls THEN StopTool(i)
    ELSE IF Has(texts, i) THEN CloseText(i)
    ELSE IF Has(thinkings, i) THEN CloseThinking(i)
    ELSE StopTool(i)

\* The event names no block, only the index: text, then thinking, then tool.
StopBlock(i) ==
    IF Has(texts, i) THEN CloseText(i)
    ELSE IF Has(thinkings, i) THEN CloseThinking(i)
    ELSE StopTool(i)

\* The user envelope with the tool's result.
Answer(b) ==
    /\ calls' = calls \ {b}
    /\ parents' = parents \ {b}
    /\ toolAt' = [i \in Indices |-> IF b \in calls /\ toolAt[i] = b THEN None ELSE toolAt[i]]
    /\ IF b \in calls /\ Kind[b] \notin Silent THEN Say("completed", b) ELSE SayNothing
    /\ UNCHANGED <<texts, thinkings, echoed, asked>>

TranslateOne(e) ==
    CASE e.step = "start" -> StartBlock(e.block, e.index)
      [] e.step = "delta" -> AddDelta(e.block, e.index)
      [] e.step = "stop" -> StopBlock(e.index)
      [] e.step = "answer" -> Answer(e.block)

-----------------------------------------------------------------------------
(* The history of what was translated.                                     *)

\* Two blocks of one index at once, or an event of a block that never started.
Crosses(e) ==
    \/ /\ e.step = "start"
       /\ \E b \in Blocks : translated[b] = "writing" /\ index[b] = e.index
    \/ e.step \in {"delta", "stop"} /\ translated[e.block] # "writing"

PhaseAfter(step) ==
    CASE step \in {"start", "delta"} -> "writing"
      [] step = "stop" -> "written"
      [] step = "answer" -> "answered"

Record(e) ==
    /\ translated' = [translated EXCEPT ![e.block] = PhaseAfter(e.step)]
    /\ crossed' = (crossed \/ Crosses(e))

-----------------------------------------------------------------------------
(* translate(): one call per event, and the pump sends what it returned.   *)

\* Bug: the newest buffered event is put first.
BufferedFront(p, e) ==
    IF Len(buffer[p]) >= BufferCap THEN <<e>> \o Tail(buffer[p]) ELSE <<e>> \o buffer[p]

Buffered(p, e) ==
    IF Len(buffer[p]) >= BufferCap THEN Append(Tail(buffer[p]), e) ELSE Append(buffer[p], e)

Keep(e) ==
    LET p == StreamOf[e.block] IN
    /\ buffer' = [buffer EXCEPT ![p] = Buffered(p, e)]
    /\ lost' = IF Len(buffer[p]) >= BufferCap THEN lost \cup {buffer[p][1].block} ELSE lost
    /\ UNCHANGED <<tables, replay, out, translated, crossed>>

\* drain_known_subagent_buffer, and gc_subagent_buffer, which drops what has
\* waited for too long.
DrainAndCollect ==
    LET held == {p \in Blocks : buffer[p] # <<>>}
        known == held \cap parents'
    IN  \E stale \in SUBSET (held \ known) :
          /\ Cardinality(lost) < MaxLost \/ stale = {}
          /\ buffer' = [p \in Blocks |-> IF p \in known \cup stale THEN <<>> ELSE buffer[p]]
          /\ replay' = [p \in Blocks |-> IF p \in known THEN buffer[p] ELSE <<>>]
          /\ lost' = lost \cup {b \in Blocks : \E p \in stale : \E i \in DOMAIN buffer[p] :
                                                  buffer[p][i].block = b}

Translate(e) ==
    IF StreamOf[e.block] \notin parents \cup {Main}
    THEN Keep(e)
    ELSE TranslateOne(e) /\ Record(e) /\ DrainAndCollect

\* The buffered events, one parent's after another's in the order of a hash map.
Replay(p) ==
    /\ out = <<>> /\ replay[p] # <<>>
    /\ draining \in {p, None}
    /\ draining' = IF Len(replay[p]) = 1 THEN None ELSE p
    /\ TranslateOne(Head(replay[p])) /\ Record(Head(replay[p]))
    /\ replay' = [replay EXCEPT ![p] = Tail(@)]
    /\ UNCHANGED <<childVars, buffer, life, last, lost>>

\* The pump sends, the client learns.
Deliver ==
    /\ out # <<>>
    /\ last' = Head(out)
    /\ life' = CASE Head(out).note = "started" -> [life EXCEPT ![Head(out).item] = "open"]
                 [] Head(out).note = "completed" -> [life EXCEPT ![Head(out).item] = "done"]
                 [] OTHER -> life
    /\ out' = Tail(out)
    /\ UNCHANGED <<childVars, tables, buffer, replay, draining, history>>

Idle == out = <<>> /\ \A p \in Blocks : replay[p] = <<>>

\* An event of the child, which the pump gets, or lags behind and skips.  The
\* pump takes it when it has sent all of the call before.
Receive(step, b, i) ==
    /\ Idle
    /\ \/ Translate([step |-> step, block |-> b, index |-> i])
       \/ /\ Cardinality(lost) < MaxLost
          /\ lost' = lost \cup {b}
          /\ UNCHANGED <<tables, buffer, replay, out, translated, crossed>>
    /\ UNCHANGED <<draining, life, last>>

-----------------------------------------------------------------------------
(* The child's streams.                                                    *)

Running(s) == s # Main /\ ~Unruly => phase[s] = "written"

\* The next block of the stream's message, or the first of its next message.
BlockStarts(b) ==
    LET s == StreamOf[b] IN
    /\ phase[b] = "new" /\ Running(s)
    /\ \A w \in Blocks : StreamOf[w] = s => phase[w] # "writing"
    /\ phase' = [phase EXCEPT ![b] = "writing"]
    /\ \E i \in {0, next[s]} \cap Indices :
          /\ index' = [index EXCEPT ![b] = i]
          /\ next' = [next EXCEPT ![s] = i + 1]
          /\ Receive("start", b, i)

BlockGrows(b) ==
    /\ phase[b] = "writing"
    /\ Receive("delta", b, index[b])
    /\ UNCHANGED childVars

BlockStops(b) ==
    /\ phase[b] = "writing"
    /\ phase' = [phase EXCEPT ![b] = "written"]
    /\ Receive("stop", b, index[b])
    /\ UNCHANGED <<index, next>>

\* A Task is answered when its subagent is done.
ToolAnswered(b) ==
    /\ Kind[b] \notin Streamed /\ phase[b] = "written"
    /\ \A w \in Blocks : StreamOf[w] = b /\ ~Unruly => phase[w] # "writing"
    /\ phase' = [phase EXCEPT ![b] = "answered"]
    /\ Receive("answer", b, index[b])
    /\ UNCHANGED <<index, next>>

Next ==
    \/ \E b \in Blocks :
          BlockStarts(b) \/ BlockGrows(b) \/ BlockStops(b) \/ ToolAnswered(b)
    \/ \E p \in Blocks : Replay(p)
    \/ Deliver

Spec == Init /\ [][Next]_vars

-----------------------------------------------------------------------------
\* Whatever is lost, delayed or interleaved, a client never sees an item started
\* again once it is over, added to before it started or after it is over, or
\* completed twice; and only a tool announced when its block stops may be
\* announced twice or not at all.
ItemsStream == Stream!Spec

\* As long as no two blocks of one index were open together, a block every
\* event of which was translated leaves nothing open: its item is done once
\* the block (of a tool: its answer) is.
Settled(b) ==
    /\ b \notin lost /\ b \in Visible
    /\ translated[b] = IF Kind[b] \in Streamed THEN "written" ELSE "answered"

SettledIsDone == ~crossed /\ out = <<>> => \A b \in Blocks : Settled(b) => life[b] = "done"

\* A question is put to the user once.
AskedOnce == ~crossed => \A i, j \in DOMAIN asked : asked[i] = asked[j] => i = j

\* The events of a block are translated in the order the child sent them, those
\* that waited for their parent included, unless one was lost.
Order == [new |-> 0, writing |-> 1, written |-> 2, answered |-> 3]

InOrder ==
    [][\A b \in Blocks : b \in lost' \/ Order[translated'[b]] - Order[translated[b]] \in {0, 1}]_vars
=============================================================================
