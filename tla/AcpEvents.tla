------------------------------ MODULE AcpEvents ------------------------------
(***************************************************************************)
(* acp-bridge's TurnStreamEmitter (streaming.rs): what the client is told  *)
(* for each session/update of a turn, and the items that are kept.  A note *)
(* has a kind, the tool it is about, a body, and whether the status it     *)
(* carries is a terminal one.                                              *)
(***************************************************************************)
EXTENDS Integers, Sequences, SequencesExt

CONSTANT NoRun

TextKinds == {"agent", "reasoning"}

ASSUME AcpEventsAssumption == NoRun \notin TextKinds \X Nat

TextItem(kind, n) == <<kind, n>>
ToolItem(t) == <<"tool", t>>

\* items in stream order; of the text run its item and what it has accumulated; of
\* tool_calls who was announced, not completed, and has a terminal status; and what
\* was sent.
Fresh == [items |-> <<>>, run |-> NoRun, accumulated |-> <<>>, textSeq |-> 0,
          tools |-> {}, open |-> {}, ended |-> {}, sent |-> <<>>]

Send(e, what, item, body) ==
    [e EXCEPT !.sent = Append(@, [note |-> what, item |-> item, body |-> body])]

PushItem(e, item, body) == [e EXCEPT !.items = Append(@, [item |-> item, body |-> body])]

ReplaceItem(e, item, body) ==
    [e EXCEPT !.items = [k \in DOMAIN @ |->
        IF @[k].item = item THEN [item |-> item, body |-> body] ELSE @[k]]]

\* Bug: a run that is closed is not kept.
FlushUnkept(e) ==
    IF e.run = NoRun THEN e
    ELSE [Send(e, "completed", e.run, e.accumulated) EXCEPT !.run = NoRun, !.accumulated = <<>>]

FlushText(e) ==
    IF e.run = NoRun THEN e
    ELSE [Send(PushItem(e, e.run, e.accumulated), "completed", e.run, e.accumulated)
              EXCEPT !.run = NoRun, !.accumulated = <<>>]

\* A chunk of another kind than the open run closes it and opens its own.
OpenRun(e, kind) ==
    IF e.run # NoRun /\ e.run[1] = kind THEN e
    ELSE [Send(FlushText(e), "started", TextItem(kind, e.textSeq), <<>>)
              EXCEPT !.run = TextItem(kind, e.textSeq), !.textSeq = @ + 1]

HandleText(e, n) ==
    LET o == OpenRun(e, n.kind) IN
    [Send(o, "delta", o.run, <<n.body>>) EXCEPT !.accumulated = Append(@, n.body)]

HandleToolCall(e, n) ==
    LET item == ToolItem(n.tool) IN
    [PushItem(Send(e, "started", item, <<n.body>>), item, <<n.body>>) EXCEPT
        !.tools = @ \cup {n.tool},
        !.open = @ \cup {n.tool},
        !.ended = IF n.terminal THEN @ \cup {n.tool} ELSE @]

BodyOf(e, item) == e.items[SelectLastInSeq(e.items, LAMBDA i : i.item = item)].body

\* An update of a tool that was not announced announces it, and is then merged all the
\* same.  The status that decides is the merged one.
HandleToolCallUpdate(e, n) ==
    LET a == IF n.tool \in e.tools THEN e ELSE HandleToolCall(e, n)
        item == ToolItem(n.tool)
        body == Append(BodyOf(a, item), n.body)
        m == ReplaceItem(a, item, body)
    IN  IF n.terminal \/ n.tool \in a.ended
        THEN [Send(m, "completed", item, body) EXCEPT
                 !.open = @ \ {n.tool}, !.ended = @ \cup {n.tool}]
        ELSE m

Ingest(e, n) ==
    CASE n.kind \in TextKinds -> HandleText(e, n)
      [] n.kind = "tool_call" -> HandleToolCall(FlushText(e), n)
      [] n.kind = "tool_call_update" -> HandleToolCallUpdate(FlushText(e), n)
      [] n.kind \in {"user", "plan"} -> FlushText(e)
      [] OTHER -> e

CompleteAll(e, order) ==
    [e EXCEPT !.sent = @ \o [k \in 1 .. Len(order) |->
        [note |-> "completed", item |-> ToolItem(order[k]),
         body |-> BodyOf(e, ToolItem(order[k]))]]]

\* Bug: the end of the turn completes all its tools.
FinishAll(e, order) == CompleteAll(FlushText(e), SetToSeq(e.tools))

\* The tools the agent has left open are completed, in any order.
Finish(e, order) == CompleteAll(FlushText(e), order)
=============================================================================
