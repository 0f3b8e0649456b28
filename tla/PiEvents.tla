------------------------------- MODULE PiEvents -------------------------------
(***************************************************************************)
(* pi-bridge's translate/events.rs: what the bridge tells the client for   *)
(* each event of a pi process, as a function of the translator's state and *)
(* the event.  A message is named by what its item id is made of, the turn *)
(* and the message's timestamp; its reasoning item shares that name.       *)
(***************************************************************************)
EXTENDS Sequences

CONSTANT NoItem

MessageItem(m) == <<"message", m>>
ReasoningItem(m) == <<"reasoning", m>>
ToolItem(t) == <<"tool", t>>
CompactionItem(c) == <<"compaction", c>>

Started(i) == <<[note |-> "started", item |-> i]>>
Delta(i) == <<[note |-> "delta", item |-> i]>>
Completed(i) == <<[note |-> "completed", item |-> i]>>

\* open_message_item with its two flags, open_reasoning_item, open_tool_calls,
\* open_compaction_item_id.
Fresh == [message |-> NoItem, started |-> FALSE, saw |-> FALSE,
          reasoning |-> NoItem, tools |-> {}, compaction |-> NoItem]

Nothing(s) == [state |-> s, notes |-> <<>>]
Gives(s, notes) == [state |-> s, notes |-> notes]

Closed(s) == [s EXCEPT !.message = NoItem, !.started = FALSE, !.saw = FALSE]

MessageStart(s, e) ==
    Gives([s EXCEPT !.message = e.id, !.started = e.text, !.saw = FALSE],
          IF e.text THEN Started(MessageItem(e.id)) ELSE <<>>)

\* The item a delta belongs to: the open one, whichever message that is.
MessageOf(s, e) == IF s.message = NoItem THEN e.id ELSE s.message

StartedNow(s, m) == IF s.started THEN <<>> ELSE Started(MessageItem(m))

TextDelta(s, e) ==
    LET m == MessageOf(s, e) IN
    Gives([s EXCEPT !.message = m, !.started = TRUE, !.saw = TRUE],
          StartedNow(s, m) \o Delta(MessageItem(m)))

\* Without a delta before it the text is sent whole.
TextEnd(s, e) == IF ~e.text \/ s.saw THEN Nothing(s) ELSE TextDelta(s, e)

ThinkingStart(s, e) ==
    Gives([s EXCEPT !.reasoning = e.id], Started(ReasoningItem(e.id)))

ThinkingDelta(s) ==
    IF s.reasoning = NoItem THEN Nothing(s) ELSE Gives(s, Delta(ReasoningItem(s.reasoning)))

ThinkingEnd(s) ==
    IF s.reasoning = NoItem THEN Nothing(s)
    ELSE Gives([s EXCEPT !.reasoning = NoItem], Completed(ReasoningItem(s.reasoning)))

\* An empty message that was never started leaves no trace.
MessageEnd(s, e) ==
    IF s.message = NoItem \/ (~s.started /\ ~e.text) THEN Nothing(Closed(s))
    ELSE Gives(Closed(s),
               StartedNow(s, s.message)
               \o (IF ~s.saw /\ e.text THEN Delta(MessageItem(s.message)) ELSE <<>>)
               \o Completed(MessageItem(s.message)))

ToolStart(s, e) ==
    Gives([s EXCEPT !.tools = @ \cup {e.id}], Started(ToolItem(e.id)))

ToolUpdate(s, e) ==
    IF e.id \in s.tools THEN Gives(s, Delta(ToolItem(e.id))) ELSE Nothing(s)

\* Bug: the end of a tool that is not open is completed all the same.
ToolEndAlways(s, e) ==
    Gives([s EXCEPT !.tools = @ \ {e.id}], Completed(ToolItem(e.id)))

ToolEnd(s, e) ==
    IF e.id \in s.tools
    THEN Gives([s EXCEPT !.tools = @ \ {e.id}], Completed(ToolItem(e.id)))
    ELSE Nothing(s)

CompactionStart(s, e) ==
    Gives([s EXCEPT !.compaction = e.id], Started(CompactionItem(e.id)))

CompactionEnd(s) ==
    IF s.compaction = NoItem THEN Nothing(s)
    ELSE Gives([s EXCEPT !.compaction = NoItem], Completed(CompactionItem(s.compaction)))

\* Bug: a message cut short by the end of the run is left open.
AgentEndKeepsMessage(s) ==
    Gives([Closed(s) EXCEPT !.reasoning = NoItem],
          IF s.reasoning = NoItem THEN <<>> ELSE Completed(ReasoningItem(s.reasoning)))

\* Tools and compactions are not closed.
AgentEnd(s) ==
    Gives([Closed(s) EXCEPT !.reasoning = NoItem],
          (IF s.started THEN Completed(MessageItem(s.message)) ELSE <<>>)
          \o (IF s.reasoning = NoItem THEN <<>> ELSE Completed(ReasoningItem(s.reasoning))))

Translate(s, e) ==
    CASE e.kind = "message_start" -> MessageStart(s, e)
      [] e.kind = "text_delta" -> TextDelta(s, e)
      [] e.kind = "text_end" -> TextEnd(s, e)
      [] e.kind = "thinking_start" -> ThinkingStart(s, e)
      [] e.kind = "thinking_delta" -> ThinkingDelta(s)
      [] e.kind = "thinking_end" -> ThinkingEnd(s)
      [] e.kind = "message_end" -> MessageEnd(s, e)
      [] e.kind \in {"bash_start", "tool_start"} -> ToolStart(s, e)
      [] e.kind = "tool_update" -> ToolUpdate(s, e)
      [] e.kind = "tool_end" -> ToolEnd(s, e)
      [] e.kind = "compaction_start" -> CompactionStart(s, e)
      [] e.kind = "compaction_end" -> CompactionEnd(s)
      [] e.kind = "agent_end" -> AgentEnd(s)
=============================================================================
