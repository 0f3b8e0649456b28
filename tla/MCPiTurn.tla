------------------------------ MODULE MCPiTurn ------------------------------
(* PiTurn for TLC.  The first turn compacts its context, thinks, writes,   *)
(* and runs a command; the second answers in one piece.                    *)
EXTENDS PiTurn

E(kind, id, text) == [kind |-> kind, id |-> id, text |-> text]

Working ==
    << E("compaction_start", "c", FALSE), E("compaction_end", "c", FALSE),
       E("message_start", "a", FALSE), E("thinking_start", "a", FALSE),
       E("thinking_end", "a", FALSE), E("text_delta", "a", TRUE),
       E("message_end", "a", TRUE), E("bash_start", "b", FALSE),
       E("tool_update", "b", FALSE), E("tool_end", "b", FALSE),
       E("agent_end", "a", FALSE) >>

Answering ==
    << E("message_start", "d", FALSE), E("text_end", "d", TRUE), E("message_end", "d", TRUE),
       E("agent_end", "d", FALSE) >>

\* A message with two blocks of thought, which share its id.
Pondering ==
    << E("message_start", "a", FALSE), E("thinking_start", "a", FALSE),
       E("thinking_end", "a", FALSE), E("thinking_start", "a", FALSE),
       E("thinking_end", "a", FALSE), E("text_delta", "a", TRUE),
       E("message_end", "a", TRUE), E("agent_end", "a", FALSE) >>

MCTurns == 1 .. 2
MCInterruptible == {1}
MCScript == <<Working, Answering>>
MCTwiceScript == <<Pondering, Answering>>
=============================================================================
