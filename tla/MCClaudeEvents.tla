--------------------------- MODULE MCClaudeEvents ---------------------------
(* ClaudeEvents for TLC: a Task whose subagent writes a text and runs a    *)
(* command, beside a question of the turn itself.                          *)
EXTENDS ClaudeEvents, TLC

CONSTANTS task, ask, text, bash

MCBlocks == {task, ask, text, bash}
MCKind == (task :> "task") @@ (ask :> "question") @@ (text :> "text") @@ (bash :> "command")
MCStreamOf == [b \in MCBlocks |-> IF b \in {text, bash} THEN task ELSE Main]

\* The text is a Task instead, whose subagent runs the command.
MCNestedKind == [MCKind EXCEPT ![text] = "task"]
MCNestedStreamOf == [MCStreamOf EXCEPT ![bash] = text]
=============================================================================
