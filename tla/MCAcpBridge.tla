----------------------------- MODULE MCAcpBridge -----------------------------
(* AcpBridge for TLC.  The first turn thinks, writes, and runs a tool it    *)
(* does not announce; then a thread is resumed, and a turn of that thread   *)
(* leaves a tool running.                                                   *)
EXTENDS AcpBridge

N(kind, tool, body, terminal) ==
    [kind |-> kind, tool |-> tool, body |-> body, terminal |-> terminal]

Working ==
    << N("reasoning", "", "a", FALSE), N("agent", "", "b", FALSE),
       N("tool_call_update", "u", "c", TRUE) >>

Replaying == << N("user", "", "d", FALSE) >>
Calling == << N("tool_call", "t", "e", FALSE) >>

MCRequests == 1 .. 3
MCPrompts == {1, 3}
MCCancellable == {1}
MCKeyOf == <<"k", "k", "k">>
MCThreadOf == <<"x", "y", "y">>
MCScript == <<Working, Replaying, Calling>>
MCClients == 1 .. 2
MCMortal == {1}
=============================================================================
