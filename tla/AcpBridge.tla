------------------------------ MODULE AcpBridge ------------------------------
(***************************************************************************)
(* acp-bridge: the requests of its clients over the agent processes of     *)
(* pool.rs.  All threads of a session key share one agent, and what it     *)
(* says is not tagged with the request it is about: acp_client.rs sends    *)
(* one request at a time, gives what is read meanwhile to the subscriber   *)
(* of that request, and keeps a copy in a buffer.  A turn/start streams a  *)
(* session/prompt; a thread/resume sends a session/load and then takes the *)
(* buffer.                                                                 *)
(***************************************************************************)
EXTENDS AcpEvents, FiniteSets

CONSTANTS
    Requests,               \* requests of the bridge's clients, numbered as they come in
    Prompts,                \* those that are turn/starts; the others are thread/resumes
    KeyOf, ThreadOf,        \* the session key and the thread of each
    Script,                 \* what the agent has to say for each
    Cancellable,            \* those the agent may cut short, or refuse
    Clients,                \* bound: agent processes, numbered as they are spawned
    None,
    MaxProcesses,           \* of the pool
    Overlap,                \* bound: requests under way at once
    Mortal                  \* agents that the pool may evict, and that may end

ASSUME AcpBridgeAssumption ==
    /\ Requests \subseteq Nat /\ Clients \subseteq Nat
    /\ Prompts \subseteq Requests /\ Cancellable \subseteq Requests
    /\ None \notin Requests \cup Clients
    /\ MaxProcesses \in Nat \ {0} /\ Overlap \in Nat \ {0}
    /\ Mortal \subseteq Clients

About(n, t) == n.kind \in {"tool_call", "tool_call_update"} /\ n.tool = t

\* An agent announces a tool before it says anything else of it, if it does, and has no
\* more to say of it after the update that finds it ended.
ASSUME AgentAssumption ==
    \A r \in Requests :
        LET notes == Script[r] IN
        /\ Len(notes) \in Nat
        /\ \A j, l \in 1 .. Len(notes) :
              notes[l].kind = "tool_call" /\ j < l => ~About(notes[j], notes[l].tool)
        /\ \A i, j, l \in 1 .. Len(notes) :
              /\ notes[j].kind = "tool_call_update" /\ i <= j /\ j < l
              /\ About(notes[i], notes[j].tool) /\ notes[i].terminal
              => ~About(notes[l], notes[j].tool)

Keys == {KeyOf[r] : r \in Requests}
Threads == {ThreadOf[r] : r \in Requests}

VARIABLES
    call,                   \* control state of each request's handler
    client,                 \* the client a handler holds
    pool,                   \* the pool's entry of each key
    alive,                  \* agent processes that run
    reader,                 \* the reader task of each client
    working, position,      \* the request an agent works on, how much it has said
    pipe,                   \* an agent's stdout
    lock,                   \* request_lock: its holder, and who waits
    pending,                \* requests whose oneshot the reader has
    subscriber,             \* notification_tx
    buffer,                 \* pending_notifications
    reply,                  \* what a oneshot was sent
    channel,                \* what a subscriber has yet to consume
    emitter,                \* TurnStreamEmitter of each turn
    heard,                  \* what it has ingested
    taken,                  \* what a resume took of the buffer
    payload,                \* what turn/completed showed of a turn
    status, history         \* session_status and turns of each thread

poolVars == <<pool, client>>
agentVars == <<alive, working, position>>
streamVars == <<channel, emitter, heard>>
bridgeVars == <<taken, payload, status, history>>
innerVars == <<pending, subscriber, buffer, reply>>
vars == <<call, poolVars, agentVars, reader, pipe, lock, innerVars, streamVars, bridgeVars>>

Frame == [kind : {"note", "ok", "error"}, of : Requests, at : Nat]
Stages == {"new", "missed", "spawning", "held", "queued", "registered", "waiting",
           "draining", "streamed", "finishing", "appending", "taking", "looking",
           "rebuilding", "done", "failed"}

TypeOK ==
    /\ call \in [Requests -> Stages]
    /\ client \in [Requests -> Clients \cup {None}]
    /\ pool \in [Keys -> Clients \cup {None}]
    /\ alive \subseteq Clients
    /\ reader \in [Clients -> {"none", "on", "ended", "aborted"}]
    /\ working \in [Clients -> Requests \cup {None}]
    /\ position \in [Requests -> Nat]
    /\ pending \in [Clients -> SUBSET Requests]
    /\ subscriber \in [Clients -> Requests \cup {None}]
    /\ reply \in [Requests -> {"none", "ok", "error"}]
    /\ status \in [Threads -> {"idle", "active"}]
    /\ pipe \in [Clients -> Seq(Frame)] /\ buffer \in [Clients -> Seq(Frame)]
    /\ lock \in [Clients -> Seq(Requests)]
    /\ channel \in [Requests -> Seq(Frame)] /\ heard \in [Requests -> Seq(Frame)]

Init ==
    /\ call = [r \in Requests |-> "new"]
    /\ client = [r \in Requests |-> None]
    /\ pool = [k \in Keys |-> None]
    /\ alive = {}
    /\ reader = [c \in Clients |-> "none"]
    /\ working = [c \in Clients |-> None]
    /\ position = [r \in Requests |-> 0]
    /\ pipe = [c \in Clients |-> <<>>]
    /\ lock = [c \in Clients |-> <<>>]
    /\ pending = [c \in Clients |-> {}]
    /\ subscriber = [c \in Clients |-> None]
    /\ buffer = [c \in Clients |-> <<>>]
    /\ reply = [r \in Requests |-> "none"]
    /\ channel = [r \in Requests |-> <<>>]
    /\ emitter = [r \in Requests |-> Fresh]
    /\ heard = [r \in Requests |-> <<>>]
    /\ taken = [r \in Requests |-> <<>>]
    /\ payload = [r \in Requests |-> <<>>]
    /\ status = [t \in Threads |-> "idle"]
    /\ history = [t \in Threads |-> <<>>]

NoteOf(frame) == Script[frame.of][frame.at]

Over(r) == call[r] \in {"new", "done", "failed"}

Goto(r, next) == call' = [call EXCEPT ![r] = next]

\* A handler that returns takes what it held with it.
Leave(r, end) ==
    /\ Goto(r, end)
    /\ client' = [client EXCEPT ![r] = None]
    /\ position' = [position EXCEPT ![r] = 0]
    /\ reply' = [reply EXCEPT ![r] = "none"]
    /\ emitter' = [emitter EXCEPT ![r] = Fresh]
    /\ heard' = [heard EXCEPT ![r] = <<>>]
    /\ taken' = [taken EXCEPT ![r] = <<>>]
    /\ payload' = [payload EXCEPT ![r] = <<>>]

-----------------------------------------------------------------------------
(* The pool.                                                               *)

\* get_client, for a request that has come in.
GetClient(r) ==
    /\ call[r] = "new" /\ \A q \in Requests : q < r => call[q] # "new"
    /\ Cardinality({q \in Requests : ~Over(q)}) < Overlap
    /\ LET c == pool[KeyOf[r]] IN
       IF c # None
       THEN Goto(r, "held") /\ client' = [client EXCEPT ![r] = c]
       ELSE Goto(r, "missed") /\ UNCHANGED client
    /\ UNCHANGED <<pool, agentVars, reader, pipe, lock, innerVars, streamVars, bridgeVars>>

\* The idle entries were evicted; there has to be room.
CheckCapacity(r) ==
    /\ call[r] = "missed"
    /\ Goto(r, IF Cardinality({k \in Keys : pool[k] # None}) >= MaxProcesses
               THEN "failed" ELSE "spawning")
    /\ UNCHANGED <<poolVars, agentVars, reader, pipe, lock, innerVars, streamVars, bridgeVars>>

\* The process runs, and replaces what another request has put under the key.
Insert(r) ==
    /\ call[r] = "spawning"
    /\ \E c \in Clients :
          /\ reader[c] = "none" /\ \A d \in Clients : d < c => reader[d] # "none"
          /\ reader' = [reader EXCEPT ![c] = "on"]
          /\ alive' = alive \cup {c}
          /\ pool' = [pool EXCEPT ![KeyOf[r]] = c]
          /\ client' = [client EXCEPT ![r] = c]
    /\ Goto(r, "held")
    /\ UNCHANGED <<working, position, pipe, lock, innerVars, streamVars, bridgeVars>>

SpawnFails(r) ==
    /\ call[r] = "spawning"
    /\ Goto(r, "failed")
    /\ UNCHANGED <<poolVars, agentVars, reader, pipe, lock, innerVars, streamVars, bridgeVars>>

\* remove_client, of an entry that was idle when it was looked at: kill() aborts the
\* reader task, and with it closes the agent's stdout, and then kills the process.
RemoveClient(k) ==
    /\ pool[k] \in Mortal
    /\ pool' = [pool EXCEPT ![k] = None]
    /\ reader' = [reader EXCEPT ![pool[k]] = "aborted"]
    /\ pipe' = [pipe EXCEPT ![pool[k]] = <<>>]
    /\ UNCHANGED <<call, client, agentVars, lock, innerVars, streamVars, bridgeVars>>

AgentGone(c) ==
    /\ c \in alive /\ alive' = alive \ {c}
    /\ working' = [working EXCEPT ![c] = None]
    /\ UNCHANGED <<call, poolVars, position, reader, pipe, lock, innerVars, streamVars,
                   bridgeVars>>

Kill(c) == reader[c] = "aborted" /\ AgentGone(c)

AgentExits(c) == c \in Mortal /\ AgentGone(c)

-----------------------------------------------------------------------------
(* send_request_inner.                                                     *)

\* A turn/start first marks the thread active and announces the turn.
Enqueue(r) ==
    /\ call[r] = "held"
    /\ lock' = [lock EXCEPT ![client[r]] = Append(@, r)]
    /\ status' = IF r \in Prompts THEN [status EXCEPT ![ThreadOf[r]] = "active"] ELSE status
    /\ Goto(r, "queued")
    /\ UNCHANGED <<poolVars, agentVars, reader, pipe, innerVars, streamVars, taken, payload,
                   history>>

Register(r) ==
    LET c == client[r] IN
    /\ call[r] = "queued" /\ Head(lock[c]) = r
    /\ pending' = [pending EXCEPT ![c] = @ \cup {r}]
    /\ subscriber' = IF r \in Prompts THEN [subscriber EXCEPT ![c] = r] ELSE subscriber
    /\ buffer' = [buffer EXCEPT ![c] = <<>>]
    /\ Goto(r, "registered")
    /\ UNCHANGED <<poolVars, agentVars, reader, pipe, lock, reply, streamVars, bridgeVars>>

Write(r) ==
    LET c == client[r] IN
    /\ call[r] = "registered" /\ c \in alive
    /\ working' = [working EXCEPT ![c] = r]
    /\ Goto(r, "waiting")
    /\ UNCHANGED <<poolVars, alive, position, reader, pipe, lock, innerVars, streamVars,
                   bridgeVars>>

\* Bug: the next request may go before the subscriber of this one is cleared.
UnlockKeeps(r) ==
    /\ lock' = [lock EXCEPT ![client[r]] = Tail(@)]
    /\ UNCHANGED subscriber

\* The slot is given back, the subscriber cleared.
Unlock(r) ==
    /\ lock' = [lock EXCEPT ![client[r]] = Tail(@)]
    /\ subscriber' = [subscriber EXCEPT ![client[r]] = None]

\* Bug: a request that could not be written stays registered.
WithdrawNot(r) == UNCHANGED pending

Withdraw(r) == pending' = [pending EXCEPT ![client[r]] = @ \ {r}]

WriteFails(r) ==
    /\ call[r] = "registered" /\ client[r] \notin alive
    /\ Withdraw(r)
    /\ reply' = [reply EXCEPT ![r] = "error"]
    /\ Unlock(r)
    /\ Goto(r, "draining")
    /\ UNCHANGED <<poolVars, agentVars, reader, pipe, buffer, streamVars, bridgeVars>>

Resume(r) ==
    /\ call[r] = "waiting" /\ reply[r] # "none"
    /\ Unlock(r)
    /\ Goto(r, "draining")
    /\ UNCHANGED <<poolVars, agentVars, reader, pipe, pending, buffer, reply, streamVars,
                   bridgeVars>>

\* send_request_streaming's consumer task.
Consume(r) ==
    /\ channel[r] # <<>>
    /\ emitter' = [emitter EXCEPT ![r] = Ingest(@, NoteOf(Head(channel[r])))]
    /\ heard' = [heard EXCEPT ![r] = Append(@, Head(channel[r]))]
    /\ channel' = [channel EXCEPT ![r] = Tail(@)]
    /\ UNCHANGED <<call, poolVars, agentVars, reader, pipe, lock, innerVars, bridgeVars>>

\* Once the consumer has had all.  An error ends the request: of a turn, without turn/completed.
ReturnError(r) ==
    /\ call[r] = "draining" /\ channel[r] = <<>> /\ reply[r] = "error"
    /\ Leave(r, "failed")
    /\ UNCHANGED <<pool, alive, working, reader, pipe, lock, pending, subscriber, buffer, channel,
                   status, history>>

Return(r) ==
    /\ call[r] = "draining" /\ channel[r] = <<>> /\ reply[r] = "ok"
    /\ Goto(r, IF r \in Prompts THEN "streamed" ELSE "taking")
    /\ UNCHANGED <<poolVars, agentVars, reader, pipe, lock, innerVars, streamVars, bridgeVars>>

-----------------------------------------------------------------------------
(* The agent, and the reader task.                                         *)

\* The bodies come before the answer.
AgentSays(c) ==
    LET r == working[c] IN
    /\ r # None /\ reader[c] = "on" /\ position[r] < Len(Script[r])
    /\ position' = [position EXCEPT ![r] = @ + 1]
    /\ pipe' = [pipe EXCEPT ![c] = Append(@, [kind |-> "note", of |-> r, at |-> position[r] + 1])]
    /\ UNCHANGED <<call, poolVars, alive, working, reader, lock, innerVars, streamVars,
                   bridgeVars>>

\* Of a request that was cancelled or refused, before it has said all.
AgentAnswers(c) ==
    LET r == working[c] IN
    /\ r # None /\ reader[c] = "on"
    /\ r \in Cancellable \/ position[r] = Len(Script[r])
    /\ working' = [working EXCEPT ![c] = None]
    /\ \E kind \in (IF r \in Cancellable THEN {"ok", "error"} ELSE {"ok"}) :
          pipe' = [pipe EXCEPT ![c] = Append(@, [kind |-> kind, of |-> r, at |-> 0])]
    /\ UNCHANGED <<call, poolVars, alive, position, reader, lock, innerVars, streamVars,
                   bridgeVars>>

\* dispatch: to the subscriber, if there is one, and into the buffer.
Dispatch(c, frame) ==
    IF frame.kind = "note"
    THEN /\ channel' = IF subscriber[c] = None THEN channel
                       ELSE [channel EXCEPT ![subscriber[c]] = Append(@, frame)]
         /\ buffer' = [buffer EXCEPT ![c] = Append(@, frame)]
         /\ UNCHANGED <<pending, reply>>
    ELSE /\ pending' = [pending EXCEPT ![c] = @ \ {frame.of}]
         /\ reply' = IF frame.of \in pending[c] THEN [reply EXCEPT ![frame.of] = frame.kind]
                     ELSE reply
         /\ UNCHANGED <<channel, buffer>>

Read(c) ==
    /\ reader[c] = "on" /\ pipe[c] # <<>>
    /\ Dispatch(c, Head(pipe[c]))
    /\ pipe' = [pipe EXCEPT ![c] = Tail(@)]
    /\ UNCHANGED <<call, poolVars, agentVars, reader, lock, subscriber, emitter, heard,
                   bridgeVars>>

\* Bug: what waits when the agent's stdout closes is forgotten.
EofForgets(c) == UNCHANGED <<reply, pending>>

FailPending(c) ==
    /\ reply' = [r \in Requests |-> IF r \in pending[c] THEN "error" ELSE reply[r]]
    /\ pending' = [pending EXCEPT ![c] = {}]

Eof(c) ==
    /\ reader[c] = "on" /\ pipe[c] = <<>> /\ c \notin alive
    /\ FailPending(c)
    /\ reader' = [reader EXCEPT ![c] = "ended"]
    /\ UNCHANGED <<call, poolVars, agentVars, pipe, lock, subscriber, buffer, streamVars,
                   bridgeVars>>

-----------------------------------------------------------------------------
(* The rest of turn/start.                                                 *)

\* take_pending_notifications, whose outcome is discarded.
Discard(r) ==
    /\ call[r] = "streamed"
    /\ buffer' = [buffer EXCEPT ![client[r]] = <<>>]
    /\ Goto(r, "finishing")
    /\ UNCHANGED <<poolVars, agentVars, reader, pipe, lock, pending, subscriber, reply,
                   streamVars, bridgeVars>>

\* The emitter is finished, turn/completed goes out, the thread is idle.
Complete(r) ==
    /\ call[r] = "finishing"
    /\ \E order \in SetToSeqs(emitter[r].open) :
          payload' = [payload EXCEPT ![r] = <<Finish(emitter[r], order)>>]
    /\ status' = [status EXCEPT ![ThreadOf[r]] = "idle"]
    /\ Goto(r, "appending")
    /\ UNCHANGED <<poolVars, agentVars, reader, pipe, lock, innerVars, streamVars, taken,
                   history>>

AppendTurn(r) ==
    /\ call[r] = "appending"
    /\ history' = [history EXCEPT ![ThreadOf[r]] = Append(@, r)]
    /\ Leave(r, "done")
    /\ UNCHANGED <<pool, alive, working, reader, pipe, lock, pending, subscriber, buffer, channel,
                   status>>

-----------------------------------------------------------------------------
(* The rest of thread/resume.                                              *)

TakePending(r) ==
    LET c == client[r] IN
    /\ call[r] = "taking"
    /\ taken' = [taken EXCEPT ![r] = buffer[c]]
    /\ buffer' = [buffer EXCEPT ![c] = <<>>]
    /\ Goto(r, "looking")
    /\ UNCHANGED <<poolVars, agentVars, reader, pipe, lock, pending, subscriber, reply,
                   streamVars, payload, status, history>>

\* The turns of this daemon run are preferred to what the agent has replayed.
GetTurns(r) ==
    /\ call[r] = "looking"
    /\ history[ThreadOf[r]] = <<>> /\ taken[r] # <<>>
    /\ Goto(r, "rebuilding")
    /\ UNCHANGED <<poolVars, agentVars, reader, pipe, lock, innerVars, streamVars, bridgeVars>>

\* set_turns, if turns were rebuilt: they replace the history.
SetTurns(r) ==
    /\ \/ call[r] = "rebuilding" /\ history' = [history EXCEPT ![ThreadOf[r]] = <<r>>]
       \/ /\ call[r] = "looking" /\ (history[ThreadOf[r]] # <<>> \/ taken[r] = <<>>)
          /\ UNCHANGED history
    /\ Leave(r, "done")
    /\ UNCHANGED <<pool, alive, working, reader, pipe, lock, pending, subscriber, buffer, channel,
                   status>>

-----------------------------------------------------------------------------
Handler(r) ==
    \/ CheckCapacity(r) \/ Insert(r) \/ SpawnFails(r)
    \/ Enqueue(r) \/ Register(r) \/ Write(r) \/ WriteFails(r) \/ Resume(r)
    \/ ReturnError(r) \/ Return(r)
    \/ Discard(r) \/ Complete(r) \/ AppendTurn(r)
    \/ TakePending(r) \/ GetTurns(r) \/ SetTurns(r)

Next ==
    \/ \E r \in Requests : GetClient(r) \/ Handler(r) \/ Consume(r)
    \/ \E k \in Keys : RemoveClient(k)
    \/ \E c \in Clients :
          \/ Kill(c) \/ AgentExits(c) \/ AgentSays(c) \/ AgentAnswers(c) \/ Read(c) \/ Eof(c)

Spec == Init /\ [][Next]_vars

\* Handlers, consumers and readers run on; an agent that runs comes to its answer.
FairSpec ==
    /\ Spec
    /\ \A r \in Requests : WF_vars(Handler(r)) /\ WF_vars(Consume(r))
    /\ \A c \in Clients :
          WF_vars(AgentSays(c) \/ AgentAnswers(c)) /\ WF_vars(Read(c) \/ Eof(c))

-----------------------------------------------------------------------------
Completed(r) == call[r] = "appending"
Evicted(r) == client[r] # None /\ reader[client[r]] = "aborted"

\* Though nothing the agent says is tagged, and whichever turns, resumes, exits and
\* evictions surround it: the items of a turn are made of what the agent said for its
\* prompt, in order, and of all of it when the turn is completed.
StreamIsOwn ==
    \A r \in Prompts :
        LET own == [k \in 1 .. Len(heard[r]) |-> [kind |-> "note", of |-> r, at |-> k]] IN
        /\ heard[r] = own
        /\ Completed(r) => Len(heard[r]) = position[r]

\* What was sent about a turn's items, while it ran and at its end.
Sent(r) == IF Completed(r) THEN payload[r][1].sent ELSE emitter[r].sent

\* Every item is started once, before anything else about it, is completed once and
\* is not added to after that.
ItemsStream ==
    \A r \in Prompts : \A k \in DOMAIN Sent(r) :
        LET n == Sent(r)[k]
            before == {j \in 1 .. k - 1 : Sent(r)[j].item = n.item}
        IN  /\ n.note = "started" <=> before = {}
            /\ \A j \in before : Sent(r)[j].note # "completed"

\* streaming.rs:31: finish() returns "the canonical turn payload so live stream IDs
\* and refresh IDs are guaranteed to match".  Turn/completed and the stored turn have
\* the items the client has seen start, in that order, each as it was last shown.
StoredAsStreamed ==
    \A r \in Prompts : Completed(r) =>
        LET items == payload[r][1].items
            Shown(j, what, k) == Sent(r)[j].note = what /\ Sent(r)[j].item = items[k].item
        IN  /\ \A j \in DOMAIN Sent(r) : \E k \in DOMAIN items : items[k].item = Sent(r)[j].item
            /\ \A k \in DOMAIN items : \E j \in DOMAIN Sent(r) :
                  Shown(j, "completed", k) /\ Sent(r)[j].body = items[k].body
            /\ \A k, l \in DOMAIN items : k < l =>
                  \E i, j \in DOMAIN Sent(r) :
                      i < j /\ Shown(i, "started", k) /\ Shown(j, "started", l)

\* However the requests of a client have ended, it has nothing left of them that the next
\* could meet: no one holds the slot, no oneshot and no subscriber is registered.
QuietIsClear ==
    \A c \in Clients : (\A r \in Requests : client[r] # c) =>
        lock[c] = <<>> /\ pending[c] = {} /\ subscriber[c] = None

\* A request that has come in is answered, though its agent may die at any point, unless
\* the pool has killed the agent as idle.
RequestEnds == \A r \in Requests : call[r] # "new" ~> Over(r) \/ Evicted(r)

-----------------------------------------------------------------------------
\* acp_client.rs: the reader's last act is to "wake up any outstanding request so
\* callers don't hang forever".  An evicted client's reader is aborted before that:
\* its request, and those that wait behind it, hang.
OutstandingWoken == \A r \in Requests : call[r] # "new" ~> Over(r)

\* acp_client.rs: "notifications between request and response are unambiguously
\* attributable to the in-flight request".  A resume takes the buffer after it has given
\* up the slot, and gets what the next request's agent has said, or nothing.
ReplayIsOwn ==
    \A r \in Requests : \A k \in DOMAIN taken[r] : taken[r][k].of = r
=============================================================================
