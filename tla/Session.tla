------------------------------- MODULE Session -------------------------------
(***************************************************************************)
(* One session of the bridge: session/mod.rs with the tasks that drive it. *)
(*   streams    handle_stream + serve_stream_with_session: resolve, install *)
(*              an attachment, read until the client goes, drop it          *)
(*   drainers   drain_attachment: one writer task per installed stream      *)
(*   notifiers  tasks that send notifications or JSON-RPC responses         *)
(*   callers    NotificationSender::request: one approval prompt each       *)
(*   reaper     phase 1 of SessionRegistry::tick                            *)
(* Every mutex-protected section of the code is one step; whatever the code *)
(* does in two sections is two steps here, and any other task may run       *)
(* between them.  The ring is used through ReplayWindow.                    *)
(***************************************************************************)
EXTENDS Integers, Sequences, FiniteSets

CONSTANTS
    Streams,                \* client connections, each used once
    NoStream,
    Notifiers,              \* tasks that enqueue notifications
    Callers,                \* request() calls; each is its own request id
    MaxMsgs,                \* capacity of the ring
    BytesEvict,             \* may the byte cap evict before the count does?
    MaxSeq,                 \* bound of the model: notifications stop at this seq
    InFlight,               \* bound of the model: written items a lost client missed
    ExplicitResume,         \* do clients send Resume{last_seq} themselves?
    ReaperRuns              \* is the pending grace short enough to expire?

ASSUME SessionAssumption ==
    /\ NoStream \notin Streams
    /\ Notifiers \cap Callers = {}
    /\ MaxMsgs \in Nat \ {0}
    /\ BytesEvict \in BOOLEAN
    /\ MaxSeq \in Nat
    /\ InFlight \in Nat
    /\ ExplicitResume \in BOOLEAN
    /\ ReaperRuns \in BOOLEAN

VARIABLES
    minted,                 \* has a stream minted the session in the registry?
    prompts,                \* prompts[n]: the requests frame n asks ({} or one)
    floor,                  \* floor of the ring
    attached,               \* the stream whose live_tx sits in the slot
    detachedAt,             \* is detached_at Some?
    lastAttempted,          \* last_attempted_seq
    pending,                \* requests with a parked responder
    outstanding,            \* requests replayed on reattach
    stream,                 \* control state of each stream's task
    outcome,                \* AttachOutcome of install_attachment
    cursor,                 \* last_seen handed to install_attachment
    base,                   \* every frame after this one is owed to the stream
    answering,              \* the request whose response the reader is resolving
    drainer,                \* control state of each stream's writer task
    queue,                  \* backlog, replay frame, then live channel
    wire,                   \* items whose write returned Ok
    gone,                   \* has the client lost this stream?
    received,               \* length of the prefix of wire the client got
    hand,                   \* seq a producer has pushed but not yet sent, or 0
    caller,                 \* control state of each request() call
    reply,                  \* what its oneshot holds
    reaper,                 \* control state of the reaper's tick
    drained,                \* responders the reaper has taken out of pending
    excused                 \* last frame a Fresh or DriftReload attach skipped

ringVars == <<prompts, floor>>
tableVars == <<pending, outstanding>>
streamVars == <<minted, stream, outcome, cursor, base, answering>>
drainVars == <<drainer, queue, wire>>
clientVars == <<gone, received>>
callVars == <<caller, reply>>
reapVars == <<reaper, drained>>
vars == <<ringVars, attached, detachedAt, lastAttempted, tableVars, streamVars,
          drainVars, clientVars, hand, callVars, reapVars, excused>>

Producers == Notifiers \cup Callers
Ring == INSTANCE ReplayWindow WITH next <- Len(prompts) + 1

NoCursor == -1
NoReply == "none"

\* A frame on its way to a client.  The synthetic serverRequest/replay frame
\* has no seq of its own (0) and lists every outstanding request.
Item == [seq : Nat, prompts : SUBSET Callers]
FrameItem(n) == [seq |-> n, prompts |-> prompts[n]]

Current == Len(prompts)
SeqsOf(items) == {items[i].seq : i \in DOMAIN items}
PromptsOf(items) == UNION {items[i].prompts : i \in DOMAIN items}

\* Requests are dispatched only once some stream has been installed.
Serving == \E s \in Streams : stream[s] \notin {"new", "resolved", "refused"}

TypeOK ==
    /\ minted \in BOOLEAN
    /\ prompts \in Seq(SUBSET Callers)
    /\ floor \in Nat
    /\ attached \in Streams \cup {NoStream}
    /\ detachedAt \in BOOLEAN
    /\ lastAttempted \in Nat
    /\ pending \subseteq Callers
    /\ outstanding \subseteq Callers
    /\ stream \in [Streams -> {"new", "resolved", "refused", "installed", "reading",
                               "resolving", "unmatched", "dropping", "closed"}]
    /\ outcome \in [Streams -> {"none", "Fresh", "Resumed", "DriftReload"}]
    /\ cursor \in [Streams -> Nat \cup {NoCursor}]
    /\ base \in [Streams -> Nat]
    /\ answering \in [Streams -> SUBSET Callers]
    /\ drainer \in [Streams -> {"none", "ready", "writing", "stopped"}]
    /\ queue \in [Streams -> Seq(Item)]
    /\ wire \in [Streams -> Seq(Item)]
    /\ gone \in [Streams -> BOOLEAN]
    /\ received \in [Streams -> Nat]
    /\ hand \in [Producers -> 0 .. Current]
    /\ caller \in [Callers -> {"idle", "registering", "registered", "pushed",
                               "waiting", "forgetting", "done"}]
    /\ reply \in [Callers -> {NoReply, "answer", "ConnectionClosed", "TimedOut"}]
    /\ reaper \in {"idle", "expired", "drained"}
    /\ drained \subseteq Callers
    /\ excused \in Nat

Init ==
    /\ minted = FALSE
    /\ prompts = <<>>
    /\ Ring!Init
    /\ attached = NoStream
    /\ detachedAt = FALSE
    /\ lastAttempted = 0
    /\ pending = {} /\ outstanding = {}
    /\ stream = [s \in Streams |-> "new"]
    /\ outcome = [s \in Streams |-> "none"]
    /\ cursor = [s \in Streams |-> NoCursor]
    /\ base = [s \in Streams |-> 0]
    /\ answering = [s \in Streams |-> {}]
    /\ drainer = [s \in Streams |-> "none"]
    /\ queue = [s \in Streams |-> <<>>]
    /\ wire = [s \in Streams |-> <<>>]
    /\ gone = [s \in Streams |-> FALSE]
    /\ received = [s \in Streams |-> 0]
    /\ hand = [p \in Producers |-> 0]
    /\ caller = [c \in Callers |-> "idle"]
    /\ reply = [c \in Callers |-> NoReply]
    /\ reaper = "idle"
    /\ drained = {}
    /\ excused = 0

-----------------------------------------------------------------------------
(* Connecting: resolve_attach, the Connect response, install_attachment.   *)

\* Bug variant: auto-resume from the last attempted frame itself.
AutoCursorAtAttempt == lastAttempted

\* Cursor the server picks for a known session when the client sent none:
\* last_attempted_seq.saturating_sub(1).
AutoCursor == IF lastAttempted = 0 THEN 0 ELSE lastAttempted - 1

EffectiveCursors ==
    {AutoCursor} \cup (IF ExplicitResume THEN 0 .. MaxSeq ELSE {})

\* replay_from, asked through peek_replay and again by install_attachment.
KindOf(c) == IF Ring!Replayable(c) THEN "Resumed" ELSE "DriftReload"

\* What handle_stream threads on: a Fresh or DriftReload attach gets no cursor.
DispatchCursor(kind, c) == IF kind = "Resumed" THEN c ELSE NoCursor

MintSession(s) ==
    /\ stream[s] = "new" /\ ~minted
    /\ minted' = TRUE
    /\ stream' = [stream EXCEPT ![s] = "resolved"]
    /\ UNCHANGED <<outcome, cursor, base, answering, ringVars, attached, detachedAt, lastAttempted,
                   tableVars, drainVars, clientVars, hand, callVars, reapVars, excused>>

ResolveExisting(s) ==
    /\ stream[s] = "new" /\ minted
    /\ \E c \in EffectiveCursors :
          cursor' = [cursor EXCEPT ![s] = DispatchCursor(KindOf(c), c)]
    /\ stream' = [stream EXCEPT ![s] = "resolved"]
    /\ UNCHANGED <<minted, outcome, base, answering, ringVars, attached, detachedAt, lastAttempted,
                   tableVars, drainVars, clientVars, hand, callVars, reapVars, excused>>

\* Writing the Connect response fails: the stream never reaches the session.
RespondFails(s) ==
    /\ stream[s] = "resolved" /\ gone[s]
    /\ stream' = [stream EXCEPT ![s] = "refused"]
    /\ UNCHANGED <<minted, outcome, cursor, base, answering, ringVars, attached, detachedAt,
                   lastAttempted, tableVars, drainVars, clientVars, hand, callVars,
                   reapVars, excused>>

\* install_attachment decides again, on the ring as it is by then.
OutcomeOf(c) == IF c = NoCursor THEN "Fresh" ELSE KindOf(c)

\* Bug variant: the replay slice starts one frame late.
BacklogFromNext(c) ==
    [i \in 1 .. (IF c + 1 >= Current THEN 0 ELSE Current - c - 1) |-> FrameItem(c + 1 + i)]

Backlog(c) == [i \in 1 .. (IF c >= Current THEN 0 ELSE Current - c) |-> FrameItem(c + i)]

\* Bug variant: nothing but the backlog is sent on reattach.
RedeliveryForgotten == <<>>

\* The serverRequest/replay frame, when anything is outstanding.
Redelivery == IF outstanding = {} THEN <<>> ELSE <<[seq |-> 0, prompts |-> outstanding]>>

\* The attachment lock is held across the ring and outstanding reads and the
\* replacement of the slot, so all of it is one step; the previous stream's
\* sender is dropped by the replacement.
InstallAttachment(s) ==
    /\ stream[s] = "resolved"
    /\ stream' = [stream EXCEPT ![s] = "installed"]
    /\ attached' = s
    /\ drainer' = [drainer EXCEPT ![s] = "ready"]
    /\ outcome' = [outcome EXCEPT ![s] = OutcomeOf(cursor[s])]
    /\ cursor' = [cursor EXCEPT ![s] = NoCursor]
    /\ \/ /\ OutcomeOf(cursor[s]) = "Resumed"
          /\ queue' = [queue EXCEPT ![s] = Backlog(cursor[s]) \o Redelivery]
          /\ base' = [base EXCEPT ![s] = cursor[s]]
          /\ UNCHANGED excused
       \/ /\ OutcomeOf(cursor[s]) # "Resumed"
          /\ queue' = queue
          /\ base' = [base EXCEPT ![s] = Current]
          /\ excused' = Current
    /\ UNCHANGED <<minted, answering, ringVars, detachedAt, lastAttempted,
                   tableVars, wire, clientVars, hand, callVars, reapVars>>

\* The separate critical section that clears detached_at; then run_reader.
ClearDetached(s) ==
    /\ stream[s] = "installed"
    /\ stream' = [stream EXCEPT ![s] = "reading"]
    /\ detachedAt' = FALSE
    /\ UNCHANGED <<minted, outcome, cursor, base, answering, ringVars, attached, lastAttempted,
                   tableVars, drainVars, clientVars, hand, callVars, reapVars, excused>>

-----------------------------------------------------------------------------
(* The drainer: note the attempt, write, repeat.                           *)

Attempt(s) ==
    /\ drainer[s] = "ready" /\ queue[s] # <<>>
    /\ drainer' = [drainer EXCEPT ![s] = "writing"]
    /\ LET n == Head(queue[s]).seq
       IN  lastAttempted' = IF n > lastAttempted THEN n ELSE lastAttempted
    /\ UNCHANGED <<queue, wire, ringVars, attached, detachedAt, tableVars, streamVars,
                   clientVars, hand, callVars, reapVars, excused>>

\* The write returns Ok, also into the buffers of a transport already lost.
WriteOk(s) ==
    /\ drainer[s] = "writing"
    /\ drainer' = [drainer EXCEPT ![s] = "ready"]
    /\ wire' = [wire EXCEPT ![s] = Append(@, Head(queue[s]))]
    /\ queue' = [queue EXCEPT ![s] = Tail(@)]
    /\ received' = IF gone[s] THEN received ELSE [received EXCEPT ![s] = @ + 1]
    /\ UNCHANGED <<gone, ringVars, attached, detachedAt, lastAttempted, tableVars,
                   streamVars, hand, callVars, reapVars, excused>>

\* The write fails: the task returns and its receiver is dropped with it.
WriteFails(s) ==
    /\ drainer[s] = "writing" /\ gone[s]
    /\ drainer' = [drainer EXCEPT ![s] = "stopped"]
    /\ queue' = [queue EXCEPT ![s] = <<>>]
    /\ UNCHANGED <<wire, ringVars, attached, detachedAt, lastAttempted, tableVars,
                   streamVars, clientVars, hand, callVars, reapVars, excused>>

\* recv() yields None once the sender is dropped and the channel is empty.
DrainEnds(s) ==
    /\ drainer[s] = "ready" /\ queue[s] = <<>> /\ attached # s
    /\ drainer' = [drainer EXCEPT ![s] = "stopped"]
    /\ UNCHANGED <<queue, wire, ringVars, attached, detachedAt, lastAttempted, tableVars,
                   streamVars, clientVars, hand, callVars, reapVars, excused>>

-----------------------------------------------------------------------------
(* The client end.                                                         *)

\* The client goes: what it received is what was written, but for the last few
\* items that were still in the transport's buffers.
ClientGoes(s) ==
    /\ stream[s] # "new" /\ ~gone[s]
    /\ gone' = [gone EXCEPT ![s] = TRUE]
    /\ \E lost \in 0 .. InFlight :
          /\ lost <= received[s]
          /\ received' = [received EXCEPT ![s] = @ - lost]
    /\ UNCHANGED <<ringVars, attached, detachedAt, lastAttempted, tableVars, streamVars,
                   drainVars, hand, callVars, reapVars, excused>>

\* The reader takes the client's response to a prompt some stream showed it:
\* first half of resolve_pending.
TakePending(s, c) ==
    /\ stream[s] = "reading" /\ ~gone[s]
    /\ \E t \in Streams : c \in PromptsOf(wire[t])
    /\ stream' = [stream EXCEPT ![s] = IF c \in pending THEN "resolving" ELSE "unmatched"]
    /\ answering' = [answering EXCEPT ![s] = {c}]
    /\ pending' = pending \ {c}
    /\ UNCHANGED <<minted, outcome, cursor, base, ringVars, attached, detachedAt, lastAttempted,
                   outstanding, drainVars, clientVars, hand, callVars, reapVars, excused>>

\* Second half: clear outstanding, then complete the oneshot if there was one.
FinishResolve(s) ==
    /\ stream[s] \in {"resolving", "unmatched"}
    /\ stream' = [stream EXCEPT ![s] = "reading"]
    /\ answering' = [answering EXCEPT ![s] = {}]
    /\ outstanding' = outstanding \ answering[s]
    /\ reply' = [c \in Callers |->
                    IF stream[s] = "resolving" /\ c \in answering[s] THEN "answer" ELSE reply[c]]
    /\ UNCHANGED <<minted, outcome, cursor, base, ringVars, attached, detachedAt, lastAttempted,
                   pending, drainVars, clientVars, hand, caller, reapVars, excused>>

\* Bug variant: the stream ends without giving up its sender.
DropAttachmentKeepsSlot(s) ==
    /\ stream[s] = "reading" /\ gone[s]
    /\ stream' = [stream EXCEPT ![s] = "dropping"]
    /\ UNCHANGED <<minted, outcome, cursor, base, answering, ringVars, attached,
                   detachedAt, lastAttempted, tableVars, drainVars, clientVars, hand,
                   callVars, reapVars, excused>>

\* run_reader returns, and drop_attachment empties the slot -- whoever is in it.
DropAttachment(s) ==
    /\ stream[s] = "reading" /\ gone[s]
    /\ stream' = [stream EXCEPT ![s] = "dropping"]
    /\ attached' = NoStream
    /\ UNCHANGED <<minted, outcome, cursor, base, answering, ringVars, detachedAt, lastAttempted,
                   tableVars, drainVars, clientVars, hand, callVars, reapVars, excused>>

\* The second critical section of drop_attachment.
MarkDetached(s) ==
    /\ stream[s] = "dropping"
    /\ stream' = [stream EXCEPT ![s] = "closed"]
    /\ detachedAt' = TRUE
    /\ UNCHANGED <<minted, outcome, cursor, base, answering, ringVars, attached, lastAttempted,
                   tableVars, drainVars, clientVars, hand, callVars, reapVars, excused>>

-----------------------------------------------------------------------------
(* Producers: enqueue is a push under the ring lock, then a send under the *)
(* attachment lock.                                                        *)

PushFrame(p, asks) ==
    /\ hand[p] = 0
    /\ prompts' = Append(prompts, asks)
    /\ Ring!Push
    /\ hand' = [hand EXCEPT ![p] = Current + 1]

\* Bug variant: a bounded channel whose full buffer drops the frame (try_send).
SendIfRoom(p) ==
    /\ hand[p] # 0
    /\ hand' = [hand EXCEPT ![p] = 0]
    /\ queue' = [s \in Streams |->
                    IF s = attached /\ drainer[s] # "stopped" /\ queue[s] = <<>>
                    THEN Append(queue[s], FrameItem(hand[p])) ELSE queue[s]]

\* A send into a channel whose drainer has stopped is dropped, by design.
SendFrame(p) ==
    /\ hand[p] # 0
    /\ hand' = [hand EXCEPT ![p] = 0]
    /\ queue' = [s \in Streams |->
                    IF s = attached /\ drainer[s] # "stopped"
                    THEN Append(queue[s], FrameItem(hand[p])) ELSE queue[s]]

NotifyPush(p) ==
    /\ Serving /\ Current < MaxSeq
    /\ PushFrame(p, {})
    /\ UNCHANGED <<attached, detachedAt, lastAttempted, tableVars, streamVars, drainVars,
                   clientVars, callVars, reapVars, excused>>

NotifySend(p) ==
    /\ SendFrame(p)
    /\ UNCHANGED <<ringVars, attached, detachedAt, lastAttempted, tableVars, streamVars,
                   drainer, wire, clientVars, callVars, reapVars, excused>>

-----------------------------------------------------------------------------
(* request(): register_pending's two sections, enqueue's two, then the     *)
(* timed wait and, on timeout, forget_pending's two.                       *)

RegisterPending(c) ==
    /\ caller[c] = "idle" /\ Serving
    /\ caller' = [caller EXCEPT ![c] = "registering"]
    /\ pending' = pending \cup {c}
    /\ UNCHANGED <<ringVars, attached, detachedAt, lastAttempted, outstanding, streamVars,
                   drainVars, clientVars, hand, reply, reapVars, excused>>

RegisterOutstanding(c) ==
    /\ caller[c] = "registering"
    /\ caller' = [caller EXCEPT ![c] = "registered"]
    /\ outstanding' = outstanding \cup {c}
    /\ UNCHANGED <<ringVars, attached, detachedAt, lastAttempted, pending, streamVars,
                   drainVars, clientVars, hand, reply, reapVars, excused>>

RequestPush(c) ==
    /\ caller[c] = "registered"
    /\ caller' = [caller EXCEPT ![c] = "pushed"]
    /\ PushFrame(c, {c})
    /\ UNCHANGED <<attached, detachedAt, lastAttempted, tableVars, streamVars, drainVars,
                   clientVars, reply, reapVars, excused>>

RequestSend(c) ==
    /\ caller[c] = "pushed"
    /\ caller' = [caller EXCEPT ![c] = "waiting"]
    /\ SendFrame(c)
    /\ UNCHANGED <<ringVars, attached, detachedAt, lastAttempted, tableVars, streamVars,
                   drainer, wire, clientVars, reply, reapVars, excused>>

TakeReply(c) ==
    /\ caller[c] = "waiting" /\ reply[c] # NoReply
    /\ caller' = [caller EXCEPT ![c] = "done"]
    /\ UNCHANGED <<ringVars, attached, detachedAt, lastAttempted, tableVars, streamVars,
                   drainVars, clientVars, hand, reply, reapVars, excused>>

\* Bug variant: the timer runs only while some client is attached.
TimeOutWhenAttached(c) ==
    /\ caller[c] = "waiting" /\ reply[c] = NoReply /\ attached # NoStream
    /\ caller' = [caller EXCEPT ![c] = "forgetting"]
    /\ pending' = pending \ {c}
    /\ UNCHANGED <<ringVars, attached, detachedAt, lastAttempted, outstanding, streamVars,
                   drainVars, clientVars, hand, reply, reapVars, excused>>

TimeOut(c) ==
    /\ caller[c] = "waiting" /\ reply[c] = NoReply
    /\ caller' = [caller EXCEPT ![c] = "forgetting"]
    /\ pending' = pending \ {c}
    /\ UNCHANGED <<ringVars, attached, detachedAt, lastAttempted, outstanding, streamVars,
                   drainVars, clientVars, hand, reply, reapVars, excused>>

\* Bug variant: forget_pending clears only the pending table.
ForgetPendingOnly(c) ==
    /\ caller[c] = "forgetting"
    /\ caller' = [caller EXCEPT ![c] = "done"]
    /\ reply' = [reply EXCEPT ![c] = "TimedOut"]
    /\ UNCHANGED <<ringVars, attached, detachedAt, lastAttempted, tableVars, streamVars,
                   drainVars, clientVars, hand, reapVars, excused>>

ForgetOutstanding(c) ==
    /\ caller[c] = "forgetting"
    /\ caller' = [caller EXCEPT ![c] = "done"]
    /\ outstanding' = outstanding \ {c}
    /\ reply' = [reply EXCEPT ![c] = "TimedOut"]
    /\ UNCHANGED <<ringVars, attached, detachedAt, lastAttempted, pending, streamVars,
                   drainVars, clientVars, hand, reapVars, excused>>

-----------------------------------------------------------------------------
(* The reaper's first phase: detached_for, has_outstanding_requests, then  *)
(* cancel_all_pending, each under its own lock.                            *)

ReapCheck ==
    /\ ReaperRuns /\ reaper = "idle"
    /\ detachedAt /\ outstanding # {}
    /\ reaper' = "expired"
    /\ UNCHANGED <<drained, ringVars, attached, detachedAt, lastAttempted, tableVars,
                   streamVars, drainVars, clientVars, hand, callVars, excused>>

\* Bug variant: the tables are cleared and the responders leaked.
ReapDrainLeaks ==
    /\ reaper = "expired"
    /\ reaper' = "drained"
    /\ drained' = {}
    /\ pending' = {}
    /\ UNCHANGED <<outstanding, ringVars, attached, detachedAt, lastAttempted, streamVars,
                   drainVars, clientVars, hand, callVars, excused>>

ReapDrain ==
    /\ reaper = "expired"
    /\ reaper' = "drained"
    /\ drained' = pending
    /\ pending' = {}
    /\ UNCHANGED <<outstanding, ringVars, attached, detachedAt, lastAttempted, streamVars,
                   drainVars, clientVars, hand, callVars, excused>>

ReapClear ==
    /\ reaper = "drained"
    /\ reaper' = "idle"
    /\ drained' = {}
    /\ outstanding' = {}
    /\ reply' = [c \in Callers |-> IF c \in drained THEN "ConnectionClosed" ELSE reply[c]]
    /\ UNCHANGED <<pending, ringVars, attached, detachedAt, lastAttempted, streamVars,
                   drainVars, clientVars, hand, caller, excused>>

-----------------------------------------------------------------------------
StreamStep(s) ==
    \/ MintSession(s) \/ ResolveExisting(s) \/ RespondFails(s)
    \/ InstallAttachment(s) \/ ClearDetached(s)
    \/ \E c \in Callers : TakePending(s, c)
    \/ FinishResolve(s) \/ DropAttachment(s) \/ MarkDetached(s)

DrainerStep(s) == Attempt(s) \/ WriteOk(s) \/ WriteFails(s) \/ DrainEnds(s)

CallerStep(c) ==
    \/ RegisterPending(c) \/ RegisterOutstanding(c) \/ RequestPush(c) \/ RequestSend(c)
    \/ TakeReply(c) \/ TimeOut(c) \/ ForgetOutstanding(c)

ReaperStep == ReapCheck \/ ReapDrain \/ ReapClear

Next ==
    \/ \E s \in Streams : StreamStep(s) \/ DrainerStep(s) \/ ClientGoes(s)
    \/ \E p \in Notifiers : NotifyPush(p) \/ NotifySend(p)
    \/ \E c \in Callers : CallerStep(c)
    \/ ReaperStep

Spec == Init /\ [][Next]_vars

\* Tasks the runtime keeps polling: each drainer (a write either completes or
\* fails), each request() call once made (its timer always fires), each
\* producer's send.
Fairness ==
    /\ \A s \in Streams : WF_vars(DrainerStep(s))
    /\ \A c \in Callers : WF_vars(caller[c] # "idle" /\ CallerStep(c))
    /\ \A p \in Notifiers : WF_vars(NotifySend(p))

FairSpec == Spec /\ Fairness

-----------------------------------------------------------------------------
(* Delivery.                                                               *)

\* Frames on their way: pushed, and about to be sent by their producer.
InHand == {hand[p] : p \in Producers}

\* install_attachment and enqueue leave no gap: every frame after the point an
\* attachment starts from is already written to it, is in its queue, or is in
\* the hand of a producer that will queue it -- however the producer's two
\* critical sections fall around the install.
NothingSkipped ==
    \A s \in Streams :
        attached = s /\ drainer[s] # "stopped" =>
            base[s] + 1 .. Current
                \subseteq SeqsOf(queue[s]) \cup SeqsOf(wire[s]) \cup InHand

\* The cursor the server picks for a client that sends none skips only frames
\* whose write completed on some stream, that are still on their way to one, or
\* that an attach left out (Fresh and DriftReload attaches start from
\* the present).
OnItsWay(n) == n \in InHand \/ \E s \in Streams : n \in SeqsOf(queue[s])

ResumeSkipsOnlyWritten ==
    \A n \in 1 .. AutoCursor :
        n > excused => OnItsWay(n) \/ \E s \in Streams : n \in SeqsOf(wire[s])

\* The same of what clients really received.
ResumeSkipsOnlyReceived ==
    \A n \in 1 .. AutoCursor :
        n > excused =>
            OnItsWay(n) \/ \E s \in Streams : n \in SeqsOf(SubSeq(wire[s], 1, received[s]))

\* A stream loses the slot only to another stream or by its own client going.
SlotKeptWhileClientStays ==
    [][\A s \in Streams : attached = s /\ attached' = NoStream => gone[s]]_vars

-----------------------------------------------------------------------------
(* Prompts.                                                                *)

\* No request waits for an answer nobody can give: until its oneshot is
\* completed its responder is parked, or held by the reader or the reaper.
WaiterHasResponder ==
    \A c \in Callers :
        caller[c] = "waiting" /\ reply[c] = NoReply =>
            \/ c \in pending
            \/ c \in drained
            \/ \E s \in Streams : stream[s] = "resolving" /\ c \in answering[s]

\* A request still outstanding is shown to the client that resumed: in the
\* backlog, in the replay frame or live, whenever the resume came.
PromptShown(s) ==
    \A c \in outstanding :
        caller[c] = "waiting" => c \in PromptsOf(queue[s]) \cup PromptsOf(wire[s])

ResumedSeesPrompts ==
    \A s \in Streams :
        attached = s /\ drainer[s] # "stopped" /\ outcome[s] = "Resumed" => PromptShown(s)

\* With no task between its two table updates, pending and outstanding hold
\* the same requests, and only requests whose caller is still there.  Only
\* where the reaper stays away: its cancel can fall between the two sections
\* of register_pending, and leaves one table without the other.
Settled ==
    /\ \A c \in Callers : caller[c] \notin {"registering", "forgetting"}
    /\ \A s \in Streams : stream[s] \notin {"resolving", "unmatched"}
    /\ reaper # "drained"

TablesInLockstep ==
    Settled =>
        /\ pending = outstanding
        /\ \A c \in pending : caller[c] \in {"registered", "pushed", "waiting"}

-----------------------------------------------------------------------------
(* Liveness.                                                               *)

\* request() returns, whatever clients and reaper do.
RequestReturns == \A c \in Callers : caller[c] = "registering" ~> caller[c] = "done"

\* serve_stream_with_session returns: its last line awaits the drainer, which
\* ends because the stream's own end emptied the slot or a newer one took it.
DrainerEnds == \A s \in Streams : stream[s] = "closed" ~> drainer[s] = "stopped"

\* A stream that stays attached to a client that stays is sent every frame.
AttachedGetsAll ==
    \A s \in Streams :
        <>[](attached = s /\ ~gone[s]) =>
            <>[](base[s] + 1 .. Current \subseteq SeqsOf(wire[s]))
=============================================================================
