----------------------------- MODULE WebConnection -----------------------------
(***************************************************************************)
(* One connection record of the web client: connections.js over rpc.js and *)
(* the loadThreads of thread-sync.js.  A dial is an async function: it     *)
(* opens a transport, asks initialize, and is stale as soon as the record's *)
(* attempt counter has moved on.  Dials, timers, transports and the user   *)
(* all act on the one record, in any order.  A transport, its rpc client   *)
(* and its dial are named by their attempt.                                *)
(***************************************************************************)
EXTENDS Integers, FiniteSets

CONSTANT MaxAttempt         \* bound: attempts

ASSUME WebConnectionAssumption == MaxAttempt \in Nat \ {0}

Attempts == 1 .. MaxAttempt
None == 0

\* The ids a client gives its requests: its first, and its second.
Initialize == 1
ThreadList == 2
Requests == {Initialize, ThreadList}

VARIABLES
    attempt, status, transport, rpc, retry, soft,  \* the connection record
    loading,                \* its threadsLoading
    dropped,                \* has dropConnection forgotten it?
    dial,                   \* progress of each attempt's dial
    wire,                   \* each attempt's transport
    pending,                \* each rpc client's pending map
    asked,                  \* requests sent on each wire and not answered on it
    resuming,               \* is the agent a bridge, whose session replays?
    unseen                  \* responses sent on an earlier wire, which it may replay

record == <<attempt, status, transport, rpc, retry, soft>>
net == <<wire, asked, resuming, unseen>>
vars == <<record, loading, dropped, dial, net, pending>>

Failures == {"offline", "expired", "noagent"}

TypeOK ==
    /\ attempt \in 0 .. MaxAttempt
    /\ status \in {"new", "connecting", "connected"} \cup Failures
    /\ transport \in Attempts \cup {None} /\ rpc \in Attempts \cup {None}
    /\ soft \in Attempts \cup {None}
    /\ retry \in BOOLEAN /\ loading \in BOOLEAN /\ dropped \in BOOLEAN
    /\ dial \in [Attempts -> {"none", "opening", "initializing", "over", "refused"}]
    /\ wire \in [Attempts -> {"none", "open", "closed"}]
    /\ pending \in [Attempts -> SUBSET Requests]
    /\ asked \in [Attempts -> SUBSET Requests]
    /\ resuming \in BOOLEAN /\ unseen \subseteq Requests

Init ==
    /\ attempt = 0 /\ status = "new"
    /\ transport = None /\ rpc = None
    /\ retry = FALSE /\ soft = None
    /\ loading = FALSE /\ dropped = FALSE
    /\ dial = [a \in Attempts |-> "none"]
    /\ wire = [a \in Attempts |-> "none"]
    /\ pending = [a \in Attempts |-> {}]
    /\ asked = [a \in Attempts |-> {}]
    /\ resuming \in BOOLEAN /\ unseen = {}

\* Bug: the counter is not looked at after the awaits.
CurrentUnlessDropped(a) == ~dropped

Current(a) == ~dropped /\ attempt = a

-----------------------------------------------------------------------------
(* Dialing.                                                                *)

\* dial() up to its first await, as attempt a.
Dial(a) ==
    /\ a \in Attempts
    /\ attempt' = a /\ status' = "connecting"
    /\ soft' = a
    /\ dial' = [dial EXCEPT ![a] = "opening"]

\* connectDevice, for a record it has just made.
ConnectDevice ==
    /\ status = "new"
    /\ Dial(1)
    /\ UNCHANGED <<transport, rpc, retry, loading, dropped, net, pending>>

SoftTimeout ==
    /\ soft # None
    /\ status' = IF attempt = soft /\ status = "connecting" THEN "offline" ELSE status
    /\ soft' = None
    /\ UNCHANGED <<attempt, transport, rpc, retry, loading, dropped, dial, net, pending>>

RetryFires ==
    /\ retry /\ retry' = FALSE
    /\ Dial(attempt + 1)
    /\ UNCHANGED <<transport, rpc, loading, dropped, net, pending>>

\* Bug: a failed dial is not tried again.
FailedForGood(kind) == status' = kind /\ UNCHANGED retry

\* mark and, of what may pass by itself, scheduleReconnect.
Failed(kind) ==
    /\ status' = kind
    /\ retry' = (retry \/ kind = "offline")

\* The catch of a dial of attempt a.
Catch(a, end) ==
    /\ dial' = [dial EXCEPT ![a] = end]
    /\ IF Current(a)
       THEN /\ soft' = None
            /\ \E kind \in Failures : Failed(kind)
       ELSE UNCHANGED <<status, retry, soft>>

ConnectFails(a) ==
    /\ dial[a] = "opening" /\ wire[a] = "none"
    /\ Catch(a, "over")
    /\ UNCHANGED <<attempt, transport, rpc, loading, dropped, net, pending>>

\* The stream is up; connect() has yet to hand its transport to the dial.
TransportOpens(a) ==
    /\ dial[a] = "opening" /\ wire[a] = "none"
    /\ wire' = [wire EXCEPT ![a] = "open"]
    /\ UNCHANGED <<record, loading, dropped, dial, asked, resuming, unseen, pending>>

\* A stale dial closes what it got; a current one installs it and its rpc client.
ConnectResolves(a) ==
    /\ dial[a] = "opening" /\ wire[a] # "none"
    /\ IF Current(a)
       THEN /\ transport' = a /\ rpc' = a
            /\ pending' = [pending EXCEPT ![a] = {Initialize}]
            /\ asked' = [asked EXCEPT ![a] = IF wire[a] = "open" THEN {Initialize} ELSE {}]
            /\ dial' = [dial EXCEPT ![a] = "initializing"]
            /\ UNCHANGED wire
       ELSE /\ wire' = [wire EXCEPT ![a] = "closed"]
            /\ dial' = [dial EXCEPT ![a] = "over"]
            /\ UNCHANGED <<transport, rpc, pending, asked>>
    /\ UNCHANGED <<attempt, status, retry, soft, loading, dropped, resuming, unseen>>

-----------------------------------------------------------------------------
(* Lines.                                                                  *)

\* initialize() of client r has resolved: connected, and loadThreads, which does
\* nothing while an earlier list is thought to be loading.
Initialized(r) ==
    /\ dial' = [dial EXCEPT ![r] = "over"]
    /\ IF Current(r)
       THEN /\ status' = "connected" /\ soft' = None
            /\ loading' = TRUE
            /\ pending' = [pending EXCEPT ![r] = (@ \ {Initialize})
                                                 \cup (IF loading THEN {} ELSE {ThreadList})]
       ELSE /\ pending' = [pending EXCEPT ![r] = @ \ {Initialize}]
            /\ UNCHANGED <<status, soft, loading>>
    /\ UNCHANGED retry

\* By codex, which is behind a proxy that replays nothing; a bridge refuses only a
\* client that it cannot parse.
InitializeRefused(r) ==
    /\ ~resuming
    /\ pending' = [pending EXCEPT ![r] = @ \ {Initialize}]
    /\ Catch(r, "refused")
    /\ UNCHANGED loading

ListLoaded(r) ==
    /\ pending' = [pending EXCEPT ![r] = @ \ {ThreadList}]
    /\ loading' = FALSE
    /\ UNCHANGED <<status, soft, retry, dial>>

\* A response goes to the record's client of the moment, whichever wire it came on;
\* what that client did not ask is dropped.
Handled(id) ==
    IF rpc # None /\ id \in pending[rpc]
    THEN IF id = Initialize THEN Initialized(rpc) \/ InitializeRefused(rpc) ELSE ListLoaded(rpc)
    ELSE UNCHANGED <<status, soft, retry, dial, loading, pending>>

\* What a step has newly asked goes out on the client's own wire.
Sent(a, id) ==
    asked' = [b \in Attempts |->
                 (IF b = a THEN asked[b] \ {id} ELSE asked[b]) \cup (pending'[b] \ pending[b])]

Answer(a, id) ==
    /\ wire[a] = "open" /\ id \in asked[a]
    /\ Handled(id)
    /\ Sent(a, id)
    /\ UNCHANGED <<attempt, transport, rpc, dropped, wire, resuming, unseen>>

\* A resumed session replays before it answers.
Replay(a, id) ==
    /\ resuming
    /\ wire[a] = "open" /\ id \in unseen /\ Initialize \in asked[a]
    /\ unseen' = unseen \ (1 .. id)
    /\ Handled(id)
    /\ Sent(a, None)
    /\ UNCHANGED <<attempt, transport, rpc, dropped, wire, resuming>>

-----------------------------------------------------------------------------
(* Teardown.                                                               *)

\* onClose, which leaves the rpc client and what it waits for alone.
Closed(a) == IF Current(a) THEN Failed("offline") ELSE UNCHANGED <<status, retry>>

\* The other side closes, or the network breaks; some answers stay unseen.
TransportCloses(a) ==
    /\ wire[a] = "open"
    /\ wire' = [wire EXCEPT ![a] = "closed"]
    /\ asked' = [asked EXCEPT ![a] = {}]
    /\ unseen' \in IF resuming THEN {unseen, unseen \cup asked[a]} ELSE {{}}
    /\ Closed(a)
    /\ UNCHANGED <<attempt, transport, rpc, soft, loading, dropped, dial, resuming, pending>>

\* rpc.close() rejects what is pending: a stale dial ends, a list stops loading.
CloseRecord ==
    /\ transport' = None /\ rpc' = None
    /\ pending' = [a \in Attempts |-> IF a = rpc THEN {} ELSE pending[a]]
    /\ loading' = (loading /\ ~(rpc # None /\ ThreadList \in pending[rpc]))
    /\ wire' = [a \in Attempts |-> IF a = transport THEN "closed" ELSE wire[a]]
    /\ asked' = [a \in Attempts |-> IF a = transport THEN {} ELSE asked[a]]
    /\ retry' = FALSE

EndedBy(d) ==
    [a \in Attempts |-> IF a = rpc /\ d[a] = "initializing" THEN "over" ELSE d[a]]

\* reconnect, which the user is offered unless connected: the counter is moved on
\* to outdate what is under way, and once more by the dial.
Reconnect ==
    /\ ~dropped /\ status \notin {"new", "connected"} /\ attempt + 2 \in Attempts
    /\ CloseRecord
    /\ attempt' = attempt + 2 /\ status' = "connecting"
    /\ soft' = attempt + 2
    /\ dial' = [EndedBy(dial) EXCEPT ![attempt + 2] = "opening"]
    /\ UNCHANGED <<dropped, resuming, unseen>>

\* dropConnection, and destroy for every record.
Drop ==
    /\ ~dropped /\ status # "new"
    /\ CloseRecord
    /\ dropped' = TRUE
    /\ soft' = None
    /\ dial' = EndedBy(dial)
    /\ UNCHANGED <<attempt, status, resuming, unseen>>

-----------------------------------------------------------------------------
Next ==
    \/ ConnectDevice \/ SoftTimeout \/ RetryFires \/ Reconnect \/ Drop
    \/ \E a \in Attempts :
          \/ ConnectFails(a) \/ TransportOpens(a) \/ ConnectResolves(a) \/ TransportCloses(a)
          \/ \E id \in Requests : Answer(a, id) \/ Replay(a, id)

Spec == Init /\ [][Next]_vars

-----------------------------------------------------------------------------
\* The client never wedges: a record shown offline has its redial timer armed, or a
\* dial under way whose outcome will arm it.
OfflineRetries ==
    status = "offline" /\ ~dropped =>
        \/ retry
        \/ dial[attempt] = "opening"
        \/ dial[attempt] = "initializing" /\ wire[attempt] = "open"

\* A record shown connected is so over the transport of its last attempt, whose own
\* client it uses, and no timer of an earlier failure will redial under it.
ConnectedIsCurrent ==
    status = "connected" /\ ~dropped =>
        /\ transport = attempt /\ rpc = attempt
        /\ wire[attempt] = "open"
        /\ ~retry /\ soft = None

\* Whatever was outdated while it was dialing leaves no stream open at the daemon:
\* an open one is the record's, or is about to be looked at, or its initialize was
\* refused.
NoStrayTransport ==
    \A a \in Attempts : wire[a] = "open" =>
        a = transport \/ dial[a] \in {"opening", "refused"}

-----------------------------------------------------------------------------
\* rpc.js:3-4: close() "rejects every request still owned by the client when its
\* transport is torn down".  A transport that closes by itself rejects nothing, and a
\* list that was loading then is loading for ever: no later connection loads it.
LoadingIsAsked ==
    loading /\ status = "connected" => \E a \in Attempts : ThreadList \in asked[a]
=============================================================================
