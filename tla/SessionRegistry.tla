--------------------------- MODULE SessionRegistry ---------------------------
(***************************************************************************)
(* The registry of registry.rs: sessions by key (node id, agent), minted   *)
(* by the streams that resolve them and dropped by the reaper.  Of a       *)
(* session it keeps what the reaper looks at: who is attached, how long it *)
(* has been detached, whether requests are outstanding.  install and drop  *)
(* of an attachment are one step each here; Session has their insides.     *)
(***************************************************************************)
EXTENDS Integers, FiniteSets

CONSTANTS
    Keys,
    Sessions, NoSession,    \* one name for each session that is ever minted
    Streams, NoStream,
    ResponseFails,          \* may the Connect response fail to be written?
    MaxPrompts              \* bound of the model: requests the agents make

ASSUME RegistryAssumption ==
    /\ NoSession \notin Sessions /\ NoStream \notin Streams
    /\ ResponseFails \in BOOLEAN
    /\ MaxPrompts \in Nat

VARIABLES
    registry,               \* the map: session of each key
    minted,                 \* sessions created so far, with their key
    attached,               \* stream whose attachment sits in each session
    age,                    \* how long ago detached_at is; "none" if None
    waiting,                \* sessions with outstanding requests
    prompts,                \* requests made so far
    stream,                 \* control state of each stream
    held,                   \* the session a stream has resolved
    reaper,                 \* control state of tick
    snapshot,               \* phase 1: sessions it has yet to look at
    expired,                \* phase 1: the session it has found expired
    toDrop,                 \* phase 2: keys it has decided to remove
    dropped                 \* sessions the reaper has removed

sessionVars == <<minted, attached, age, waiting, prompts>>
streamVars == <<stream, held>>
reapVars == <<reaper, snapshot, expired, toDrop, dropped>>
registryVars == <<registry, sessionVars, streamVars, reapVars>>

RegistryTypeOK ==
    /\ registry \in [Keys -> Sessions \cup {NoSession}]
    /\ minted \subseteq Sessions \X Keys
    /\ attached \in [Sessions -> Streams \cup {NoStream}]
    /\ age \in [Sessions -> {"none", "fresh", "graced", "idle"}]
    /\ waiting \subseteq Sessions
    /\ prompts \in 0 .. MaxPrompts
    /\ stream \in [Streams -> {"new", "resolved", "installed", "closed"}]
    /\ held \in [Streams -> Sessions \cup {NoSession}]
    /\ reaper \in {"asleep", "checking", "cancelling", "collecting", "dropping"}
    /\ snapshot \subseteq Sessions
    /\ expired \in Sessions \cup {NoSession}
    /\ toDrop \subseteq Keys
    /\ dropped \subseteq Sessions

RegistryInit ==
    /\ registry = [k \in Keys |-> NoSession]
    /\ minted = {}
    /\ attached = [s \in Sessions |-> NoStream]
    /\ age = [s \in Sessions |-> "none"]
    /\ waiting = {}
    /\ prompts = 0
    /\ stream = [c \in Streams |-> "new"]
    /\ held = [c \in Streams |-> NoSession]
    /\ reaper = "asleep"
    /\ snapshot = {} /\ expired = NoSession /\ toDrop = {} /\ dropped = {}

Registered == {registry[k] : k \in Keys} \ {NoSession}
Minted == {m[1] : m \in minted}

\* A stream that has resolved the session and will install or give up.
Awaited(s) == \E c \in Streams : held[c] = s /\ stream[c] = "resolved"

-----------------------------------------------------------------------------
(* Streams.                                                                *)

\* Bug: only an attached session is worth resuming; another one is replaced.
ResolveAttachedOnly(c, k) ==
    /\ stream[c] = "new"
    /\ LET found == registry[k] IN
       IF found # NoSession /\ attached[found] # NoStream
       THEN /\ held' = [held EXCEPT ![c] = found]
            /\ UNCHANGED <<registry, minted>>
       ELSE \E s \in Sessions \ Minted :
               /\ registry' = [registry EXCEPT ![k] = s]
               /\ minted' = minted \cup {<<s, k>>}
               /\ held' = [held EXCEPT ![c] = s]
    /\ stream' = [stream EXCEPT ![c] = "resolved"]
    /\ UNCHANGED <<attached, age, waiting, prompts, reapVars>>

\* resolve_attach: get or create, under one lock.
Resolve(c, k) ==
    /\ stream[c] = "new"
    /\ IF registry[k] # NoSession
       THEN /\ held' = [held EXCEPT ![c] = registry[k]]
            /\ UNCHANGED <<registry, minted>>
       ELSE \E s \in Sessions \ Minted :
               /\ registry' = [registry EXCEPT ![k] = s]
               /\ minted' = minted \cup {<<s, k>>}
               /\ held' = [held EXCEPT ![c] = s]
    /\ stream' = [stream EXCEPT ![c] = "resolved"]
    /\ UNCHANGED <<attached, age, waiting, prompts, reapVars>>

\* The response could not be written, or the agent not be reached:
\* handle_stream returns.
GiveUp(c) ==
    /\ ResponseFails
    /\ stream[c] = "resolved"
    /\ stream' = [stream EXCEPT ![c] = "closed"]
    /\ UNCHANGED <<registry, sessionVars, held, reapVars>>

Install(c) ==
    /\ stream[c] = "resolved"
    /\ attached' = [attached EXCEPT ![held[c]] = c]
    /\ age' = [age EXCEPT ![held[c]] = "none"]
    /\ stream' = [stream EXCEPT ![c] = "installed"]
    /\ UNCHANGED <<registry, minted, waiting, prompts, held, reapVars>>

\* drop_attachment empties the slot, whoever is in it.
Drop(c) ==
    /\ stream[c] = "installed"
    /\ attached' = [attached EXCEPT ![held[c]] = NoStream]
    /\ age' = [age EXCEPT ![held[c]] = "fresh"]
    /\ stream' = [stream EXCEPT ![c] = "closed"]
    /\ UNCHANGED <<registry, minted, waiting, prompts, held, reapVars>>

-----------------------------------------------------------------------------
(* The agents behind the sessions, and the clock.                          *)

Served(s) == \E c \in Streams : held[c] = s /\ stream[c] \in {"installed", "closed"}

\* A turn goes on while its client is away: it may ask at any time.
Prompt(s) ==
    /\ prompts < MaxPrompts /\ Served(s)
    /\ prompts' = prompts + 1
    /\ waiting' = waiting \cup {s}
    /\ UNCHANGED <<registry, minted, attached, age, streamVars, reapVars>>

\* A response arrives, on any stream of the session that is still read, or the
\* caller's own timer forgets the request.
Answer(s) ==
    /\ s \in waiting
    /\ waiting' = waiting \ {s}
    /\ UNCHANGED <<registry, minted, attached, age, prompts, streamVars, reapVars>>

\* pending_grace, then idle_ttl, have passed since detached_at.
Ages(s) ==
    /\ age[s] \in {"fresh", "graced"}
    /\ age' = [age EXCEPT ![s] = IF @ = "fresh" THEN "graced" ELSE "idle"]
    /\ UNCHANGED <<registry, minted, attached, waiting, prompts, streamVars, reapVars>>

-----------------------------------------------------------------------------
(* The reaper.                                                             *)

\* The snapshot of phase 1.
Wake ==
    /\ reaper = "asleep"
    /\ snapshot' = Registered
    /\ reaper' = "checking"
    /\ UNCHANGED <<registry, sessionVars, streamVars, expired, toDrop, dropped>>

\* Bug: prompts of a session nobody comes back to are never cancelled.
CheckSkipsOutstanding(s) ==
    /\ reaper = "checking" /\ s \in snapshot
    /\ snapshot' = snapshot \ {s}
    /\ UNCHANGED <<registry, sessionVars, streamVars, reaper, expired, toDrop, dropped>>

Check(s) ==
    /\ reaper = "checking" /\ s \in snapshot
    /\ snapshot' = snapshot \ {s}
    /\ IF age[s] \in {"graced", "idle"} /\ s \in waiting
       THEN reaper' = "cancelling" /\ expired' = s
       ELSE UNCHANGED <<reaper, expired>>
    /\ UNCHANGED <<registry, sessionVars, streamVars, toDrop, dropped>>

\* cancel_all_pending.
Cancel ==
    /\ reaper = "cancelling"
    /\ waiting' = waiting \ {expired}
    /\ reaper' = "checking"
    /\ expired' = NoSession
    /\ UNCHANGED <<registry, minted, attached, age, prompts, streamVars, snapshot, toDrop,
                   dropped>>

\* Phase 2 picks its victims under one lock ...
Collect ==
    /\ reaper = "checking" /\ snapshot = {}
    /\ toDrop' = {k \in Keys : /\ registry[k] # NoSession
                               /\ age[registry[k]] = "idle"
                               /\ registry[k] \notin waiting}
    /\ reaper' = "dropping"
    /\ UNCHANGED <<registry, sessionVars, streamVars, snapshot, expired, dropped>>

\* ... and removes them under the next.
DropSessions ==
    /\ reaper = "dropping"
    /\ registry' = [k \in Keys |-> IF k \in toDrop THEN NoSession ELSE registry[k]]
    /\ dropped' = dropped \cup ({registry[k] : k \in toDrop} \ {NoSession})
    /\ toDrop' = {}
    /\ reaper' = "asleep"
    /\ UNCHANGED <<sessionVars, streamVars, snapshot, expired>>

Reap == Wake \/ Cancel \/ Collect \/ DropSessions \/ \E s \in Sessions : Check(s)

RegistryNext ==
    \/ \E c \in Streams :
          \/ \E k \in Keys : Resolve(c, k)
          \/ GiveUp(c) \/ Install(c) \/ Drop(c)
    \/ \E s \in Sessions : Prompt(s) \/ Answer(s) \/ Ages(s)
    \/ Reap

RegistrySpec == RegistryInit /\ [][RegistryNext]_registryVars

\* The reaper ticks for ever, time passes, and a stream that has resolved goes
\* on.  Nothing makes a client leave or answer.
FairRegistrySpec ==
    /\ RegistrySpec
    /\ WF_registryVars(Reap)
    /\ \A s \in Sessions : WF_registryVars(Ages(s))
    /\ \A c \in Streams : WF_registryVars(Install(c) \/ GiveUp(c))

-----------------------------------------------------------------------------
\* Every session ever minted is the one its key resolves to, unless the reaper
\* has dropped it: concurrent streams share it, none is replaced or lost.
NoneReplaced == \A m \in minted : m[1] \in dropped \/ registry[m[2]] = m[1]

\* A session that was left behind is dropped in the end, also when it has an
\* approval prompt nobody answers, unless somebody attaches to it again.
AbandonedIsDropped ==
    \A s \in Sessions :
        (attached[s] = NoStream /\ age[s] # "none") ~> (s \in dropped \/ attached[s] # NoStream)

-----------------------------------------------------------------------------
(* What the documentation says, and the code does not do.                  *)

\* registry.rs:1-2: the registry is "the daemon-lifetime owner of all live
\* sessions".  A stream that attaches between Collect and DropSessions is
\* left on a session no later Connect will find.
AttachedIsRegistered ==
    \A s \in Sessions : attached[s] # NoStream => s \in Registered
=============================================================================
