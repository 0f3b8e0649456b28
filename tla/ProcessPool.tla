----------------------------- MODULE ProcessPool -----------------------------
(***************************************************************************)
(* The agent-process pool of pool.rs, with the tasks that call it:         *)
(*   acquirers  spawn_with_capacity_check: make room, spawn, track         *)
(*   turns      turn/start up to the end of its event pump                 *)
(* Every lock section of the code is one step.  shutdown().await, the      *)
(* spawn, and whatever a turn does run between sections, unlocked.         *)
(* A client starts a turn on a thread only once it was told that the       *)
(* thread's previous turn is completed.                                    *)
(***************************************************************************)
EXTENDS Integers, FiniteSets

CONSTANTS
    Threads, NoThread,
    Cwds, NoCwd,
    Processes, NoProcess,   \* agent children; a name is reused once unused
    Acquirers,              \* handlers running spawn_with_capacity_check
    Turns,                  \* handlers running turn/start, with their pumps
    MaxProcesses            \* max_processes, raised to at least 1

ASSUME PoolAssumption ==
    /\ NoThread \notin Threads /\ NoCwd \notin Cwds /\ NoProcess \notin Processes
    /\ IsFiniteSet(Acquirers)
    /\ MaxProcesses \in Nat \ {0}

VARIABLES
    process,                \* handle of each entry, NoProcess where there is none
    home,                   \* cwd of each entry
    active,                 \* entries with active = true
    older,                  \* <<t, u>>: t's last_active is before u's
    byCwd,                  \* by_cwd
    alive,                  \* processes that are running
    pc,                     \* control state of each acquirer
    thread, cwd,            \* what it acquires
    condemned,              \* threads it has decided to remove
    holds,                  \* process it has spawned, or is shutting down
    turn,                   \* control state of each turn
    on, using               \* its thread, and the handle get() gave it

entryVars == <<process, home, active, older, byCwd>>
acquireVars == <<pc, thread, cwd, condemned, holds>>
turnVars == <<turn, on, using>>
poolVars == <<entryVars, alive, acquireVars, turnVars>>

Tracked == {t \in Threads : process[t] # NoProcess}
Idle == Tracked \ active

PoolTypeOK ==
    /\ process \in [Threads -> Processes \cup {NoProcess}]
    /\ home \in [Threads -> Cwds \cup {NoCwd}]
    /\ active \subseteq Tracked
    /\ older \subseteq Tracked \X Tracked
    /\ byCwd \in [Cwds -> SUBSET Threads]
    /\ alive \subseteq Processes
    /\ pc \in [Acquirers -> {"idle", "checking", "collecting", "reaping", "shutting",
                             "confirming", "spawning", "tracking", "rejected"}]
    /\ thread \in [Acquirers -> Threads \cup {NoThread}]
    /\ cwd \in [Acquirers -> Cwds \cup {NoCwd}]
    /\ condemned \in [Acquirers -> SUBSET Threads]
    /\ holds \in [Acquirers -> Processes \cup {NoProcess}]
    /\ turn \in [Turns -> {"idle", "found", "marked", "running", "ended"}]
    /\ on \in [Turns -> Threads \cup {NoThread}]
    /\ using \in [Turns -> Processes \cup {NoProcess}]

PoolInit ==
    /\ process = [t \in Threads |-> NoProcess]
    /\ home = [t \in Threads |-> NoCwd]
    /\ active = {} /\ older = {}
    /\ byCwd = [c \in Cwds |-> {}]
    /\ alive = {}
    /\ pc = [k \in Acquirers |-> "idle"]
    /\ thread = [k \in Acquirers |-> NoThread]
    /\ cwd = [k \in Acquirers |-> NoCwd]
    /\ condemned = [k \in Acquirers |-> {}]
    /\ holds = [k \in Acquirers |-> NoProcess]
    /\ turn = [u \in Turns |-> "idle"]
    /\ on = [u \in Turns |-> NoThread]
    /\ using = [u \in Turns |-> NoProcess]

-----------------------------------------------------------------------------
(* The table, under its lock.                                              *)

Without(t) == {p \in older : t \notin {p[1], p[2]}}

\* Recency once t's last_active is now.
Touched(t) == Without(t) \cup ((Tracked \ {t}) \X {t})

\* Bug: an entry is inserted without being listed under its cwd.
InsertUnlisted(t, c, h) ==
    /\ process' = [process EXCEPT ![t] = h]
    /\ home' = [home EXCEPT ![t] = c]
    /\ active' = active \ {t}
    /\ older' = Touched(t)
    /\ UNCHANGED byCwd

Insert(t, c, h) ==
    /\ process' = [process EXCEPT ![t] = h]
    /\ home' = [home EXCEPT ![t] = c]
    /\ active' = active \ {t}
    /\ older' = Touched(t)
    /\ byCwd' = [byCwd EXCEPT ![c] = @ \cup {t}]

Remove(t) ==
    /\ process' = [process EXCEPT ![t] = NoProcess]
    /\ home' = [home EXCEPT ![t] = NoCwd]
    /\ active' = active \ {t}
    /\ older' = Without(t)
    /\ byCwd' = [byCwd EXCEPT ![home[t]] = @ \ {t}]

\* mark_active and mark_idle: no-ops on a thread that has been removed.
Mark(t, busy) ==
    /\ IF t \in Tracked
       THEN /\ active' = IF busy THEN active \cup {t} ELSE active \ {t}
            /\ older' = Touched(t)
       ELSE UNCHANGED <<active, older>>
    /\ UNCHANGED <<process, home, byCwd>>

\* Idle threads whose last_active is at least idle_ttl ago: nobody idle for
\* longer than one of them is left out.
Expired ==
    {E \in SUBSET Idle : \A e \in E, t \in Idle : <<t, e>> \in older => t \in E}

LruIdle == {v \in Idle : \A t \in Idle : <<t, v>> \notin older}

Full == Cardinality(Tracked) >= MaxProcesses

-----------------------------------------------------------------------------
(* An acquirer.                                                            *)

GoTo(k, to) ==
    /\ pc' = [pc EXCEPT ![k] = to]
    /\ UNCHANGED <<thread, cwd>>

\* The acquire is over, with a handle or with an error.
Return(k) ==
    /\ pc' = [pc EXCEPT ![k] = "idle"]
    /\ thread' = [thread EXCEPT ![k] = NoThread]
    /\ cwd' = [cwd EXCEPT ![k] = NoCwd]

\* The handler's get(t) gave nothing, or t is a newly minted id.
Acquire(k, t, c) ==
    /\ pc[k] = "idle" /\ t \notin Tracked
    /\ pc' = [pc EXCEPT ![k] = "checking"]
    /\ thread' = [thread EXCEPT ![k] = t]
    /\ cwd' = [cwd EXCEPT ![k] = c]
    /\ UNCHANGED <<entryVars, alive, condemned, holds, turnVars>>

CheckDuplicate(k) ==
    /\ pc[k] = "checking"
    /\ IF thread[k] \in Tracked THEN Return(k) ELSE GoTo(k, "collecting")
    /\ UNCHANGED <<entryVars, alive, condemned, holds, turnVars>>

CollectExpired(k) ==
    /\ pc[k] = "collecting"
    /\ condemned' \in {[condemned EXCEPT ![k] = E] : E \in Expired}
    /\ GoTo(k, "reaping")
    /\ UNCHANGED <<entryVars, alive, holds, turnVars>>

\* The removal of reap_idle and of the eviction loop: whatever the thread has
\* become since it was chosen.
RemoveNext(k) ==
    /\ pc[k] = "reaping"
    /\ \E t \in condemned[k] :
          /\ condemned' = [condemned EXCEPT ![k] = @ \ {t}]
          /\ IF t \in Tracked
             THEN /\ Remove(t)
                  /\ holds' = [holds EXCEPT ![k] = process[t]]
                  /\ GoTo(k, "shutting")
             ELSE UNCHANGED <<entryVars, holds, pc, thread, cwd>>
    /\ UNCHANGED <<alive, turnVars>>

\* shutdown().await, of a removed process or of one track_new refused.
ShutDown(k) ==
    /\ pc[k] \in {"shutting", "rejected"}
    /\ alive' = alive \ {holds[k]}
    /\ holds' = [holds EXCEPT ![k] = NoProcess]
    /\ IF pc[k] = "shutting" THEN GoTo(k, "reaping") ELSE Return(k)
    /\ UNCHANGED <<entryVars, condemned, turnVars>>

\* The top of the loop of ensure_capacity_for.
PickVictim(k) ==
    /\ pc[k] = "reaping" /\ condemned[k] = {}
    /\ \/ /\ Full
          /\ \E v \in LruIdle : condemned' = [condemned EXCEPT ![k] = {v}]
          /\ UNCHANGED <<pc, thread, cwd>>
       \/ /\ ~Full \/ Idle = {}
          /\ GoTo(k, "confirming")
          /\ UNCHANGED condemned
    /\ UNCHANGED <<entryVars, alive, holds, turnVars>>

\* Bug: the second look at the table is skipped.
ConfirmUnchecked(k) ==
    /\ pc[k] = "confirming"
    /\ GoTo(k, "spawning")
    /\ UNCHANGED <<entryVars, alive, condemned, holds, turnVars>>

\* Bug: a full pool is waited out instead of reported.
ConfirmWaits(k) ==
    /\ pc[k] = "confirming"
    /\ GoTo(k, IF Full THEN "reaping" ELSE "spawning")
    /\ UNCHANGED <<entryVars, alive, condemned, holds, turnVars>>

\* No victim was picked: a second look at the table decides.
ConfirmRoom(k) ==
    /\ pc[k] = "confirming"
    /\ IF Full THEN Return(k) ELSE GoTo(k, "spawning")
    /\ UNCHANGED <<entryVars, alive, condemned, holds, turnVars>>

Unused(h) ==
    /\ h \notin alive
    /\ \A t \in Threads : process[t] # h
    /\ \A k \in Acquirers : holds[k] # h
    /\ \A u \in Turns : using[u] # h

Spawn(k) ==
    /\ pc[k] = "spawning"
    /\ \E h \in Processes : Unused(h)
    /\ LET h == CHOOSE h \in Processes : Unused(h)
       IN  /\ holds' = [holds EXCEPT ![k] = h]
           /\ alive' = alive \cup {h}
    /\ GoTo(k, "tracking")
    /\ UNCHANGED <<entryVars, condemned, turnVars>>

SpawnFails(k) ==
    /\ pc[k] = "spawning"
    /\ Return(k)
    /\ UNCHANGED <<entryVars, alive, condemned, holds, turnVars>>

\* Bug: an entry that a racing acquirer tracked first is overwritten.
TrackOver(k) ==
    /\ pc[k] = "tracking"
    /\ Insert(thread[k], cwd[k], holds[k])
    /\ holds' = [holds EXCEPT ![k] = NoProcess]
    /\ Return(k)
    /\ UNCHANGED <<alive, condemned, turnVars>>

TrackNew(k) ==
    /\ pc[k] = "tracking"
    /\ IF thread[k] \in Tracked
       THEN /\ GoTo(k, "rejected")
            /\ UNCHANGED <<entryVars, holds>>
       ELSE /\ Insert(thread[k], cwd[k], holds[k])
            /\ holds' = [holds EXCEPT ![k] = NoProcess]
            /\ Return(k)
    /\ UNCHANGED <<alive, condemned, turnVars>>

AcquireStep(k) ==
    \/ CheckDuplicate(k) \/ CollectExpired(k) \/ RemoveNext(k) \/ ShutDown(k)
    \/ PickVictim(k) \/ ConfirmRoom(k) \/ Spawn(k) \/ SpawnFails(k) \/ TrackNew(k)

-----------------------------------------------------------------------------
(* A turn.                                                                 *)

TurnTo(u, to) == turn' = [turn EXCEPT ![u] = to]

TurnOver(u) ==
    /\ TurnTo(u, "idle")
    /\ on' = [on EXCEPT ![u] = NoThread]
    /\ using' = [using EXCEPT ![u] = NoProcess]

\* Another handler's get(t): thread/resume, turn/steer, turn/interrupt.
Get(t) ==
    /\ t \in Tracked
    /\ older' = Touched(t)
    /\ UNCHANGED <<process, home, active, byCwd, alive, acquireVars, turnVars>>

StartTurn(u, t) ==
    /\ turn[u] = "idle" /\ t \in Tracked
    /\ \A w \in Turns : on[w] = t => turn[w] \in {"idle", "ended"}
    /\ older' = Touched(t)
    /\ TurnTo(u, "found")
    /\ on' = [on EXCEPT ![u] = t]
    /\ using' = [using EXCEPT ![u] = process[t]]
    /\ UNCHANGED <<process, home, active, byCwd, alive, acquireVars>>

\* An early return of turn/start before it has marked the thread.
OverridesFail(u) ==
    /\ turn[u] = "found"
    /\ TurnOver(u)
    /\ UNCHANGED <<entryVars, alive, acquireVars>>

MarkActive(u) ==
    /\ turn[u] = "found"
    /\ Mark(on[u], TRUE)
    /\ TurnTo(u, "marked")
    /\ UNCHANGED <<alive, acquireVars, on, using>>

\* send_serialized fails once shutdown has aborted the writer task.
SendPrompt(u) ==
    /\ turn[u] = "marked"
    /\ TurnTo(u, IF using[u] \in alive THEN "running" ELSE "ended")
    /\ UNCHANGED <<entryVars, alive, acquireVars, on, using>>

\* The pump has sent turn/completed.
Complete(u) ==
    /\ turn[u] = "running"
    /\ TurnTo(u, "ended")
    /\ UNCHANGED <<entryVars, alive, acquireVars, on, using>>

MarkIdle(u) ==
    /\ turn[u] = "ended"
    /\ Mark(on[u], FALSE)
    /\ TurnOver(u)
    /\ UNCHANGED <<alive, acquireVars>>

-----------------------------------------------------------------------------
PoolNext ==
    \/ \E k \in Acquirers :
          \/ \E t \in Threads, c \in Cwds : Acquire(k, t, c)
          \/ AcquireStep(k)
    \/ \E t \in Threads : Get(t)
    \/ \E u \in Turns :
          \/ \E t \in Threads : StartTurn(u, t)
          \/ OverridesFail(u) \/ MarkActive(u) \/ SendPrompt(u)
          \/ Complete(u) \/ MarkIdle(u)

PoolSpec == PoolInit /\ [][PoolNext]_poolVars

\* An acquire runs on: no lock is held across an await, a shutdown kills the
\* child and waits for it, a spawn returns.  Turns may take for ever.
FairPoolSpec == PoolSpec /\ \A k \in Acquirers : WF_poolVars(AcquireStep(k))

-----------------------------------------------------------------------------
\* by_cwd lists exactly the entries of processes, each under its own cwd
\* (insert and remove, pool.rs:82-99), whoever removes, rejects or tracks.
IndexInLockstep == \A c \in Cwds : byCwd[c] = {t \in Tracked : home[t] = c}

\* No agent child is forgotten: each one that runs belongs to an entry or is
\* in the hands of the task that is about to track it or to shut it down.
NoOrphan == alive \subseteq {process[t] : t \in Threads} \cup {holds[k] : k \in Acquirers}

\* The cap can be passed, but never by more than the number of acquires that
\* run at once: entries and spawns under way stay below max_processes plus
\* the acquires beyond the first.
Spawning == {k \in Acquirers : pc[k] \in {"spawning", "tracking"}}
OverCapBounded ==
    Cardinality(Tracked) + Cardinality(Spawning) < MaxProcesses + Cardinality(Acquirers)

\* ensure_capacity_for ends, however many threads it has to shut down, also
\* when every thread is active, unless other tasks put a process into the
\* room it makes again and again.
AcquireEnds ==
    \A k \in Acquirers :
        \/ []<>(\E j \in Acquirers \ {k} : pc[j] = "tracking")
        \/ pc[k] = "checking" ~> pc[k] = "idle"

-----------------------------------------------------------------------------
(* What the documentation says, and the code does not do.                  *)

\* pool.rs:69-71: "The reaper never evicts threads with active=true".  It
\* collects idle threads under one lock and removes them under later ones,
\* after shutting down the ones before: a turn may have started by then.
ActiveNeverRemoved == [][active \subseteq Tracked']_poolVars
=============================================================================
