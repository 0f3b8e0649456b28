------------------------------ MODULE ThreadIndex ------------------------------
(***************************************************************************)
(* bridge-core's thread_index.rs: the catalogue of threads a bridge keeps  *)
(* in memory and in one JSON file.  A call changes the table under its     *)
(* write lock, then persists the table, whatever it is by then, under a    *)
(* lock of its own: to a shared temporary file, renamed over the index.    *)
(* The process may crash at any point and start again; clients page        *)
(* through the table meanwhile.                                            *)
(*                                                                         *)
(* A row is the number of the change that made it, which stands for its    *)
(* contents, and the time it is sorted by.                                 *)
(***************************************************************************)
EXTENDS Integers, Sequences, FiniteSets

CONSTANTS
    Ids,                    \* thread ids, ordered like the strings they are
    Times,                  \* values of updated_at
    Calls, Hydrator,        \* calls that change the index; the scan at a start
    Pagers,                 \* clients that list it page by page
    Limit,                  \* entries of a page
    Scanned,                \* threads the hydrator finds in the agent's files
    MaxCrashes              \* bound: crashes

ASSUME ThreadIndexAssumption ==
    /\ Ids \subseteq Nat /\ Times \subseteq Nat
    /\ Hydrator \notin Calls
    /\ Limit \in Nat \ {0}
    /\ Scanned \subseteq Ids /\ IsFiniteSet(Scanned)
    /\ MaxCrashes \in Nat

VARIABLES
    mode,                   \* is the process down, hydrating its index, or up?
    table,                  \* ThreadIndex.inner
    waiting,                \* persist_lock: its holder, then who waits for it
    pc, target, wrote,      \* of each call: progress, its row, its change
    snapshot,               \* of each call: what it writes
    tmp, file,              \* <index>.json.tmp and <index>.json
    changes,                \* changes made so far
    confirmed,              \* the last change of each row that was answered with Ok
    cursor, seen, steady,   \* of each pager; steady rows have not changed since
    crashes

callVars == <<pc, target, wrote, snapshot>>
lists == <<cursor, seen, steady>>
vars == <<mode, table, waiting, callVars, tmp, file, changes, confirmed, lists, crashes>>

Absent == [change |-> -1, updated |-> 0]
Row == [change : Nat, updated : Times]
NoRows == [t \in Ids |-> Absent]
Torn == [t \in Ids |-> [change |-> -2, updated |-> 0]]

Writers == Calls \cup {Hydrator}
Steps == {"idle", "changed", "queued", "holding", "writing", "written", "ok", "err", "lost"}
Finished == {"ok", "err", "lost"}

-----------------------------------------------------------------------------
(* Listing: sort_entries, cursor_after, and the page list cuts.            *)

Rows(t) == {i \in Ids : t[i] # Absent}
CursorOf(t, i) == [updated |-> t[i].updated, id |-> i]

\* Entry x comes after entry y, or after a cursor: by time, turned round when
\* descending, and then by id, which is not turned round.
After(x, y, direction) ==
    \/ IF direction = "desc" THEN x.updated < y.updated ELSE x.updated > y.updated
    \/ x.updated = y.updated /\ x.id > y.id

\* Bug: entries of the cursor's time count as listed.
BehindByTime(t, at, direction) ==
    {i \in Rows(t) : IF direction = "desc" THEN t[i].updated < at.updated
                     ELSE t[i].updated > at.updated}

Behind(t, at, direction) == {i \in Rows(t) : After(CursorOf(t, i), at, direction)}

\* The first Limit of the entries in rest.
Page(t, rest, direction) ==
    {i \in rest : Cardinality({j \in rest : After(CursorOf(t, i), CursorOf(t, j), direction)})
                      < Limit}

Last(t, page, direction) ==
    CHOOSE i \in page : \A j \in page : ~After(CursorOf(t, j), CursorOf(t, i), direction)

-----------------------------------------------------------------------------
Unstarted == [at |-> "unstarted"]
Exhausted == [at |-> "exhausted"]

TypeOK ==
    /\ mode \in {"down", "hydrating", "up"}
    /\ table \in [Ids -> Row \cup {Absent}]
    /\ waiting \in Seq(Writers)
    /\ pc \in [Writers -> Steps]
    /\ target \in [Writers -> Ids \cup {Hydrator}]
    /\ wrote \in [Writers -> Nat]
    /\ snapshot \in [Writers -> [Ids -> Row \cup {Absent}]]
    /\ tmp \in [Ids -> Row \cup {Absent}] \cup {Torn}
    /\ file \in [Ids -> Row \cup {Absent}]
    /\ changes \in Nat
    /\ confirmed \in [Ids -> Nat]
    /\ crashes \in 0 .. MaxCrashes

Init ==
    /\ mode = "down"
    /\ table = NoRows
    /\ waiting = <<>>
    /\ pc = [c \in Writers |-> "idle"]
    /\ target = [c \in Writers |-> Hydrator]
    /\ wrote = [c \in Writers |-> 0]
    /\ snapshot = [c \in Writers |-> NoRows]
    /\ tmp = NoRows /\ file = NoRows
    /\ changes = 0
    /\ confirmed = [t \in Ids |-> 0]
    /\ cursor = [p \in Pagers |-> Unstarted]
    /\ seen = [p \in Pagers |-> [t \in Ids |-> 0]]
    /\ steady = [p \in Pagers |-> {}]
    /\ crashes = 0

\* The table becomes t; to every pager its changed rows are no longer steady.
Becomes(t) ==
    /\ table' = t
    /\ steady' = [p \in Pagers |-> {i \in steady[p] : t[i] = table[i]}]

-----------------------------------------------------------------------------
(* Start and crash.                                                        *)

\* Bug: the scan replaces rows the file has.
HydratedOver(times) ==
    [t \in Ids |-> IF t \in Scanned THEN [change |-> 0, updated |-> times[t]] ELSE file[t]]

\* open_at, then hydrate_from: threads of the scan that the file does not have are
\* added, with the times of their files.
Hydrated(times) ==
    [t \in Ids |-> IF file[t] = Absent /\ t \in Scanned
                   THEN [change |-> 0, updated |-> times[t]] ELSE file[t]]

Open ==
    /\ mode = "down"
    /\ \E times \in [Scanned -> Times] :
          /\ Becomes(Hydrated(times))
          /\ IF Hydrated(times) = file
             THEN mode' = "up" /\ UNCHANGED pc
             ELSE mode' = "hydrating" /\ pc' = [pc EXCEPT ![Hydrator] = "changed"]
    /\ UNCHANGED <<waiting, target, wrote, snapshot, tmp, file, changes, confirmed, cursor, seen,
                   crashes>>

\* Nobody else is served before the hydrator's persist() is through.
HydrationEnds ==
    /\ mode = "hydrating" /\ pc[Hydrator] \in {"ok", "err"}
    /\ mode' = IF pc[Hydrator] = "ok" THEN "up" ELSE "down"
    /\ pc' = [pc EXCEPT ![Hydrator] = "idle"]
    /\ UNCHANGED <<table, waiting, target, wrote, snapshot, tmp, file, changes, confirmed, lists,
                   crashes>>

Crash ==
    /\ mode # "down" /\ crashes < MaxCrashes
    /\ mode' = "down"
    /\ waiting' = <<>>
    /\ pc' = [c \in Writers |-> IF c = Hydrator THEN "idle"
                                ELSE IF pc[c] \in {"idle"} \cup Finished THEN pc[c] ELSE "lost"]
    /\ crashes' = crashes + 1
    /\ UNCHANGED <<table, target, wrote, snapshot, tmp, file, changes, confirmed, lists>>

-----------------------------------------------------------------------------
(* The calls.                                                              *)

Change(c, t, row) ==
    /\ mode = "up" /\ pc[c] = "idle"
    /\ Becomes([table EXCEPT ![t] = row])
    /\ changes' = changes + 1
    /\ target' = [target EXCEPT ![c] = t]
    /\ wrote' = [wrote EXCEPT ![c] = changes + 1]
    /\ pc' = [pc EXCEPT ![c] = "changed"]
    /\ UNCHANGED <<mode, waiting, snapshot, tmp, file, confirmed, cursor, seen, crashes>>

Insert(c) ==
    \E t \in Ids, time \in Times : Change(c, t, [change |-> changes + 1, updated |-> time])

UpdatePreviewAndUpdatedAt(c) ==
    \E t \in Rows(table), time \in Times :
        Change(c, t, [change |-> changes + 1, updated |-> time])

\* set_archived, set_name, set_forked_from_id.
SetField(c) ==
    \E t \in Rows(table) : Change(c, t, [table[t] EXCEPT !.change = changes + 1])

\* Any of them but insert, for a thread that is not there: nothing is written.
Missing(c) ==
    /\ mode = "up" /\ pc[c] = "idle" /\ Rows(table) # Ids
    /\ pc' = [pc EXCEPT ![c] = "ok"]
    /\ UNCHANGED <<mode, table, waiting, target, wrote, snapshot, tmp, file, changes, confirmed,
                   lists, crashes>>

-----------------------------------------------------------------------------
(* persist().                                                              *)

StepTo(c, next) == pc' = [pc EXCEPT ![c] = next]

Queue(c) ==
    /\ pc[c] = "changed"
    /\ waiting' = Append(waiting, c)
    /\ StepTo(c, "queued")
    /\ UNCHANGED <<mode, table, target, wrote, snapshot, tmp, file, changes, confirmed, lists,
                   crashes>>

\* Bug: nobody waits for the lock.
HoldsAlways(c) == TRUE

Holds(c) == waiting # <<>> /\ Head(waiting) = c

TakeSnapshot(c) ==
    /\ pc[c] = "queued" /\ Holds(c)
    /\ snapshot' = [snapshot EXCEPT ![c] = table]
    /\ StepTo(c, "holding")
    /\ UNCHANGED <<mode, table, waiting, target, wrote, tmp, file, changes, confirmed, lists,
                   crashes>>

\* fs::write: the temporary file is truncated, then filled.
BeginWrite(c) ==
    /\ pc[c] = "holding" /\ Holds(c)
    /\ tmp' = Torn
    /\ StepTo(c, "writing")
    /\ UNCHANGED <<mode, table, waiting, target, wrote, snapshot, file, changes, confirmed, lists,
                   crashes>>

EndWrite(c) ==
    /\ pc[c] = "writing"
    /\ tmp' = snapshot[c]
    /\ StepTo(c, "written")
    /\ UNCHANGED <<mode, table, waiting, target, wrote, snapshot, file, changes, confirmed, lists,
                   crashes>>

\* Its holder leaves persist_lock.
Release == waiting' = Tail(waiting)

\* The rename, and the caller's Ok.
Rename(c) ==
    /\ pc[c] = "written"
    /\ file' = tmp
    /\ Release
    /\ StepTo(c, "ok")
    /\ confirmed' = [t \in Ids |-> IF target[c] = t /\ wrote[c] > confirmed[t]
                                   THEN wrote[c] ELSE confirmed[t]]
    /\ UNCHANGED <<mode, table, target, wrote, snapshot, tmp, changes, lists, crashes>>

\* The write or the rename fails: the table keeps the change, the caller gets Err.
PersistFails(c) ==
    /\ pc[c] \in {"holding", "writing", "written"} /\ Holds(c)
    /\ Release
    /\ StepTo(c, "err")
    /\ UNCHANGED <<mode, table, target, wrote, snapshot, tmp, file, changes, confirmed, lists,
                   crashes>>

-----------------------------------------------------------------------------
(* list, once per page.                                                    *)

\* The page is shown; the cursor is its last entry if there is more to list.
Show(p, rest, direction) ==
    LET page == Page(table, rest, direction) IN
    /\ seen' = [seen EXCEPT ![p] = [i \in Ids |-> IF i \in page THEN @[i] + 1 ELSE @[i]]]
    /\ cursor' = [cursor EXCEPT ![p] =
           IF page = rest THEN Exhausted
           ELSE [at |-> CursorOf(table, Last(table, page, direction)), direction |-> direction]]

ListFirst(p) ==
    /\ mode = "up" /\ cursor[p] = Unstarted
    /\ \E direction \in {"asc", "desc"} : Show(p, Rows(table), direction)
    /\ steady' = [steady EXCEPT ![p] = Rows(table)]
    /\ UNCHANGED <<mode, table, waiting, callVars, tmp, file, changes, confirmed, crashes>>

ListNext(p) ==
    /\ mode = "up" /\ cursor[p] \notin {Unstarted, Exhausted}
    /\ Show(p, Behind(table, cursor[p].at, cursor[p].direction), cursor[p].direction)
    /\ UNCHANGED <<mode, table, waiting, callVars, tmp, file, changes, confirmed, steady, crashes>>

-----------------------------------------------------------------------------
Persist(c) ==
    \/ Queue(c) \/ TakeSnapshot(c) \/ BeginWrite(c) \/ EndWrite(c) \/ Rename(c) \/ PersistFails(c)

Call(c) == Insert(c) \/ UpdatePreviewAndUpdatedAt(c) \/ SetField(c) \/ Missing(c)

Next ==
    \/ Open \/ HydrationEnds \/ Crash
    \/ \E c \in Calls : Call(c)
    \/ \E c \in Writers : Persist(c)
    \/ \E p \in Pagers : ListFirst(p) \/ ListNext(p)

Spec == Init /\ [][Next]_vars

-----------------------------------------------------------------------------
\* What a caller was told is stored is in the file -- that change of the row or a
\* later one -- whoever else writes, whatever fails, and wherever the process dies.
ConfirmedOnDisk == \A t \in Ids : confirmed[t] > 0 => file[t].change >= confirmed[t]

\* A late writer never puts an older row, or a torn file, over a newer one.
NeverBack == [][\A t \in Ids : file'[t].change >= file[t].change]_vars

\* A client that has paged to the end has seen every row that did not change
\* meanwhile, and saw it once, whatever happened to the rows around it, their ties,
\* or the process.
PagesExact ==
    \A p \in Pagers : cursor[p] = Exhausted => \A i \in steady[p] : seen[p][i] = 1

\* thread_index.rs:117-120: a page's backwards cursor, in the opposite direction,
\* "navigates back toward (but past) this anchor".  Rows of the anchor's time are
\* listed on the wrong side of it.
BackwardsIsBack ==
    \A i \in Rows(table) :
        Behind(table, CursorOf(table, i), "asc")
            = Rows(table) \ (Behind(table, CursorOf(table, i), "desc") \cup {i})
=============================================================================
