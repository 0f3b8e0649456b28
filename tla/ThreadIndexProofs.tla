--------------------------- MODULE ThreadIndexProofs ---------------------------
(***************************************************************************)
(* What the index of ThreadIndex keeps on disk, for any number of threads, *)
(* callers and crashes.  Along a persist the versions only grow: the file  *)
(* is behind the holder's snapshot, which is behind the table.  And what a *)
(* client is shown that pages through the list while it changes: no row is *)
(* between two pages, or on both.                                          *)
(***************************************************************************)
EXTENDS ThreadIndex, FiniteSetTheorems, WellFoundedInduction, TLAPS

Critical(c) == pc[c] \in {"holding", "writing", "written"}
Busy(c) == pc[c] \in {"changed", "queued"} \/ Critical(c)

\* Every row of s is the same as in t or newer.
Covers(s, t) == \A i \in Ids : s[i].change >= t[i].change

\* Who may be persisting in each mode, and that one does so at a time.
Turns ==
    /\ mode # "up" => \A c \in Calls : ~Busy(c)
    /\ mode # "hydrating" => ~Busy(Hydrator)
    /\ \A c \in Writers : Critical(c) => Holds(c)

\* No row is of a change that was not made.
Numbered == \A i \in Ids : table[i].change <= changes /\ file[i].change <= changes

\* The file is behind what is about to replace it, and that behind the table.
Behindhand ==
    /\ mode # "down" => Covers(table, file)
    /\ \A c \in Writers : Critical(c) => Covers(table, snapshot[c]) /\ Covers(snapshot[c], file)
    /\ \A c \in Writers : pc[c] = "written" => tmp = snapshot[c]

\* A caller's change is in the table from the start and in what the caller writes.
Carried ==
    /\ wrote[Hydrator] = 0
    /\ \A c \in Writers : wrote[c] > 0 => target[c] \in Ids
    /\ \A c \in Writers : Busy(c) /\ wrote[c] > 0 => table[target[c]].change >= wrote[c]
    /\ \A c \in Writers : Critical(c) /\ wrote[c] > 0 => snapshot[c][target[c]].change >= wrote[c]

IndexInv == TypeOK /\ Turns /\ Numbered /\ Behindhand /\ Carried /\ ConfirmedOnDisk

LEMMA RowChange == \A r \in Row \cup {Absent} : r.change \in Int
BY DEF Row, Absent

LEMMA IndexInit == Init => IndexInv
BY ThreadIndexAssumption
   DEF Init, IndexInv, TypeOK, Turns, Busy, Critical, Numbered, Behindhand, Covers, Carried,
       ConfirmedOnDisk, Writers, Steps, NoRows, Absent, Row

LEMMA OpenStep == IndexInv /\ Open => IndexInv'
<1> SUFFICES ASSUME IndexInv, NEW times \in [Scanned -> Times], table' = Hydrated(times),
                    mode = "down",
                    \/ mode' = "up" /\ UNCHANGED pc
                    \/ mode' = "hydrating" /\ pc' = [pc EXCEPT ![Hydrator] = "changed"],
                    UNCHANGED <<waiting, target, wrote, snapshot, tmp, file, changes, confirmed,
                                crashes>>
             PROVE  IndexInv'
  BY DEF Open, Becomes
<1> USE ThreadIndexAssumption DEF IndexInv
<1>1. \A i \in Ids : \/ file[i] # Absent /\ table'[i] = file[i]
                     \/ file[i] = Absent /\ table'[i] = Absent
                     \/ file[i] = Absent /\ table'[i] \in Row /\ table'[i].change = 0
  BY DEF Hydrated, Row
<1>2. table' \in [Ids -> Row \cup {Absent}]
  <2>1. table' = [i \in Ids |-> table'[i]]
    BY DEF Hydrated
  <2> QED
    BY <1>1, <2>1 DEF TypeOK
<1>3. TypeOK'
  BY <1>2 DEF TypeOK, Writers, Steps
<1>4. Turns'
  BY DEF TypeOK, Turns, Busy, Critical, Writers, Holds
<1>5. \A i \in Ids : table'[i].change >= file[i].change /\ table'[i].change <= changes
  <2> TAKE i \in Ids
  <2>1. file[i].change <= changes /\ file[i].change \in Int /\ changes \in Nat
    BY RowChange DEF TypeOK, Numbered
  <2>2. CASE table'[i] = file[i]
    BY <2>1, <2>2
  <2>3. CASE file[i] = Absent /\ table'[i].change = 0
    BY <2>1, <2>3 DEF Absent
  <2> QED
    BY <1>1, <2>2, <2>3
<1>6. \A c \in Writers : ~Busy(c) /\ ~Critical(c)'
  BY DEF Turns, TypeOK, Busy, Critical, Writers
<1>7. Numbered' /\ Behindhand'
  BY <1>5, <1>6 DEF Numbered, Behindhand, Covers, Critical
<1>8. Carried'
  BY <1>6 DEF Carried, Busy, Critical, TypeOK, Writers
<1>9. ConfirmedOnDisk'
  BY DEF ConfirmedOnDisk
<1> QED
  BY <1>3, <1>4, <1>7, <1>8, <1>9

\* The hydrator done, or the process dead: nobody is persisting afterwards who was not.
LEMMA RestStep == IndexInv /\ (HydrationEnds \/ Crash) => IndexInv'
<1> SUFFICES ASSUME IndexInv, HydrationEnds \/ Crash PROVE IndexInv'
  OBVIOUS
<1> USE ThreadIndexAssumption DEF IndexInv
<1>1. TypeOK'
  <2>1. CASE HydrationEnds
    BY <2>1 DEF HydrationEnds, TypeOK, Writers, Steps, lists
  <2>2. CASE Crash
    <3>1. pc' \in [Writers -> Steps] /\ waiting' \in Seq(Writers)
      BY <2>2 DEF Crash, TypeOK, Writers, Steps, Finished
    <3>2. crashes' \in 0 .. MaxCrashes
      BY <2>2 DEF Crash, TypeOK
    <3> QED
      BY <2>2, <3>1, <3>2 DEF Crash, TypeOK
  <2> QED
    BY <2>1, <2>2
<1>2. /\ UNCHANGED <<table, target, wrote, snapshot, tmp, file, changes, confirmed>>
      /\ mode' # "down" => mode # "down"
      /\ \A c \in Writers : Busy(c)' => Busy(c) /\ pc'[c] = pc[c] /\ waiting' = waiting
  BY DEF HydrationEnds, Crash, TypeOK, Turns, Writers, Busy, Critical, Finished, lists
<1>3. Turns'
  <2>1. mode' # "up" => \A c \in Calls : ~Busy(c)'
    BY <1>2 DEF HydrationEnds, Crash, Turns, TypeOK, Writers, Busy, Critical, Finished
  <2>2. mode' # "hydrating" => ~Busy(Hydrator)'
    BY <1>2 DEF HydrationEnds, Crash, Turns, TypeOK, Writers, Busy, Critical, Finished
  <2>3. \A c \in Writers : Critical(c)' => Holds(c)'
    BY <1>2 DEF Turns, Busy, Critical, Holds
  <2> QED
    BY <2>1, <2>2, <2>3 DEF Turns
<1>4. Numbered' /\ ConfirmedOnDisk'
  BY <1>2 DEF Numbered, ConfirmedOnDisk
<1>5. Behindhand' /\ Carried'
  BY <1>2 DEF Behindhand, Carried, Covers, Busy, Critical
<1> QED
  BY <1>1, <1>3, <1>4, <1>5

\* A change is numbered after everything there is.
LEMMA ChangeStep ==
    ASSUME IndexInv, NEW c \in Calls, NEW t \in Ids, NEW row \in Row,
           row.change = changes + 1, Change(c, t, row)
    PROVE  IndexInv'
<1> USE ThreadIndexAssumption DEF IndexInv, Change, Becomes
<1>1. TypeOK'
  BY DEF TypeOK, Writers, Steps
<1>2. \A i \in Ids : /\ table[i].change \in Int /\ table'[i].change \in Int
                     /\ file[i].change \in Int
                     /\ \A d \in Writers : snapshot[d][i].change \in Int
  BY <1>1, RowChange DEF TypeOK
<1>3. \A i \in Ids : /\ table'[i].change >= table[i].change
                     /\ table'[i].change <= changes'
                     /\ changes <= changes'
  <2> SUFFICES ASSUME NEW i \in Ids
               PROVE  /\ table'[i].change >= table[i].change
                      /\ table'[i].change <= changes' /\ changes <= changes'
    OBVIOUS
  <2>1. table[i].change <= changes /\ changes' = changes + 1 /\ changes \in Nat
    BY DEF Numbered, TypeOK
  <2>2. CASE i = t
    BY <1>2, <2>1, <2>2 DEF TypeOK
  <2>3. CASE i # t
    BY <1>2, <2>1, <2>3 DEF TypeOK
  <2> QED
    BY <2>2, <2>3
<1>4. \A d \in Writers : Critical(d)' => Critical(d) /\ d # c
  BY DEF Critical, TypeOK, Writers
<1>5. Turns'
  BY <1>4 DEF Turns, Busy, Critical, Holds, TypeOK, Writers
<1>6. Numbered'
  BY <1>2, <1>3 DEF Numbered, TypeOK
<1>7. Behindhand'
  <2>1. Covers(table, file) => Covers(table', file)
    BY <1>2, <1>3 DEF Covers
  <2>2. \A d \in Writers : Covers(table, snapshot[d]) => Covers(table', snapshot[d])
    BY <1>2, <1>3 DEF Covers
  <2>3. \A d \in Writers : pc'[d] = "written" => pc[d] = "written"
    BY DEF TypeOK, Writers
  <2> QED
    BY <1>4, <2>1, <2>2, <2>3 DEF Behindhand
<1>8. Carried'
  <2>1. \A d \in Writers : d # c => /\ target'[d] = target[d] /\ wrote'[d] = wrote[d]
                                    /\ pc'[d] = pc[d]
    BY DEF TypeOK
  <2>2. target'[c] = t /\ wrote'[c] = changes + 1 /\ table'[t].change = changes + 1
    BY DEF TypeOK, Writers
  <2>3. wrote'[Hydrator] = 0
    BY <2>1 DEF Carried, Writers
  <2>4. \A d \in Writers : wrote'[d] > 0 => target'[d] \in Ids
    BY <2>1, <2>2 DEF Carried
  <2>5. \A d \in Writers : Busy(d)' /\ wrote'[d] > 0 => table'[target'[d]].change >= wrote'[d]
    <3> SUFFICES ASSUME NEW d \in Writers, Busy(d)', wrote'[d] > 0
                 PROVE  table'[target'[d]].change >= wrote'[d]
      OBVIOUS
    <3>1. CASE d = c
      BY <2>2, <3>1, <1>3 DEF TypeOK
    <3>2. CASE d # c
      <4>1. target[d] \in Ids /\ table[target[d]].change >= wrote[d]
        BY <2>1, <3>2 DEF Carried, Busy, Critical
      <4> QED
        BY <2>1, <3>2, <4>1, <1>2, <1>3 DEF TypeOK
    <3> QED
      BY <3>1, <3>2
  <2>6. \A d \in Writers : Critical(d)' /\ wrote'[d] > 0
                            => snapshot'[d][target'[d]].change >= wrote'[d]
    BY <2>1, <1>4 DEF Carried
  <2> QED
    BY <2>3, <2>4, <2>5, <2>6 DEF Carried
<1>9. ConfirmedOnDisk'
  BY DEF ConfirmedOnDisk
<1> QED
  BY <1>1, <1>5, <1>6, <1>7, <1>8, <1>9

LEMMA CallStep == ASSUME IndexInv, NEW c \in Calls, Call(c) PROVE IndexInv'
<1>1. CASE Insert(c)
  <2>1. PICK t \in Ids, time \in Times :
            Change(c, t, [change |-> changes + 1, updated |-> time])
    BY <1>1 DEF Insert
  <2>2. [change |-> changes + 1, updated |-> time] \in Row
    BY DEF Row, IndexInv, TypeOK
  <2> QED
    BY <2>1, <2>2, ChangeStep
<1>2. CASE UpdatePreviewAndUpdatedAt(c)
  <2>1. PICK t \in Rows(table), time \in Times :
            Change(c, t, [change |-> changes + 1, updated |-> time])
    BY <1>2 DEF UpdatePreviewAndUpdatedAt
  <2>2. [change |-> changes + 1, updated |-> time] \in Row
    BY DEF Row, IndexInv, TypeOK
  <2> QED
    BY <2>1, <2>2, ChangeStep DEF Rows
<1>3. CASE SetField(c)
  <2>1. PICK t \in Rows(table) : Change(c, t, [table[t] EXCEPT !.change = changes + 1])
    BY <1>3 DEF SetField
  <2>2. table[t] \in Row /\ changes + 1 \in Nat
    BY DEF Rows, IndexInv, TypeOK
  <2>3. /\ [table[t] EXCEPT !.change = changes + 1] \in Row
        /\ [table[t] EXCEPT !.change = changes + 1].change = changes + 1
    BY <2>2 DEF Row
  <2> QED
    BY <2>1, <2>3, ChangeStep DEF Rows
<1>4. CASE Missing(c)
  <2> USE ThreadIndexAssumption, <1>4 DEF Missing, IndexInv
  <2>1. TypeOK'
    BY DEF TypeOK, Writers, Steps, lists
  <2>2. \A d \in Writers : Busy(d)' => Busy(d) /\ pc'[d] = pc[d]
    BY DEF TypeOK, Busy, Critical
  <2>3. Turns' /\ Numbered' /\ ConfirmedOnDisk'
    BY <2>2 DEF Turns, Numbered, ConfirmedOnDisk, Critical, Busy, Holds, Writers
  <2>4. Behindhand' /\ Carried'
    BY <2>2 DEF Behindhand, Carried, Covers, Busy, Critical
  <2> QED
    BY <2>1, <2>3, <2>4
<1> QED
  BY <1>1, <1>2, <1>3, <1>4 DEF Call

\* The steps of one persist: only its holder gets past the lock, and it leaves to
\* nobody else in the critical section.
LEMMA PersistStep == ASSUME IndexInv, NEW c \in Writers, Persist(c) PROVE IndexInv'
<1> USE ThreadIndexAssumption DEF IndexInv, StepTo, lists
<1>1. \A i \in Ids : /\ table[i].change \in Int /\ file[i].change \in Int
                     /\ \A d \in Writers : snapshot[d][i].change \in Int
  BY RowChange DEF TypeOK
<1>2. CASE Queue(c)
  <2>1. TypeOK'
    BY <1>2 DEF Queue, TypeOK, Steps
  <2>2. \A d \in Writers : /\ Busy(d)' => Busy(d)
                           /\ Critical(d)' => Critical(d)
                           /\ pc'[d] = "written" => pc[d] = "written"
                           /\ Holds(d) => Holds(d)'
    BY <1>2 DEF Queue, TypeOK, Busy, Critical, Holds
  <2> QED
    BY <1>2, <2>1, <2>2 DEF Queue, Turns, Numbered, Behindhand, Carried, Covers, ConfirmedOnDisk,
                            Writers
<1>3. CASE TakeSnapshot(c)
  <2>1. TypeOK'
    BY <1>3 DEF TakeSnapshot, TypeOK, Steps
  <2>2. \A d \in Writers : Busy(d)' => Busy(d)
    BY <1>3 DEF TakeSnapshot, TypeOK, Busy, Critical
  <2>3. \A d \in Writers : d # c => /\ Critical(d)' => Critical(d)
                                    /\ snapshot'[d] = snapshot[d] /\ pc'[d] = pc[d]
    BY <1>3 DEF TakeSnapshot, TypeOK, Critical
  <2>4. snapshot'[c] = table /\ pc'[c] = "holding" /\ Busy(c)
    BY <1>3 DEF TakeSnapshot, TypeOK, Busy
  <2>5. mode # "down"
    BY <2>4 DEF Turns, Writers
  <2>6. Turns' /\ Numbered' /\ ConfirmedOnDisk'
    BY <1>3, <2>2, <2>3 DEF TakeSnapshot, Turns, Numbered, ConfirmedOnDisk, Writers, Holds
  <2>7. Behindhand'
    BY <1>1, <1>3, <2>3, <2>4, <2>5 DEF TakeSnapshot, Behindhand, Covers
  <2>8. Carried'
    BY <1>3, <2>2, <2>3, <2>4 DEF TakeSnapshot, Carried, Writers
  <2> QED
    BY <2>1, <2>6, <2>7, <2>8
<1>4. CASE BeginWrite(c) \/ EndWrite(c)
  <2>1. TypeOK'
    <3>1. pc' \in [Writers -> Steps]
      BY <1>4 DEF BeginWrite, EndWrite, TypeOK, Steps
    <3>2. tmp' \in [Ids -> Row \cup {Absent}] \cup {Torn}
      BY <1>4 DEF BeginWrite, EndWrite, TypeOK
    <3> QED
      BY <1>4, <3>1, <3>2 DEF BeginWrite, EndWrite, TypeOK
  <2>2. \A d \in Writers : /\ Busy(d)' => Busy(d)
                           /\ Critical(d)' => Critical(d)
    BY <1>4 DEF BeginWrite, EndWrite, TypeOK, Busy, Critical
  <2>3. \A d \in Writers : d # c => ~Critical(d)
    BY <1>4 DEF BeginWrite, EndWrite, Turns, Holds, Critical
  <2>4. \A d \in Writers : pc'[d] = "written" => tmp' = snapshot'[d]
    BY <1>4, <2>2, <2>3 DEF BeginWrite, EndWrite, TypeOK, Critical
  <2> QED
    BY <1>4, <2>1, <2>2, <2>4 DEF BeginWrite, EndWrite, Turns, Holds, Numbered, Behindhand, Carried,
                                  Covers, ConfirmedOnDisk, Writers
<1>5. CASE Rename(c)
  <2>1. Critical(c) /\ pc[c] = "written" /\ file' = snapshot[c]
    BY <1>5 DEF Rename, Critical, Behindhand
  <2>2. \A d \in Writers : d # c => ~Critical(d)
    BY <2>1 DEF Turns, Holds
  <2>3. \A d \in Writers : ~Critical(d)' /\ (Busy(d)' => Busy(d))
    BY <1>5, <2>2 DEF Rename, TypeOK, Busy, Critical
  <2>4. TypeOK'
    <3>1. waiting' \in Seq(Writers)
      BY <1>5, <2>1 DEF Rename, Release, TypeOK, Turns, Holds
    <3>2. confirmed' \in [Ids -> Nat]
      BY <1>5 DEF Rename, TypeOK
    <3> QED
      BY <1>5, <2>1, <3>1, <3>2 DEF Rename, TypeOK, Steps
  <2>5. Turns' /\ Carried'
    BY <1>5, <2>3 DEF Rename, Turns, Carried, Writers
  <2>6. mode # "down"
    BY <2>1 DEF Turns, Busy, Writers
  <2>7. Numbered' /\ Behindhand'
    BY <1>1, <1>5, <2>1, <2>3, <2>6 DEF Rename, Numbered, Behindhand, Covers, TypeOK, Critical
  <2>8. ConfirmedOnDisk'
    <3> SUFFICES ASSUME NEW i \in Ids, confirmed'[i] > 0 PROVE file'[i].change >= confirmed'[i]
      BY DEF ConfirmedOnDisk
    <3>1. CASE target[c] = i /\ wrote[c] > confirmed[i]
      <4>1. confirmed'[i] = wrote[c] /\ wrote[c] > 0
        BY <1>5, <3>1 DEF Rename, TypeOK
      <4> QED
        BY <2>1, <3>1, <4>1 DEF Carried
    <3>2. CASE ~(target[c] = i /\ wrote[c] > confirmed[i])
      <4>1. confirmed'[i] = confirmed[i]
        BY <1>5, <3>2 DEF Rename
      <4>2. file[i].change >= confirmed[i] /\ snapshot[c][i].change >= file[i].change
        BY <2>1, <4>1 DEF ConfirmedOnDisk, Behindhand, Covers
      <4>3. /\ confirmed[i] \in Nat
            /\ snapshot[c][i].change \in Int /\ file[i].change \in Int
        BY <1>1 DEF TypeOK
      <4>4. snapshot[c][i].change >= confirmed[i]
        BY <4>2, <4>3
      <4> QED
        BY <2>1, <4>1, <4>4
    <3> QED
      BY <3>1, <3>2
  <2> QED
    BY <2>4, <2>5, <2>7, <2>8
<1>6. CASE PersistFails(c)
  <2>1. Critical(c) /\ Holds(c)
    BY <1>6 DEF PersistFails, Critical
  <2>2. \A d \in Writers : ~Critical(d)' /\ (Busy(d)' => Busy(d))
    BY <1>6, <2>1 DEF PersistFails, Turns, Holds, TypeOK, Busy, Critical
  <2>3. TypeOK'
    BY <1>6, <2>1 DEF PersistFails, Release, TypeOK, Holds, Steps
  <2> QED
    BY <1>6, <2>2, <2>3 DEF PersistFails, Turns, Numbered, Behindhand, Carried, Covers,
                            ConfirmedOnDisk, Writers, Critical
<1> QED
  BY <1>2, <1>3, <1>4, <1>5, <1>6 DEF Persist

LEMMA IndexStep == IndexInv /\ [Next]_vars => IndexInv'
<1> SUFFICES ASSUME IndexInv, [Next]_vars PROVE IndexInv'
  OBVIOUS
<1>1. ASSUME NEW p \in Pagers, ListFirst(p) \/ ListNext(p) PROVE IndexInv'
  BY <1>1 DEF ListFirst, ListNext, callVars, IndexInv, TypeOK, Turns, Busy, Critical, Holds,
              Numbered, Behindhand, Covers, Carried, ConfirmedOnDisk
<1>2. CASE UNCHANGED vars
  BY <1>2 DEF vars, callVars, IndexInv, TypeOK, Turns, Busy, Critical, Holds, Numbered,
              Behindhand, Covers, Carried, ConfirmedOnDisk
<1> QED
  BY <1>1, <1>2, OpenStep, RestStep, CallStep, PersistStep DEF Next

\* The file only goes forward: it is replaced by a snapshot that covers it.
LEMMA RenameForward == ASSUME IndexInv, [Next]_vars, NEW t \in Ids
                       PROVE  file'[t].change >= file[t].change
<1> USE DEF IndexInv
<1>1. ASSUME NEW c \in Writers, Rename(c) PROVE file'[t].change >= file[t].change
  BY <1>1 DEF Rename, Behindhand, Critical, Covers
<1>2. \/ UNCHANGED file
      \/ \E c \in Writers : Rename(c)
  BY DEF Next, vars, Open, HydrationEnds, Crash, Call, Insert, UpdatePreviewAndUpdatedAt, SetField,
         Change, Missing, Persist, Queue, TakeSnapshot, BeginWrite, EndWrite, PersistFails, ListFirst,
         ListNext
<1>3. file[t].change \in Int
  BY RowChange DEF TypeOK
<1> QED
  BY <1>1, <1>2, <1>3

\* What a caller was told is stored stays stored, whatever crashes or fails.
THEOREM ConfirmedStaysOnDisk == Spec => []ConfirmedOnDisk
<1>1. IndexInv => ConfirmedOnDisk
  BY DEF IndexInv
<1> QED
  BY <1>1, IndexInit, IndexStep, PTL DEF Spec

\* The index file never goes back to an older row.
THEOREM IndexNeverBack == Spec => NeverBack
<1>1. IndexInv /\ [Next]_vars => [\A t \in Ids : file'[t].change >= file[t].change]_vars
  BY RenameForward
<1> QED
  BY <1>1, IndexInit, IndexStep, PTL DEF Spec, NeverBack

\* The index keeps its types, for any number of threads and callers.
THEOREM IndexTypeCorrect == Spec => []TypeOK
<1>1. IndexInv => TypeOK
  BY DEF IndexInv
<1> QED
  BY <1>1, IndexInit, IndexStep, PTL DEF Spec

-----------------------------------------------------------------------------
(* Paging.  After orders the entries strictly and totally; what a finite   *)
(* set of them has first and last is found by the least number of entries  *)
(* an entry comes after.                                                   *)

Entry == [updated : Nat, id : Nat]
Directions == {"asc", "desc"}

Less == {pair \in Nat \X Nat : pair[1] < pair[2]}

LEMMA LeastNumber == ASSUME NEW S \in SUBSET Nat, S # {}
                     PROVE  \E x \in S : \A y \in S : x <= y
<1>1. IsWellFoundedOn(Less, Nat)
  BY NatLessThanWellFounded DEF OpToRel, Less
<1>2. \E x \in S : \A y \in S : ~(<<y, x>> \in Less)
  BY <1>1, WFMin
<1>3. \A x, y \in Nat : <<y, x>> \notin Less => x <= y
  BY DEF Less
<1> QED
  BY <1>2, <1>3

\* A strict order has a first element in every finite set.
LEMMA FirstOfFinite ==
    ASSUME NEW S, IsFiniteSet(S), S # {}, NEW R,
           \A i, j, k \in S : <<i, j>> \in R /\ <<j, k>> \in R => <<i, k>> \in R,
           \A i \in S : <<i, i>> \notin R
    PROVE  \E i \in S : \A j \in S : <<j, i>> \notin R
<1> DEFINE Before(i) == {j \in S : <<j, i>> \in R}
           ranks == {Cardinality(Before(i)) : i \in S}
<1>1. \A i \in S : IsFiniteSet(Before(i)) /\ Cardinality(Before(i)) \in Nat
  BY FS_Subset, FS_CardinalityType
<1>2. PICK n \in ranks : \A m \in ranks : n <= m
  <2>1. ranks \in SUBSET Nat /\ ranks # {}
    <3> HIDE DEF Before
    <3>1. \A i \in S : Cardinality(Before(i)) \in ranks
      OBVIOUS
    <3>2. \A m \in ranks : m \in Nat
      BY <1>1
    <3> QED
      BY <3>1, <3>2
  <2> HIDE DEF ranks
  <2> QED
    BY <2>1, LeastNumber
<1>3. PICK i \in S : n = Cardinality(Before(i))
  BY <1>2
<1>4. ASSUME NEW j \in S, <<j, i>> \in R PROVE FALSE
  <2>1. Before(j) \in SUBSET Before(i)
    BY <1>4
  <2>2. j \in Before(i) /\ j \notin Before(j)
    BY <1>4
  <2> HIDE DEF Before
  <2>3. Cardinality(Before(i)) <= Cardinality(Before(j))
    BY <1>2, <1>3
  <2>4. /\ Cardinality(Before(j)) <= Cardinality(Before(i))
        /\ Cardinality(Before(i)) = Cardinality(Before(j)) => Before(i) = Before(j)
    BY <1>1, <2>1, FS_Subset
  <2> QED
    BY <1>1, <2>2, <2>3, <2>4
<1> QED
  BY <1>4

LEMMA AfterOrders ==
    ASSUME NEW x \in Entry, NEW y \in Entry, NEW z \in Entry, NEW direction \in Directions
    PROVE  /\ After(x, y, direction) /\ After(y, z, direction) => After(x, z, direction)
           /\ ~After(x, x, direction)
           /\ x = y \/ After(x, y, direction) \/ After(y, x, direction)
<1>1. /\ x.updated \in Nat /\ y.updated \in Nat /\ z.updated \in Nat
      /\ x.id \in Nat /\ y.id \in Nat /\ z.id \in Nat
  BY DEF Entry
<1>2. x.updated = y.updated /\ x.id = y.id => x = y
  BY DEF Entry
<1> QED
  BY <1>1, <1>2 DEF After, Directions

Table == [Ids -> Row \cup {Absent}]

LEMMA CursorEntry == ASSUME NEW t \in Table, NEW i \in Rows(t)
                     PROVE  CursorOf(t, i) \in Entry /\ CursorOf(t, i).id = i
BY ThreadIndexAssumption DEF Table, Rows, Row, CursorOf, Entry

\* What a page shows of the entries in rest: some of them if there are any, all of
\* them or those up to its last.
LEMMA PageShows ==
    ASSUME NEW t \in Table, NEW rest \in SUBSET Rows(t), IsFiniteSet(rest), rest # {},
           NEW direction \in Directions, NEW page, page = Page(t, rest, direction)
    PROVE  /\ page \subseteq rest
           /\ Last(t, page, direction) \in page
           /\ \A i \in rest : i \in page
                 <=> ~After(CursorOf(t, i), CursorOf(t, Last(t, page, direction)), direction)
<1> DEFINE R == {pair \in rest \X rest :
                     After(CursorOf(t, pair[1]), CursorOf(t, pair[2]), direction)}
           Back == {pair \in rest \X rest : <<pair[2], pair[1]>> \in R}
           Before(i) == {j \in rest : <<i, j>> \in R}
<1>1. \A i, j \in rest : <<i, j>> \in R <=> After(CursorOf(t, i), CursorOf(t, j), direction)
  OBVIOUS
<1>2. \A i, j \in rest : <<i, j>> \in Back <=> <<j, i>> \in R
  OBVIOUS
<1>3. /\ \A i, j, k \in rest : <<i, j>> \in R /\ <<j, k>> \in R => <<i, k>> \in R
      /\ \A i \in rest : <<i, i>> \notin R
      /\ \A i, j \in rest : i = j \/ <<i, j>> \in R \/ <<j, i>> \in R
  BY <1>1, AfterOrders, CursorEntry
<1>4. /\ \A i, j, k \in rest : <<i, j>> \in Back /\ <<j, k>> \in Back => <<i, k>> \in Back
      /\ \A i \in rest : <<i, i>> \notin Back
  BY <1>2, <1>3
<1>5. page = {i \in rest : Cardinality(Before(i)) < Limit}
  BY <1>1 DEF Page
<1> HIDE DEF R, Back
<1>6. \A i \in rest : IsFiniteSet(Before(i)) /\ Cardinality(Before(i)) \in Nat
  BY FS_Subset, FS_CardinalityType
<1>7. page # {}
  <2>1. PICK i \in rest : \A j \in rest : <<j, i>> \notin Back
    BY <1>4, FirstOfFinite
  <2>2. Before(i) = {}
    BY <1>2, <2>1
  <2>3. Cardinality(Before(i)) = 0
    BY <2>2, FS_EmptySet
  <2> QED
    BY <1>5, <2>3, ThreadIndexAssumption
<1>8. \A i, j \in rest : i \in page /\ <<i, j>> \in R => j \in page
  <2> SUFFICES ASSUME NEW i \in page, NEW j \in rest, <<i, j>> \in R PROVE j \in page
    OBVIOUS
  <2>1. i \in rest /\ Cardinality(Before(i)) < Limit
    BY <1>5
  <2>2. Before(j) \in SUBSET Before(i)
    BY <1>3, <2>1
  <2> HIDE DEF Before
  <2>3. Cardinality(Before(j)) <= Cardinality(Before(i))
    BY <1>6, <2>1, <2>2, FS_Subset
  <2>4. Cardinality(Before(j)) < Limit
    BY <1>6, <2>1, <2>3, ThreadIndexAssumption
  <2> QED
    BY <1>5, <2>4
<1>9. page \in SUBSET rest /\ IsFiniteSet(page)
  BY <1>5, FS_Subset
<1>10. PICK last \in page : \A j \in page : <<j, last>> \notin R
  BY <1>3, <1>7, <1>9, FirstOfFinite
<1> DEFINE l == Last(t, page, direction)
<1>11. l \in page /\ \A j \in page : <<j, l>> \notin R
  BY <1>1, <1>9, <1>10 DEF Last
<1> HIDE DEF l
<1>12. \A i \in rest : i \in page <=> <<i, l>> \notin R
  BY <1>3, <1>8, <1>9, <1>11
<1> QED
  BY <1>1, <1>9, <1>11, <1>12 DEF l

-----------------------------------------------------------------------------
(* Where each pager is: a steady row has been seen once or is still behind *)
(* the cursor.  The indexes it pages through are finite.                   *)

Cursors == [at : [updated : Times, id : Ids], direction : Directions]

Finite ==
    /\ IsFiniteSet(Rows(table)) /\ IsFiniteSet(Rows(file))
    /\ \A c \in Writers : Critical(c) => IsFiniteSet(Rows(snapshot[c]))

PagerOK(p) ==
    /\ seen[p] \in [Ids -> Nat]
    /\ steady[p] \subseteq Rows(table)
    /\ cursor[p] \in Cursors \cup {Unstarted, Exhausted}
    /\ cursor[p] = Unstarted => steady[p] = {} /\ \A i \in Ids : seen[p][i] = 0
    /\ cursor[p] = Exhausted => \A i \in steady[p] : seen[p][i] = 1
    /\ cursor[p] \in Cursors =>
           \A i \in steady[p] :
               seen[p][i] = IF i \in Behind(table, cursor[p].at, cursor[p].direction) THEN 0 ELSE 1

PagingInv ==
    /\ Finite
    /\ seen \in [Pagers -> [Ids -> Nat]] /\ steady \in [Pagers -> SUBSET Ids]
    /\ DOMAIN cursor = Pagers /\ cursor = [p \in Pagers |-> cursor[p]]
    /\ \A p \in Pagers : PagerOK(p)

LEMMA CursorShape == \A k \in Cursors : k # Unstarted /\ k # Exhausted
<1> SUFFICES ASSUME NEW k \in Cursors PROVE "direction" \in DOMAIN k
  BY DEF Unstarted, Exhausted
<1> QED
  BY DEF Cursors

LEMMA PagingInit == Init => PagingInv
<1> SUFFICES ASSUME Init PROVE PagingInv
  OBVIOUS
<1>1. Rows(table) = {} /\ Rows(file) = {} /\ \A c \in Writers : Rows(snapshot[c]) = {}
  BY DEF Init, NoRows, Rows
<1>2. Finite
  BY <1>1, FS_EmptySet DEF Finite
<1>3. Unstarted \notin Cursors /\ Unstarted # Exhausted
  BY CursorShape DEF Unstarted, Exhausted
<1> QED
  BY <1>2, <1>3 DEF Init, PagingInv, PagerOK

LEMMA FiniteStep == ASSUME IndexInv, Finite, Next PROVE Finite'
<1>1. CASE Open
  <2>1. PICK times \in [Scanned -> Times] : table' = Hydrated(times)
    BY <1>1 DEF Open, Becomes
  <2>2. Rows(table') \in SUBSET (Rows(file) \cup Scanned)
    BY <2>1 DEF Rows, Hydrated
  <2>3. IsFiniteSet(Rows(table'))
    BY <2>2, FS_Union, FS_Subset, ThreadIndexAssumption DEF Finite
  <2>4. \A c \in Writers : ~Critical(c)'
    BY <1>1 DEF Open, IndexInv, Turns, TypeOK, Busy, Critical, Writers
  <2> QED
    BY <1>1, <2>3, <2>4 DEF Open, Finite
<1>2. ASSUME NEW c \in Calls, NEW t \in Ids, NEW row, Change(c, t, row) PROVE Finite'
  <2>1. Rows(table') \in SUBSET (Rows(table) \cup {t})
    BY <1>2 DEF Change, Becomes, Rows
  <2>2. IsFiniteSet(Rows(table'))
    BY <2>1, FS_AddElement, FS_Subset DEF Finite
  <2>3. \A d \in Writers : Critical(d)' => Critical(d)
    BY <1>2 DEF Change, IndexInv, TypeOK, Critical
  <2> QED
    BY <1>2, <2>2, <2>3 DEF Change, Finite
<1>3. ASSUME NEW c \in Writers, TakeSnapshot(c) PROVE Finite'
  <2>1. \A d \in Writers : d # c => snapshot'[d] = snapshot[d] /\ (Critical(d)' => Critical(d))
    BY <1>3 DEF TakeSnapshot, StepTo, IndexInv, TypeOK, Critical
  <2>2. snapshot'[c] = table /\ UNCHANGED <<table, file>>
    BY <1>3 DEF TakeSnapshot, IndexInv, TypeOK
  <2> QED
    BY <2>1, <2>2 DEF Finite
<1>4. ASSUME NEW c \in Writers, Rename(c) PROVE Finite'
  <2>1. Critical(c) /\ file' = snapshot[c]
    BY <1>4 DEF Rename, Critical, IndexInv, Behindhand
  <2>2. \A d \in Writers : Critical(d)' => Critical(d)
    BY <1>4 DEF Rename, StepTo, IndexInv, TypeOK, Critical
  <2> QED
    BY <1>4, <2>1, <2>2 DEF Rename, Finite
<1>5. ASSUME NEW c \in Writers, Queue(c) \/ BeginWrite(c) \/ EndWrite(c) \/ PersistFails(c)
      PROVE  Finite'
  <2>1. \A d \in Writers : Critical(d)' => Critical(d)
    BY <1>5 DEF Queue, BeginWrite, EndWrite, PersistFails, StepTo, IndexInv, TypeOK, Critical
  <2> QED
    BY <1>5, <2>1 DEF Queue, BeginWrite, EndWrite, PersistFails, Finite
<1>6. CASE HydrationEnds \/ Crash
  <2>1. \A d \in Writers : Critical(d)' => Critical(d)
    BY <1>6 DEF HydrationEnds, Crash, IndexInv, TypeOK, Critical, Finished
  <2> QED
    BY <1>6, <2>1 DEF HydrationEnds, Crash, Finite
<1>7. ASSUME NEW c \in Calls, Missing(c) PROVE Finite'
  <2>1. \A d \in Writers : Critical(d)' => Critical(d)
    BY <1>7 DEF Missing, IndexInv, TypeOK, Critical
  <2> QED
    BY <1>7, <2>1 DEF Missing, Finite
<1>8. ASSUME NEW p \in Pagers, ListFirst(p) \/ ListNext(p) PROVE Finite'
  BY <1>8 DEF ListFirst, ListNext, callVars, Finite, Critical
<1>9. ASSUME NEW c \in Calls, Call(c) PROVE Finite'
  BY <1>2, <1>7, <1>9 DEF Call, Insert, UpdatePreviewAndUpdatedAt, SetField, Rows
<1> QED
  BY <1>1, <1>3, <1>4, <1>5, <1>6, <1>8, <1>9 DEF Next, Persist

\* When the table changes under them: where a steady row is, it stays.
LEMMA BecomesStep ==
    ASSUME PagingInv, Finite', NEW t, Becomes(t), UNCHANGED <<cursor, seen>>
    PROVE  PagingInv'
<1>1. \A p \in Pagers : \A i \in steady'[p] : i \in steady[p] /\ table'[i] = table[i]
  BY DEF Becomes
<1>2. steady' \in [Pagers -> SUBSET Ids]
  BY DEF Becomes, PagingInv
<1>3. \A i \in Ids : \A at, direction :
          table'[i] = table[i] => (i \in Behind(table', at, direction)
                                       <=> i \in Behind(table, at, direction))
  BY DEF Behind, Rows, CursorOf
<1>4. ASSUME NEW p \in Pagers PROVE PagerOK(p)'
  <2>1. PagerOK(p) /\ steady'[p] \subseteq steady[p] /\ steady[p] \subseteq Ids
    BY <1>1 DEF PagingInv
  <2>2. steady'[p] \subseteq Rows(table')
    BY <1>1, <2>1 DEF PagerOK, Rows
  <2>3. cursor[p] \in Cursors => \A i \in steady'[p] :
            seen[p][i] = IF i \in Behind(table', cursor[p].at, cursor[p].direction) THEN 0 ELSE 1
    BY <1>1, <1>3, <2>1 DEF PagerOK
  <2> QED
    BY <2>1, <2>2, <2>3 DEF PagerOK
<1> QED
  BY <1>2, <1>4 DEF PagingInv

\* A page: what is on it has been seen, what is not is behind the new cursor.
LEMMA ShowStep ==
    ASSUME IndexInv, PagingInv, NEW p \in Pagers, NEW direction \in Directions,
           NEW rest \in SUBSET Rows(table), NEW rows \in SUBSET Rows(table),
           Show(p, rest, direction),
           \A i \in rows : seen[p][i] = IF i \in rest THEN 0 ELSE 1,
           \A i \in rows, j \in rest :
               After(CursorOf(table, i), CursorOf(table, j), direction) => i \in rest
    PROVE  LET at == cursor'[p].at IN
           /\ cursor'[p] \in Cursors \cup {Exhausted}
           /\ cursor'[p] = Exhausted => \A i \in rows : seen'[p][i] = 1
           /\ cursor'[p] \in Cursors => \A i \in rows : seen'[p][i] =
                  IF i \in Behind(table, at, cursor'[p].direction) THEN 0 ELSE 1
<1> DEFINE page == Page(table, rest, direction)
           l == Last(table, page, direction)
<1>1. table \in Table /\ IsFiniteSet(rest) /\ Rows(table) \subseteq Ids
  BY FS_Subset DEF IndexInv, TypeOK, Table, PagingInv, Finite, Rows
<1>2. page \subseteq rest
  BY DEF Page
<1>3. \A i \in rows : seen'[p][i] = IF i \in page THEN seen[p][i] + 1 ELSE seen[p][i]
  BY <1>1 DEF Show, PagingInv
<1>4. CASE page = rest
  <2>1. cursor'[p] = Exhausted
    BY <1>4 DEF Show, PagingInv
  <2>2. \A i \in rows : seen'[p][i] = 1
    BY <1>3, <1>4
  <2> QED
    BY <2>1, <2>2, CursorShape
<1>5. CASE page # rest
  <2>1. rest # {}
    BY <1>2, <1>5
  <2> HIDE DEF page
  <2>2. /\ l \in page
        /\ \A i \in rest : i \in page
              <=> ~After(CursorOf(table, i), CursorOf(table, l), direction)
    BY <1>1, <2>1, PageShows DEF page
  <2>3. cursor'[p] = [at |-> CursorOf(table, l), direction |-> direction]
    BY <1>5 DEF Show, PagingInv, page
  <2> HIDE DEF l
  <2>4. CursorOf(table, l) \in [updated : Times, id : Ids]
    BY <1>1, <1>2, <2>2 DEF CursorOf, Table, Rows, Row
  <2>5. cursor'[p] \in Cursors /\ cursor'[p].at = CursorOf(table, l)
        /\ cursor'[p].direction = direction
    BY <2>3, <2>4 DEF Cursors
  <2>6. \A i \in rows : i \in Behind(table, CursorOf(table, l), direction)
                            <=> After(CursorOf(table, i), CursorOf(table, l), direction)
    BY DEF Behind
  <2>7. ASSUME NEW i \in rows
        PROVE  seen'[p][i] = IF i \in Behind(table, CursorOf(table, l), direction) THEN 0 ELSE 1
    <3>1. CASE i \in page
      BY <1>2, <1>3, <2>2, <2>6, <3>1
    <3>2. CASE i \in rest \ page
      BY <1>3, <2>2, <2>6, <3>2
    <3>3. CASE i \notin rest
      <4>1. ~After(CursorOf(table, i), CursorOf(table, l), direction)
        BY <1>2, <2>2, <3>3
      <4> QED
        BY <1>2, <1>3, <2>6, <3>3, <4>1
    <3> QED
      BY <3>1, <3>2, <3>3
  <2> QED
    BY <2>5, <2>7, CursorShape
<1> QED
  BY <1>4, <1>5

LEMMA ListStep ==
    ASSUME IndexInv, PagingInv, Finite', NEW p \in Pagers, ListFirst(p) \/ ListNext(p)
    PROVE  PagingInv'
<1>1. PICK direction \in Directions, rest \in SUBSET Rows(table) : Show(p, rest, direction)
  BY DEF ListFirst, ListNext, Directions, Behind, PagingInv, PagerOK, Cursors
<1>2. /\ seen' = [seen EXCEPT ![p] = seen'[p]] /\ seen'[p] \in [Ids -> Nat]
      /\ cursor' = [cursor EXCEPT ![p] = cursor'[p]]
  <2> DEFINE page == Page(table, rest, direction)
  <2>1. page \subseteq Ids
    BY DEF Page, Rows
  <2> HIDE DEF page
  <2>2. seen' = [seen EXCEPT ![p] = [i \in Ids |-> IF i \in page THEN @[i] + 1 ELSE @[i]]]
    BY <1>1 DEF Show, page
  <2>3. \E k : cursor' = [cursor EXCEPT ![p] = k]
    BY <1>1 DEF Show
  <2> QED
    BY <2>2, <2>3 DEF PagingInv
<1>3. UNCHANGED table /\ \A q \in Pagers : q # p => UNCHANGED <<cursor[q], seen[q], steady[q]>>
  BY <1>2 DEF ListFirst, ListNext, PagingInv
<1>4. PagerOK(p)'
  <2>1. CASE ListFirst(p)
    <3>1. PICK d \in Directions : Show(p, Rows(table), d)
      BY <2>1 DEF ListFirst, Directions
    <3>2. \A i \in Rows(table) : seen[p][i] = 0
      BY <2>1 DEF ListFirst, PagingInv, PagerOK, Rows
    <3>3. steady'[p] = Rows(table)
      BY <2>1 DEF ListFirst, PagingInv
    <3>4. LET at == cursor'[p].at IN
          /\ cursor'[p] \in Cursors \cup {Exhausted}
          /\ cursor'[p] = Exhausted => \A i \in Rows(table) : seen'[p][i] = 1
          /\ cursor'[p] \in Cursors => \A i \in Rows(table) : seen'[p][i] =
                 IF i \in Behind(table, at, cursor'[p].direction) THEN 0 ELSE 1
      BY <3>1, <3>2, ShowStep
    <3> QED
      BY <1>2, <1>3, <3>3, <3>4, CursorShape DEF PagerOK, Unstarted, Exhausted
  <2>2. CASE ListNext(p)
    <3> DEFINE d == cursor[p].direction
               behind == Behind(table, cursor[p].at, d)
    <3>1. /\ cursor[p] \in Cursors /\ Show(p, behind, d) /\ d \in Directions
          /\ steady'[p] = steady[p] /\ steady[p] \subseteq Rows(table)
      BY <2>2 DEF ListNext, PagingInv, PagerOK, Cursors
    <3>2. behind \in SUBSET Rows(table)
      BY DEF Behind
    <3>3. \A i \in steady[p] : seen[p][i] = IF i \in behind THEN 0 ELSE 1
      BY <3>1 DEF PagingInv, PagerOK
    <3>4. ASSUME NEW i \in steady[p], NEW j \in behind,
                 After(CursorOf(table, i), CursorOf(table, j), d)
          PROVE  i \in behind
      <4>1. /\ CursorOf(table, i) \in Entry /\ CursorOf(table, j) \in Entry
            /\ cursor[p].at \in Entry
        BY <3>1, CursorEntry, ThreadIndexAssumption
           DEF Behind, IndexInv, TypeOK, Table, Cursors, Entry
      <4>2. After(CursorOf(table, j), cursor[p].at, d)
        BY DEF Behind
      <4>3. After(CursorOf(table, i), cursor[p].at, d)
        BY <3>1, <3>4, <4>1, <4>2, AfterOrders
      <4> QED
        BY <3>1, <4>3 DEF Behind
    <3> HIDE DEF d, behind
    <3>5. LET at == cursor'[p].at IN
          /\ cursor'[p] \in Cursors \cup {Exhausted}
          /\ cursor'[p] = Exhausted => \A i \in steady[p] : seen'[p][i] = 1
          /\ cursor'[p] \in Cursors => \A i \in steady[p] : seen'[p][i] =
                 IF i \in Behind(table, at, cursor'[p].direction) THEN 0 ELSE 1
      BY <3>1, <3>2, <3>3, <3>4, ShowStep
    <3> QED
      BY <1>2, <1>3, <3>1, <3>5, CursorShape DEF PagerOK, Unstarted, Exhausted
  <2> QED
    BY <2>1, <2>2
<1>5. \A q \in Pagers : q # p => PagerOK(q)'
  BY <1>3 DEF PagingInv, PagerOK
<1>6. steady' \in [Pagers -> SUBSET Ids]
  BY DEF ListFirst, ListNext, PagingInv, Rows
<1>7. /\ seen' \in [Pagers -> [Ids -> Nat]]
      /\ DOMAIN cursor' = Pagers /\ cursor' = [q \in Pagers |-> cursor'[q]]
  BY <1>2 DEF PagingInv
<1> QED
  BY <1>4, <1>5, <1>6, <1>7 DEF PagingInv

LEMMA PagingStep == IndexInv /\ PagingInv /\ [Next]_vars => PagingInv'
<1> SUFFICES ASSUME IndexInv, PagingInv, [Next]_vars PROVE PagingInv'
  OBVIOUS
<1>1. ASSUME UNCHANGED <<table, lists>>, Finite' PROVE PagingInv'
  BY <1>1 DEF lists, PagingInv, PagerOK
<1>2. CASE UNCHANGED vars
  BY <1>2, <1>1 DEF vars, callVars, PagingInv, Finite, Critical
<1>3. CASE Next
  <2>1. Finite'
    BY <1>3, FiniteStep DEF PagingInv
  <2>2. ASSUME NEW p \in Pagers, ListFirst(p) \/ ListNext(p) PROVE PagingInv'
    BY <2>1, <2>2, ListStep
  <2>3. CASE Open
    <3>1. PICK times \in [Scanned -> Times] : Becomes(Hydrated(times))
      BY <2>3 DEF Open
    <3> QED
      BY <2>1, <2>3, <3>1, BecomesStep DEF Open
  <2>4. ASSUME NEW c \in Calls, NEW t \in Ids, NEW row, Change(c, t, row) PROVE PagingInv'
    BY <2>1, <2>4, BecomesStep DEF Change
  <2>5. ASSUME NEW c \in Calls, Call(c) PROVE PagingInv'
    <3>1. CASE Missing(c)
      BY <3>1, <2>1, <1>1 DEF Missing
    <3> QED
      BY <2>4, <2>5, <3>1 DEF Call, Insert, UpdatePreviewAndUpdatedAt, SetField, Rows
  <2>6. ASSUME NEW c \in Writers, Persist(c) PROVE PagingInv'
    BY <2>1, <2>6, <1>1 DEF Persist, Queue, TakeSnapshot, BeginWrite, EndWrite, Rename, PersistFails
  <2>7. CASE HydrationEnds \/ Crash
    BY <2>1, <2>7, <1>1 DEF HydrationEnds, Crash
  <2> QED
    BY <1>3, <2>2, <2>3, <2>5, <2>6, <2>7 DEF Next
<1> QED
  BY <1>2, <1>3

\* A client that pages to the end sees every row that does not change meanwhile, once,
\* for any number of rows, callers, pagers and crashes and any size of a page.
THEOREM PagesAreExact == Spec => []PagesExact
<1>1. PagingInv => PagesExact
  BY DEF PagingInv, PagerOK, PagesExact
<1> QED
  BY <1>1, IndexInit, IndexStep, PagingInit, PagingStep, PTL DEF Spec
=============================================================================
