---------------------------- MODULE SessionProofs ----------------------------
(***************************************************************************)
(* The session, for every set of streams, producers and callers, every     *)
(* capacity of the ring and every bound:                                   *)
(*   - an attachment never has a gap (NothingSkipped);                     *)
(*   - no caller waits for an answer nobody can give (WaiterHasResponder); *)
(*   - a client that resumed is shown every outstanding prompt             *)
(*     (ResumedSeesPrompts);                                               *)
(*   - without the reaper, each table of prompts answers for the other     *)
(*     (TablesInLockstep);                                                 *)
(*   - with one producer, a resume by the server's own cursor passes over  *)
(*     nothing that was not written (ResumeSkipsOnlyWritten).              *)
(***************************************************************************)
EXTENDS Session, SequenceTheorems, TLAPS

-----------------------------------------------------------------------------
(* What the operations on an attachment's queue do to the seqs and prompts *)
(* it carries.                                                             *)

LEMMA ItemsInAppend ==
    ASSUME NEW q \in Seq(Item), NEW x \in Item
    PROVE  /\ Append(q, x) \in Seq(Item)
           /\ SeqsOf(Append(q, x)) = SeqsOf(q) \cup {x.seq}
           /\ PromptsOf(Append(q, x)) = PromptsOf(q) \cup x.prompts
<1> DEFINE r == Append(q, x)
<1>1. /\ r \in Seq(Item) /\ DOMAIN r = 1 .. Len(q) + 1 /\ DOMAIN q = 1 .. Len(q)
      /\ r[Len(q) + 1] = x
      /\ \A i \in DOMAIN q : r[i] = q[i]
      /\ Len(q) \in Nat
  OBVIOUS
<1>2. /\ DOMAIN r = DOMAIN q \cup {Len(q) + 1}
  BY <1>1
<1> HIDE DEF r
<1>3. SeqsOf(r) = SeqsOf(q) \cup {x.seq}
  BY <1>1, <1>2 DEF SeqsOf
<1>4. PromptsOf(r) = PromptsOf(q) \cup x.prompts
  BY <1>1, <1>2 DEF PromptsOf
<1> QED
  BY <1>1, <1>3, <1>4 DEF r

LEMMA ItemsInTail ==
    ASSUME NEW q \in Seq(Item), q # <<>>
    PROVE  /\ Head(q) \in Item /\ Tail(q) \in Seq(Item)
           /\ SeqsOf(q) = SeqsOf(Tail(q)) \cup {Head(q).seq}
           /\ PromptsOf(q) = PromptsOf(Tail(q)) \cup Head(q).prompts
<1> DEFINE r == Tail(q)
<1>1. /\ Head(q) \in Item /\ r \in Seq(Item) /\ Head(q) = q[1]
      /\ Len(q) \in Nat /\ Len(q) > 0
      /\ DOMAIN q = 1 .. Len(q) /\ DOMAIN r = 1 .. Len(q) - 1
      /\ \A i \in 1 .. Len(q) - 1 : r[i] = q[i + 1]
  OBVIOUS
<1> HIDE DEF r
<1>2. \A j \in DOMAIN q : j = 1 \/ (j - 1 \in DOMAIN r /\ r[j - 1] = q[j])
  BY <1>1
<1>3. \A i \in DOMAIN r : i + 1 \in DOMAIN q /\ r[i] = q[i + 1]
  BY <1>1
<1>4. 1 \in DOMAIN q
  BY <1>1
<1>5. SeqsOf(q) = SeqsOf(r) \cup {Head(q).seq}
  BY <1>1, <1>2, <1>3, <1>4 DEF SeqsOf
<1>6. PromptsOf(q) = PromptsOf(r) \cup Head(q).prompts
  BY <1>1, <1>2, <1>3, <1>4 DEF PromptsOf
<1> QED
  BY <1>1, <1>5, <1>6 DEF r

LEMMA ItemsInConcat ==
    ASSUME NEW q \in Seq(Item), NEW r \in Seq(Item)
    PROVE  /\ q \o r \in Seq(Item)
           /\ SeqsOf(q) \subseteq SeqsOf(q \o r)
           /\ PromptsOf(r) \subseteq PromptsOf(q \o r)
<1> DEFINE t == q \o r
<1>1. /\ t \in Seq(Item) /\ Len(q) \in Nat /\ Len(r) \in Nat
      /\ DOMAIN q = 1 .. Len(q) /\ DOMAIN r = 1 .. Len(r)
      /\ DOMAIN t = 1 .. Len(q) + Len(r)
      /\ \A i \in 1 .. Len(q) : t[i] = q[i]
      /\ \A i \in 1 .. Len(r) : t[Len(q) + i] = r[i]
  OBVIOUS
<1> HIDE DEF t
<1>2. \A i \in DOMAIN q : i \in DOMAIN t /\ t[i] = q[i]
  BY <1>1
<1>3. \A i \in DOMAIN r : Len(q) + i \in DOMAIN t /\ t[Len(q) + i] = r[i]
  BY <1>1
<1>4. SeqsOf(q) \subseteq SeqsOf(t)
  BY <1>2 DEF SeqsOf
<1>5. PromptsOf(r) \subseteq PromptsOf(t)
  BY <1>3 DEF PromptsOf
<1> QED
  BY <1>1, <1>4, <1>5 DEF t

LEMMA BacklogIsItems ==
    ASSUME TypeOK, NEW c \in Nat
    PROVE  /\ Backlog(c) \in Seq(Item)
           /\ c + 1 .. Current \subseteq SeqsOf(Backlog(c))
<1> DEFINE k == IF c >= Current THEN 0 ELSE Current - c
<1>1. /\ Current \in Nat /\ k \in Nat
      /\ \A n \in 1 .. Current : prompts[n] \in SUBSET Callers
  BY DEF TypeOK, Current
<1>2. \A i \in 1 .. k : c + i \in 1 .. Current
  BY <1>1
<1>3. \A i \in 1 .. k : FrameItem(c + i) \in Item /\ FrameItem(c + i).seq = c + i
  BY <1>1, <1>2 DEF FrameItem, Item
<1>4. Backlog(c) = [i \in 1 .. k |-> FrameItem(c + i)]
  BY DEF Backlog
<1>5. \A n \in c + 1 .. Current : n - c \in 1 .. k /\ c + (n - c) = n
  BY <1>1
<1> HIDE DEF k
<1>6. Backlog(c) \in Seq(Item)
  <2>1. k \in Nat /\ Backlog(c) \in [1 .. k -> Item]
    BY <1>1, <1>3, <1>4
  <2> QED
    BY <2>1, SeqDef
<1>7. DOMAIN Backlog(c) = 1 .. k /\ \A i \in 1 .. k : Backlog(c)[i].seq = c + i
  BY <1>3, <1>4
<1>8. c + 1 .. Current \subseteq SeqsOf(Backlog(c))
  <2> SUFFICES ASSUME NEW n \in c + 1 .. Current PROVE n \in SeqsOf(Backlog(c))
    OBVIOUS
  <2>1. n - c \in DOMAIN Backlog(c) /\ Backlog(c)[n - c].seq = n
    BY <1>5, <1>7
  <2> QED
    BY <2>1 DEF SeqsOf
<1> QED
  BY <1>6, <1>8

LEMMA RedeliveryIsItems ==
    ASSUME TypeOK
    PROVE  Redelivery \in Seq(Item) /\ PromptsOf(Redelivery) = outstanding
<1>1. CASE outstanding = {}
  BY <1>1 DEF Redelivery, PromptsOf
<1>2. CASE outstanding # {}
  <2>1. Redelivery = <<[seq |-> 0, prompts |-> outstanding]>>
    BY <1>2 DEF Redelivery
  <2>2. [seq |-> 0, prompts |-> outstanding] \in Item
    BY DEF TypeOK, Item
  <2>3. Redelivery \in Seq(Item) /\ DOMAIN Redelivery = {1} /\ Redelivery[1].prompts = outstanding
    BY <2>1, <2>2
  <2> QED
    BY <2>3 DEF PromptsOf
<1> QED
  BY <1>1, <1>2

-----------------------------------------------------------------------------
(* Type correctness.                                                       *)

LEMMA TypeInit == Init => TypeOK
<1> SUFFICES ASSUME Init PROVE TypeOK
  OBVIOUS
<1>1. /\ <<>> \in Seq(Item) /\ <<>> \in Seq(SUBSET Callers) /\ Len(<<>>) = 0
  OBVIOUS
<1>2. /\ queue \in [Streams -> Seq(Item)] /\ wire \in [Streams -> Seq(Item)]
      /\ prompts \in Seq(SUBSET Callers) /\ Current = 0
  BY <1>1 DEF Init, Current
<1>3. hand \in [Producers -> 0 .. Current]
  BY <1>2 DEF Init
<1> QED
  BY <1>2, <1>3, SessionAssumption DEF Init, TypeOK, Ring!Init, NoCursor, NoReply

\* A push and a send, the two halves of enqueue, keep the types they touch.
LEMMA PushTypes ==
    ASSUME TypeOK, NEW p \in Producers, NEW asks \in SUBSET Callers, PushFrame(p, asks)
    PROVE  /\ prompts' \in Seq(SUBSET Callers) /\ floor' \in Nat /\ hand' \in [Producers -> 0 .. Current']
           /\ Len(prompts') = Len(prompts) + 1
           /\ \A n \in 1 .. Len(prompts) : prompts'[n] = prompts[n]
           /\ prompts'[Len(prompts) + 1] = asks
           /\ hand'[p] = Current + 1
<1>1. prompts' = Append(prompts, asks) /\ prompts \in Seq(SUBSET Callers)
  BY DEF PushFrame, TypeOK
<1>2. floor' \in Nat
  <2>1. PICK f \in floor .. Len(prompts) + 1 + 1 : floor' = f
    BY DEF PushFrame, Ring!Push
  <2> QED
    BY <2>1, <1>1 DEF TypeOK
<1>3. Len(prompts) \in Nat /\ Len(prompts') = Len(prompts) + 1
  BY <1>1
<1>4. hand' = [hand EXCEPT ![p] = Len(prompts) + 1] /\ hand \in [Producers -> 0 .. Len(prompts)]
  BY DEF PushFrame, TypeOK, Current
<1>5. hand' \in [Producers -> 0 .. Len(prompts')] /\ hand'[p] = Len(prompts) + 1
  BY <1>3, <1>4
<1> QED
  BY <1>1, <1>2, <1>3, <1>5 DEF Current

LEMMA SendTypes ==
    ASSUME TypeOK, NEW p \in Producers, SendFrame(p)
    PROVE  /\ queue' \in [Streams -> Seq(Item)] /\ hand' \in [Producers -> 0 .. Current]
           /\ FrameItem(hand[p]) \in Item
<1>1. FrameItem(hand[p]) \in Item
  <2>1. hand[p] \in 1 .. Len(prompts)
    BY DEF TypeOK, SendFrame, Current
  <2> QED
    BY <2>1 DEF TypeOK, FrameItem, Item
<1>2. \A s \in Streams : Append(queue[s], FrameItem(hand[p])) \in Seq(Item)
  BY <1>1, ItemsInAppend DEF TypeOK
<1>3. queue' \in [Streams -> Seq(Item)]
  BY <1>2 DEF SendFrame, TypeOK
<1>4. hand' \in [Producers -> 0 .. Current]
  <2>1. 0 \in 0 .. Current
    BY DEF TypeOK, Current
  <2> QED
    BY <2>1 DEF SendFrame, TypeOK
<1> QED
  BY <1>1, <1>3, <1>4

\* A drainer between its attempt and its write has an item to write.
WriterHasItem == \A s \in Streams : drainer[s] = "writing" => queue[s] # <<>>

LEMMA TypeStep == TypeOK /\ WriterHasItem /\ [Next]_vars => TypeOK'
<1> SUFFICES ASSUME TypeOK, WriterHasItem, [Next]_vars PROVE TypeOK'
  OBVIOUS
<1> USE DEF TypeOK
<1>1. ASSUME NEW s \in Streams, StreamStep(s) PROVE TypeOK'
  <2>1. CASE MintSession(s)
    BY <2>1 DEF MintSession, ringVars, tableVars, drainVars, clientVars, callVars, reapVars, Current
  <2>2. CASE ResolveExisting(s)
    <3>1. PICK c \in EffectiveCursors :
            cursor' = [cursor EXCEPT ![s] = DispatchCursor(KindOf(c), c)]
      BY <2>2 DEF ResolveExisting
    <3>2. c \in Nat
      BY SessionAssumption DEF EffectiveCursors, AutoCursor
    <3>3. /\ KindOf(c) \in {"Resumed", "DriftReload"}
          /\ DispatchCursor(KindOf(c), c) \in Nat \cup {NoCursor}
      BY <3>2 DEF KindOf, DispatchCursor
    <3> QED
      BY <2>2, <3>1, <3>3 DEF ResolveExisting, ringVars, tableVars, drainVars, clientVars,
         callVars, reapVars, Current
  <2>3. CASE RespondFails(s)
    BY <2>3 DEF RespondFails, ringVars, tableVars, drainVars, clientVars, callVars, reapVars, Current
  <2>4. CASE InstallAttachment(s)
    <3>1. Current \in Nat
      BY DEF Current
    <3>2. OutcomeOf(cursor[s]) \in {"Fresh", "Resumed", "DriftReload"}
      BY DEF OutcomeOf, KindOf
    <3>3. queue' \in [Streams -> Seq(Item)] /\ base' \in [Streams -> Nat] /\ excused' \in Nat
      <4>1. CASE OutcomeOf(cursor[s]) = "Resumed"
        <5>1. cursor[s] \in Nat
          BY <4>1 DEF OutcomeOf
        <5>2. Backlog(cursor[s]) \o Redelivery \in Seq(Item)
          BY <5>1, BacklogIsItems, RedeliveryIsItems, ItemsInConcat
        <5> QED
          BY <2>4, <4>1, <5>1, <5>2 DEF InstallAttachment
      <4>2. CASE OutcomeOf(cursor[s]) # "Resumed"
        BY <2>4, <3>1, <4>2 DEF InstallAttachment
      <4> QED
        BY <4>1, <4>2
    <3> QED
      BY <2>4, <3>2, <3>3 DEF InstallAttachment, ringVars, tableVars, clientVars, callVars,
         reapVars, Current
  <2>5. CASE ClearDetached(s)
    BY <2>5 DEF ClearDetached, ringVars, tableVars, drainVars, clientVars, callVars, reapVars, Current
  <2>6. ASSUME NEW c \in Callers, TakePending(s, c) PROVE TypeOK'
    BY <2>6 DEF TakePending, ringVars, drainVars, clientVars, callVars, reapVars, Current
  <2>7. CASE FinishResolve(s)
    BY <2>7 DEF FinishResolve, ringVars, drainVars, clientVars, reapVars, Current
  <2>8. CASE DropAttachment(s)
    BY <2>8 DEF DropAttachment, ringVars, tableVars, drainVars, clientVars, callVars, reapVars, Current
  <2>9. CASE MarkDetached(s)
    BY <2>9 DEF MarkDetached, ringVars, tableVars, drainVars, clientVars, callVars, reapVars, Current
  <2> QED
    BY <1>1, <2>1, <2>2, <2>3, <2>4, <2>5, <2>6, <2>7, <2>8, <2>9 DEF StreamStep
<1>2. ASSUME NEW s \in Streams, DrainerStep(s) PROVE TypeOK'
  <2>1. CASE Attempt(s)
    <3>1. Head(queue[s]).seq \in Nat
      BY <2>1, ItemsInTail DEF Attempt, Item
    <3> QED
      BY <2>1, <3>1 DEF Attempt, ringVars, tableVars, streamVars, clientVars, callVars,
         reapVars, Current
  <2>2. CASE WriteOk(s)
    <3>1. queue[s] # <<>>
      BY <2>2 DEF WriteOk, WriterHasItem
    <3>2. Head(queue[s]) \in Item /\ Tail(queue[s]) \in Seq(Item)
      BY <3>1, ItemsInTail
    <3>3. Append(wire[s], Head(queue[s])) \in Seq(Item)
      BY <3>2, ItemsInAppend
    <3>4. wire' \in [Streams -> Seq(Item)] /\ queue' \in [Streams -> Seq(Item)]
      BY <2>2, <3>2, <3>3 DEF WriteOk
    <3>5. received' \in [Streams -> Nat]
      BY <2>2 DEF WriteOk
    <3>6. drainer' \in [Streams -> {"none", "ready", "writing", "stopped"}]
      BY <2>2 DEF WriteOk
    <3> QED
      BY <2>2, <3>4, <3>5, <3>6 DEF WriteOk, ringVars, tableVars, streamVars, callVars, reapVars, Current
  <2>3. CASE WriteFails(s)
    <3>1. queue' \in [Streams -> Seq(Item)]
      <4>1. <<>> \in Seq(Item)
        OBVIOUS
      <4> QED
        BY <2>3, <4>1 DEF WriteFails
    <3> QED
      BY <2>3, <3>1 DEF WriteFails, ringVars, tableVars, streamVars, clientVars, callVars,
         reapVars, Current
  <2>4. CASE DrainEnds(s)
    BY <2>4 DEF DrainEnds, ringVars, tableVars, streamVars, clientVars, callVars, reapVars, Current
  <2> QED
    BY <1>2, <2>1, <2>2, <2>3, <2>4 DEF DrainerStep
<1>3. ASSUME NEW s \in Streams, ClientGoes(s) PROVE TypeOK'
  <2>1. gone' \in [Streams -> BOOLEAN] /\ received' \in [Streams -> Nat]
    BY <1>3 DEF ClientGoes
  <2> QED
    BY <1>3, <2>1
       DEF ClientGoes, ringVars, tableVars, streamVars, drainVars, callVars, reapVars, Current
<1>4. ASSUME NEW p \in Notifiers, NotifyPush(p) PROVE TypeOK'
  <2>1. p \in Producers /\ {} \in SUBSET Callers /\ PushFrame(p, {})
    BY <1>4 DEF NotifyPush, Producers
  <2>2. /\ prompts' \in Seq(SUBSET Callers) /\ floor' \in Nat
        /\ hand' \in [Producers -> 0 .. Current']
    BY <2>1, PushTypes
  <2> QED
    BY <1>4, <2>2 DEF NotifyPush, tableVars, streamVars, drainVars, clientVars, callVars, reapVars
<1>5. ASSUME NEW p \in Notifiers, NotifySend(p) PROVE TypeOK'
  <2>1. queue' \in [Streams -> Seq(Item)] /\ hand' \in [Producers -> 0 .. Current]
    BY <1>5, SendTypes DEF NotifySend, Producers
  <2> QED
    BY <1>5, <2>1 DEF NotifySend, ringVars, tableVars, streamVars, clientVars, callVars, reapVars,
       Current
<1>6. ASSUME NEW c \in Callers, CallerStep(c) PROVE TypeOK'
  <2>1. CASE RegisterPending(c)
    BY <2>1 DEF RegisterPending, ringVars, streamVars, drainVars, clientVars, reapVars, Current
  <2>2. CASE RegisterOutstanding(c)
    BY <2>2 DEF RegisterOutstanding, ringVars, streamVars, drainVars, clientVars, reapVars, Current
  <2>3. CASE RequestPush(c)
    <3>1. c \in Producers /\ {c} \in SUBSET Callers /\ PushFrame(c, {c})
      BY <2>3 DEF RequestPush, Producers
    <3>2. /\ prompts' \in Seq(SUBSET Callers) /\ floor' \in Nat
          /\ hand' \in [Producers -> 0 .. Current']
      BY <3>1, PushTypes
    <3> QED
      BY <2>3, <3>2 DEF RequestPush, tableVars, streamVars, drainVars, clientVars, reapVars
  <2>4. CASE RequestSend(c)
    <3>1. queue' \in [Streams -> Seq(Item)] /\ hand' \in [Producers -> 0 .. Current]
      BY <2>4, SendTypes DEF RequestSend, Producers
    <3> QED
      BY <2>4, <3>1 DEF RequestSend, ringVars, tableVars, streamVars, clientVars, reapVars, Current
  <2>5. CASE TakeReply(c)
    BY <2>5 DEF TakeReply, ringVars, tableVars, streamVars, drainVars, clientVars, reapVars, Current
  <2>6. CASE TimeOut(c)
    BY <2>6 DEF TimeOut, ringVars, streamVars, drainVars, clientVars, reapVars, Current
  <2>7. CASE ForgetOutstanding(c)
    BY <2>7 DEF ForgetOutstanding, ringVars, streamVars, drainVars, clientVars, reapVars, Current
  <2> QED
    BY <1>6, <2>1, <2>2, <2>3, <2>4, <2>5, <2>6, <2>7 DEF CallerStep
<1>7. CASE ReapCheck
  BY <1>7 DEF ReapCheck, ringVars, tableVars, streamVars, drainVars, clientVars, callVars, Current
<1>8. CASE ReapDrain
  BY <1>8 DEF ReapDrain, ringVars, streamVars, drainVars, clientVars, callVars, Current
<1>9. CASE ReapClear
  BY <1>9 DEF ReapClear, ringVars, streamVars, drainVars, clientVars, Current
<1>10. CASE UNCHANGED vars
  BY <1>10 DEF vars, ringVars, tableVars, streamVars, drainVars, clientVars, callVars, reapVars,
     Current
<1> QED
  BY <1>1, <1>2, <1>3, <1>4, <1>5, <1>6, <1>7, <1>8, <1>9, <1>10 DEF Next, ReaperStep

LEMMA WriterStep == TypeOK /\ WriterHasItem /\ [Next]_vars => WriterHasItem'
<1> SUFFICES ASSUME TypeOK, WriterHasItem, [Next]_vars PROVE WriterHasItem'
  OBVIOUS
<1>1. ASSUME NEW p \in Producers, SendFrame(p), UNCHANGED drainer PROVE WriterHasItem'
  <2>1. FrameItem(hand[p]) \in Item
    BY <1>1, SendTypes
  <2>2. \A s \in Streams : queue[s] \in Seq(Item)
                           /\ (queue'[s] = queue[s] \/ queue'[s] = Append(queue[s], FrameItem(hand[p])))
    BY <1>1 DEF SendFrame, TypeOK
  <2>3. \A s \in Streams : queue[s] # <<>> => queue'[s] # <<>>
    BY <2>1, <2>2
  <2> QED
    BY <1>1, <2>3 DEF WriterHasItem
<1>2. ASSUME NEW s \in Streams, DrainerStep(s) PROVE WriterHasItem'
  BY <1>2 DEF DrainerStep, Attempt, WriteOk, WriteFails, DrainEnds, WriterHasItem, TypeOK
<1>3. ASSUME NEW s \in Streams, InstallAttachment(s) PROVE WriterHasItem'
  BY <1>3 DEF InstallAttachment, WriterHasItem, TypeOK
<1>4. ASSUME UNCHANGED <<drainer, queue>> PROVE WriterHasItem'
  BY <1>4 DEF WriterHasItem
<1>5. ASSUME NEW s \in Streams, StreamStep(s) PROVE WriterHasItem'
  BY <1>3, <1>4, <1>5 DEF StreamStep, MintSession, ResolveExisting, RespondFails, ClearDetached,
     TakePending, FinishResolve, DropAttachment, MarkDetached, drainVars
<1>6. ASSUME NEW p \in Notifiers, NotifyPush(p) \/ NotifySend(p) PROVE WriterHasItem'
  BY <1>1, <1>4, <1>6 DEF NotifyPush, NotifySend, drainVars, Producers
<1>7. ASSUME NEW c \in Callers, CallerStep(c) PROVE WriterHasItem'
  BY <1>1, <1>4, <1>7 DEF CallerStep, RegisterPending, RegisterOutstanding, RequestPush,
     RequestSend, TakeReply, TimeOut, ForgetOutstanding, drainVars, Producers
<1>8. ASSUME ReaperStep PROVE WriterHasItem'
  BY <1>4, <1>8 DEF ReaperStep, ReapCheck, ReapDrain, ReapClear, drainVars
<1>9. ASSUME NEW s \in Streams, ClientGoes(s) PROVE WriterHasItem'
  BY <1>4, <1>9 DEF ClientGoes, drainVars
<1> QED
  BY <1>2, <1>4, <1>5, <1>6, <1>7, <1>8, <1>9 DEF Next, vars, drainVars

\* Every variable keeps its type; in particular no drainer ever takes the head
\* of an empty queue.
THEOREM TypeCorrect == Spec => [](TypeOK /\ WriterHasItem)
<1>1. Init => TypeOK /\ WriterHasItem
  BY TypeInit DEF Init, WriterHasItem
<1>2. TypeOK /\ WriterHasItem /\ [Next]_vars => (TypeOK /\ WriterHasItem)'
  BY TypeStep, WriterStep
<1> QED
  BY <1>1, <1>2, PTL DEF Spec

-----------------------------------------------------------------------------
(* Delivery: nothing between the point an attachment starts from and the   *)
(* present is missing from its queue, its wire and the producers' hands.   *)

Basics == TypeOK /\ WriterHasItem

deliveryVars == <<prompts, attached, base, drainer, queue, wire, hand>>

\* What an attachment owes and has not got yet, frame by frame.
Accounted(s, n) == n \in SeqsOf(queue[s]) \/ n \in SeqsOf(wire[s]) \/ n \in InHand

\* A push adds the new seq to what is owed and to its producer's hand at once.
LEMMA PushKeepsDelivery ==
    ASSUME TypeOK, NothingSkipped, NEW p \in Producers, NEW asks \in SUBSET Callers,
           PushFrame(p, asks), UNCHANGED <<attached, base, drainer, queue, wire>>
    PROVE  NothingSkipped'
<1>1. SUFFICES ASSUME NEW s \in Streams, attached = s, drainer[s] # "stopped",
                      NEW n \in base[s] + 1 .. Current'
               PROVE  Accounted(s, n)'
  BY DEF NothingSkipped, Accounted
<1>2. /\ Current \in Nat /\ Current' = Current + 1 /\ hand'[p] = Current + 1 /\ base[s] \in Nat
  <2>1. hand' = [hand EXCEPT ![p] = Current + 1] /\ prompts' = Append(prompts, asks)
    BY DEF PushFrame
  <2>2. prompts \in Seq(SUBSET Callers) /\ hand \in [Producers -> 0 .. Current] /\ base[s] \in Nat
    BY DEF TypeOK
  <2> QED
    BY <2>1, <2>2 DEF Current
<1>3. CASE n = Current + 1
  BY <1>2, <1>3 DEF Accounted, InHand
<1>4. CASE n \in base[s] + 1 .. Current
  <2>1. Accounted(s, n)
    BY <1>1, <1>4 DEF NothingSkipped, Accounted
  <2>2. ASSUME n \in InHand PROVE n \in InHand'
    <3>1. PICK q \in Producers : n = hand[q]
      BY <2>2 DEF InHand
    <3>2. q # p
      BY <1>2, <1>4, <3>1 DEF PushFrame
    <3>3. hand'[q] = n
      BY <3>1, <3>2 DEF PushFrame, TypeOK
    <3> QED
      BY <3>3 DEF InHand
  <2> QED
    BY <2>1, <2>2 DEF Accounted
<1> QED
  BY <1>1, <1>2, <1>3, <1>4

\* A send moves the seq from the hand into the queue of the attached stream.
LEMMA SendKeepsDelivery ==
    ASSUME TypeOK, NothingSkipped, NEW p \in Producers,
           SendFrame(p), UNCHANGED <<prompts, attached, base, drainer, wire>>
    PROVE  NothingSkipped'
<1>1. SUFFICES ASSUME NEW s \in Streams, attached = s, drainer[s] # "stopped",
                      NEW n \in base[s] + 1 .. Current
               PROVE  Accounted(s, n)'
  BY DEF NothingSkipped, Accounted, Current
<1>2. FrameItem(hand[p]) \in Item /\ FrameItem(hand[p]).seq = hand[p]
  BY SendTypes DEF FrameItem
<1>3. queue'[s] = Append(queue[s], FrameItem(hand[p]))
  BY <1>1 DEF SendFrame
<1>4. SeqsOf(queue'[s]) = SeqsOf(queue[s]) \cup {hand[p]}
  BY <1>2, <1>3, ItemsInAppend DEF TypeOK
<1>5. Accounted(s, n)
  BY <1>1 DEF NothingSkipped, Accounted
<1>6. ASSUME NEW q \in Producers, n = hand[q], q # p PROVE n \in InHand'
  <2>1. hand'[q] = n
    BY <1>6 DEF SendFrame, TypeOK
  <2> QED
    BY <2>1 DEF InHand
<1>7. (SeqsOf(queue[s]))' = SeqsOf(queue'[s]) /\ (SeqsOf(wire[s]))' = SeqsOf(wire[s])
  BY DEF SeqsOf
<1> QED
  BY <1>4, <1>5, <1>6, <1>7 DEF Accounted, InHand

LEMMA DeliveryStep == Basics /\ NothingSkipped /\ [Next]_vars => NothingSkipped'
<1> SUFFICES ASSUME TypeOK, WriterHasItem, NothingSkipped, [Next]_vars PROVE NothingSkipped'
  BY DEF Basics
<1>1. ASSUME UNCHANGED deliveryVars PROVE NothingSkipped'
  BY <1>1 DEF deliveryVars, NothingSkipped, InHand, Current
<1>2. ASSUME NEW s \in Streams, StreamStep(s) PROVE NothingSkipped'
  <2>1. CASE InstallAttachment(s)
    <3>1. SUFFICES ASSUME NEW n \in base'[s] + 1 .. Current' PROVE n \in SeqsOf(queue'[s])
      BY <2>1 DEF InstallAttachment, NothingSkipped
    <3>2. Current' = Current /\ Current \in Nat
      BY <2>1 DEF InstallAttachment, ringVars, TypeOK, Current
    <3>3. CASE OutcomeOf(cursor[s]) = "Resumed"
      <4>1. /\ cursor[s] \in Nat /\ base'[s] = cursor[s]
            /\ queue'[s] = Backlog(cursor[s]) \o Redelivery
        BY <2>1, <3>3 DEF InstallAttachment, OutcomeOf, TypeOK
      <4>2. n \in SeqsOf(Backlog(cursor[s]))
        BY <3>1, <3>2, <4>1, BacklogIsItems
      <4> QED
        BY <4>1, <4>2, BacklogIsItems, RedeliveryIsItems, ItemsInConcat
    <3>4. CASE OutcomeOf(cursor[s]) # "Resumed"
      <4>1. base'[s] = Current
        BY <2>1, <3>4 DEF InstallAttachment, TypeOK
      <4> QED
        BY <3>1, <3>2, <4>1
    <3> QED
      BY <3>3, <3>4
  <2>2. CASE DropAttachment(s)
    BY <2>2, SessionAssumption DEF DropAttachment, NothingSkipped
  <2>3. CASE /\ ~InstallAttachment(s) /\ ~DropAttachment(s)
    BY <1>1, <1>2, <2>3 DEF StreamStep, MintSession, ResolveExisting, RespondFails, ClearDetached,
       TakePending, FinishResolve, MarkDetached, drainVars, ringVars, deliveryVars
  <2> QED
    BY <2>1, <2>2, <2>3
<1>3. ASSUME NEW s \in Streams, DrainerStep(s) PROVE NothingSkipped'
  <2>1. CASE WriteOk(s)
    <3>1. queue[s] # <<>> /\ queue[s] \in Seq(Item) /\ wire[s] \in Seq(Item)
      BY <2>1 DEF WriteOk, WriterHasItem, TypeOK
    <3>2. Head(queue[s]) \in Item /\ SeqsOf(queue[s]) = SeqsOf(Tail(queue[s])) \cup {Head(queue[s]).seq}
      BY <3>1, ItemsInTail
    <3>3. SeqsOf(Append(wire[s], Head(queue[s]))) = SeqsOf(wire[s]) \cup {Head(queue[s]).seq}
      BY <3>1, <3>2, ItemsInAppend
    <3>4. queue'[s] = Tail(queue[s]) /\ wire'[s] = Append(wire[s], Head(queue[s]))
      BY <2>1 DEF WriteOk, TypeOK
    <3>5. SeqsOf(queue'[s]) \cup SeqsOf(wire'[s]) = SeqsOf(queue[s]) \cup SeqsOf(wire[s])
      BY <3>2, <3>3, <3>4
    <3>6. \A r \in Streams : r # s => queue'[r] = queue[r] /\ wire'[r] = wire[r]
      BY <2>1 DEF WriteOk, TypeOK
    <3>7. /\ attached' = attached /\ base' = base /\ hand' = hand /\ prompts' = prompts
          /\ \A r \in Streams : drainer'[r] # "stopped" => drainer[r] # "stopped"
      BY <2>1 DEF WriteOk, streamVars, ringVars, TypeOK
    <3> QED
      BY <3>5, <3>6, <3>7 DEF NothingSkipped, InHand, Current
  <2>2. CASE WriteFails(s)
    BY <2>2 DEF WriteFails, streamVars, ringVars, NothingSkipped, InHand, Current, TypeOK
  <2>3. CASE Attempt(s) \/ DrainEnds(s)
    BY <2>3 DEF Attempt, DrainEnds, streamVars, ringVars, NothingSkipped, InHand, Current, TypeOK
  <2> QED
    BY <1>3, <2>1, <2>2, <2>3 DEF DrainerStep
<1>4. ASSUME NEW p \in Notifiers, NotifyPush(p) PROVE NothingSkipped'
  <2>1. p \in Producers /\ {} \in SUBSET Callers
    BY DEF Producers
  <2> QED
    BY <1>4, <2>1, PushKeepsDelivery DEF NotifyPush, streamVars, drainVars
<1>5. ASSUME NEW p \in Notifiers, NotifySend(p) PROVE NothingSkipped'
  BY <1>5, SendKeepsDelivery DEF NotifySend, streamVars, ringVars, Producers
<1>6. ASSUME NEW c \in Callers, CallerStep(c) PROVE NothingSkipped'
  <2>1. c \in Producers /\ {c} \in SUBSET Callers
    BY DEF Producers
  <2>2. CASE RequestPush(c)
    BY <2>1, <2>2, PushKeepsDelivery DEF RequestPush, streamVars, drainVars
  <2>3. CASE RequestSend(c)
    BY <2>1, <2>3, SendKeepsDelivery DEF RequestSend, streamVars, ringVars
  <2>4. CASE ~RequestPush(c) /\ ~RequestSend(c)
    BY <1>1, <1>6, <2>4 DEF CallerStep, RegisterPending, RegisterOutstanding, TakeReply, TimeOut,
       ForgetOutstanding, ringVars, streamVars, drainVars, deliveryVars
  <2> QED
    BY <2>2, <2>3, <2>4
<1>7. ASSUME NEW s \in Streams, ClientGoes(s) PROVE NothingSkipped'
  BY <1>1, <1>7 DEF ClientGoes, ringVars, streamVars, drainVars, deliveryVars
<1>8. ASSUME ReaperStep PROVE NothingSkipped'
  BY <1>1, <1>8 DEF ReaperStep, ReapCheck, ReapDrain, ReapClear, ringVars, streamVars, drainVars,
     deliveryVars
<1>9. CASE UNCHANGED vars
  BY <1>1, <1>9 DEF vars, ringVars, streamVars, drainVars, deliveryVars
<1> QED
  BY <1>2, <1>3, <1>4, <1>5, <1>6, <1>7, <1>8, <1>9 DEF Next

\* install_attachment and the two halves of enqueue never leave a gap, for any
\* number of streams and producers and any capacity of the ring.
THEOREM DeliveryHasNoGap == Spec => []NothingSkipped
<1>1. Init => Basics /\ NothingSkipped
  BY TypeInit, SessionAssumption DEF Init, Basics, WriterHasItem, NothingSkipped
<1>2. Basics /\ NothingSkipped /\ [Next]_vars => (Basics /\ NothingSkipped)'
  BY TypeStep, WriterStep, DeliveryStep DEF Basics
<1> QED
  BY <1>1, <1>2, PTL DEF Spec

-----------------------------------------------------------------------------
(* Responders: from the moment it is registered, a request's oneshot is     *)
(* parked in pending, held by the reaper, or held by a reader.              *)

HasResponder(c) ==
    \/ c \in pending
    \/ c \in drained
    \/ \E s \in Streams : stream[s] = "resolving" /\ c \in answering[s]

\* The strengthening of WaiterHasResponder that a step preserves: it holds from
\* registration on, and the reaper starts a tick with nothing in its hands.
ResponderInv ==
    /\ \A c \in Callers :
          caller[c] \in {"registering", "registered", "pushed", "waiting"} /\ reply[c] = NoReply
             => HasResponder(c)
    /\ reaper # "drained" => drained = {}

responderVars == <<pending, drained, stream, answering, caller, reply, reaper>>

LEMMA ResponderStep == TypeOK /\ ResponderInv /\ [Next]_vars => ResponderInv'
<1> SUFFICES ASSUME TypeOK, ResponderInv, [Next]_vars PROVE ResponderInv'
  OBVIOUS
<1>1. ASSUME UNCHANGED responderVars PROVE ResponderInv'
  BY <1>1 DEF responderVars, ResponderInv, HasResponder
<1>2. ASSUME NEW s \in Streams, StreamStep(s) PROVE ResponderInv'
  <2>1. ASSUME NEW c \in Callers, TakePending(s, c) PROVE ResponderInv'
    <3>1. /\ stream[s] = "reading" /\ pending' = pending \ {c} /\ answering'[s] = {c}
          /\ stream'[s] = IF c \in pending THEN "resolving" ELSE "unmatched"
          /\ \A r \in Streams : r # s => stream'[r] = stream[r] /\ answering'[r] = answering[r]
          /\ UNCHANGED <<caller, reply, reaper, drained>>
      BY <2>1 DEF TakePending, callVars, reapVars, TypeOK
    <3>2. ASSUME NEW d \in Callers, HasResponder(d) PROVE HasResponder(d)'
      BY <3>1, <3>2 DEF HasResponder
    <3> QED
      BY <3>1, <3>2 DEF ResponderInv
  <2>2. CASE FinishResolve(s)
    <3>1. /\ \A r \in Streams : r # s => stream'[r] = stream[r] /\ answering'[r] = answering[r]
          /\ UNCHANGED <<caller, pending, reaper, drained>>
      BY <2>2 DEF FinishResolve, reapVars, TypeOK
    <3>2. ASSUME NEW d \in Callers, reply'[d] = NoReply
          PROVE  reply[d] = NoReply /\ ~(stream[s] = "resolving" /\ d \in answering[s])
      BY <2>2, <3>2 DEF FinishResolve, NoReply
    <3>3. ASSUME NEW d \in Callers, HasResponder(d), reply'[d] = NoReply PROVE HasResponder(d)'
      BY <3>1, <3>2, <3>3 DEF HasResponder
    <3> QED
      BY <3>1, <3>2, <3>3 DEF ResponderInv
  <2>3. CASE ~FinishResolve(s) /\ ~(\E c \in Callers : TakePending(s, c))
    <3>1. /\ UNCHANGED <<answering, pending, drained, caller, reply, reaper>>
          /\ \A r \in Streams : stream[r] = "resolving" => stream'[r] = "resolving"
      BY <1>2, <2>3 DEF StreamStep, MintSession, ResolveExisting, RespondFails, InstallAttachment,
         ClearDetached, DropAttachment, MarkDetached, tableVars, callVars, reapVars, TypeOK
    <3> QED
      BY <3>1 DEF ResponderInv, HasResponder
  <2> QED
    BY <2>1, <2>2, <2>3
<1>3. ASSUME NEW s \in Streams, DrainerStep(s) \/ ClientGoes(s) PROVE ResponderInv'
  BY <1>1, <1>3 DEF DrainerStep, Attempt, WriteOk, WriteFails, DrainEnds, ClientGoes, tableVars,
     streamVars, callVars, reapVars, responderVars
<1>4. ASSUME NEW p \in Notifiers, NotifyPush(p) \/ NotifySend(p) PROVE ResponderInv'
  BY <1>1, <1>4 DEF NotifyPush, NotifySend, tableVars, streamVars, callVars, reapVars, responderVars
<1>5. ASSUME NEW c \in Callers, CallerStep(c) PROVE ResponderInv'
  <2>1. UNCHANGED <<drained, stream, answering, reaper>>
    BY <1>5 DEF CallerStep, RegisterPending, RegisterOutstanding, RequestPush, RequestSend,
       TakeReply, TimeOut, ForgetOutstanding, streamVars, reapVars
  <2>2. \A d \in Callers : d # c => caller'[d] = caller[d] /\ reply'[d] = reply[d]
                                    /\ (d \in pending => d \in pending')
    BY <1>5 DEF CallerStep, RegisterPending, RegisterOutstanding, RequestPush, RequestSend,
       TakeReply, TimeOut, ForgetOutstanding, tableVars, TypeOK
  <2>3. /\ caller'[c] \in {"registering", "registered", "pushed", "waiting"}
              /\ reply'[c] = NoReply /\ c \notin pending'
           => /\ caller[c] \in {"registering", "registered", "pushed", "waiting"}
              /\ reply[c] = NoReply /\ c \notin pending
    BY <1>5 DEF CallerStep, RegisterPending, RegisterOutstanding, RequestPush, RequestSend,
       TakeReply, TimeOut, ForgetOutstanding, tableVars, TypeOK
  <2>4. ASSUME NEW d \in Callers,
               caller'[d] \in {"registering", "registered", "pushed", "waiting"},
               reply'[d] = NoReply
        PROVE  HasResponder(d)'
    <3>1. CASE d = c
      BY <2>1, <2>3, <2>4, <3>1 DEF ResponderInv, HasResponder
    <3>2. CASE d # c
      BY <2>1, <2>2, <2>4, <3>2 DEF ResponderInv, HasResponder
    <3> QED
      BY <3>1, <3>2
  <2> QED
    BY <2>1, <2>4 DEF ResponderInv
<1>6. ASSUME ReaperStep PROVE ResponderInv'
  <2>1. CASE ReapCheck
    BY <2>1 DEF ReapCheck, tableVars, streamVars, callVars, ResponderInv, HasResponder
  <2>2. CASE ReapDrain
    BY <2>2 DEF ReapDrain, streamVars, callVars, ResponderInv, HasResponder
  <2>3. CASE ReapClear
    BY <2>3 DEF ReapClear, streamVars, ResponderInv, HasResponder, NoReply
  <2> QED
    BY <1>6, <2>1, <2>2, <2>3 DEF ReaperStep
<1>7. CASE UNCHANGED vars
  BY <1>1, <1>7 DEF vars, tableVars, streamVars, callVars, reapVars, responderVars
<1> QED
  BY <1>2, <1>3, <1>4, <1>5, <1>6, <1>7 DEF Next

\* Whatever clients, timers and reaper do, no request() call is left waiting on
\* a oneshot nobody holds.
THEOREM WaiterAlwaysHasResponder == Spec => []WaiterHasResponder
<1>1. Init => TypeOK /\ WriterHasItem /\ ResponderInv
  BY TypeInit DEF Init, WriterHasItem, ResponderInv
<1>2. TypeOK /\ WriterHasItem /\ ResponderInv /\ [Next]_vars
         => (TypeOK /\ WriterHasItem /\ ResponderInv)'
  BY TypeStep, WriterStep, ResponderStep
<1>3. ResponderInv => WaiterHasResponder
  BY DEF ResponderInv, HasResponder, WaiterHasResponder
<1> QED
  BY <1>1, <1>2, <1>3, PTL DEF Spec

-----------------------------------------------------------------------------
(* Prompts: an outstanding request whose frame has gone out is shown on     *)
(* every stream that resumed.                                              *)

\* Between its push and its send a request's own frame is in its hand.
HandHoldsPrompt ==
    \A c \in Callers :
        caller[c] = "pushed" => hand[c] \in 1 .. Current /\ prompts[hand[c]] = {c}

promptVars == <<outstanding, caller, attached, drainer, outcome, queue, wire, prompts, hand>>

\* A send only adds prompts to queues, and its own to the attached stream's.
LEMMA SendShows ==
    ASSUME TypeOK, NEW p \in Producers, SendFrame(p), NEW s \in Streams
    PROVE  /\ PromptsOf(queue[s]) \subseteq PromptsOf(queue'[s])
           /\ s = attached /\ drainer[s] # "stopped"
                 => prompts[hand[p]] \subseteq PromptsOf(queue'[s])
<1>1. FrameItem(hand[p]) \in Item /\ FrameItem(hand[p]).prompts = prompts[hand[p]]
  BY SendTypes DEF FrameItem
<1>2. CASE s = attached /\ drainer[s] # "stopped"
  <2>1. queue'[s] = Append(queue[s], FrameItem(hand[p])) /\ queue[s] \in Seq(Item)
    BY <1>2 DEF SendFrame, TypeOK
  <2> QED
    BY <1>1, <2>1, ItemsInAppend
<1>3. CASE ~(s = attached /\ drainer[s] # "stopped")
  BY <1>3 DEF SendFrame
<1> QED
  BY <1>2, <1>3

LEMMA HandStep == TypeOK /\ HandHoldsPrompt /\ [Next]_vars => HandHoldsPrompt'
<1> SUFFICES ASSUME TypeOK, HandHoldsPrompt, [Next]_vars PROVE HandHoldsPrompt'
  OBVIOUS
<1>1. ASSUME UNCHANGED <<caller, hand, prompts>> PROVE HandHoldsPrompt'
  BY <1>1 DEF HandHoldsPrompt, Current
<1>2. ASSUME NEW p \in Producers, NEW asks \in SUBSET Callers, PushFrame(p, asks),
             NEW c \in Callers, c # p, caller'[c] = caller[c], caller'[c] = "pushed"
      PROVE  hand'[c] \in 1 .. Current' /\ prompts'[hand'[c]] = {c}
  <2>1. hand'[c] = hand[c] /\ hand[c] \in 1 .. Len(prompts) /\ prompts[hand[c]] = {c}
    BY <1>2 DEF PushFrame, HandHoldsPrompt, Producers, Current, TypeOK
  <2>2. /\ Len(prompts) \in Nat /\ Len(prompts') = Len(prompts) + 1
        /\ \A n \in 1 .. Len(prompts) : prompts'[n] = prompts[n]
    BY <1>2, PushTypes DEF TypeOK
  <2> QED
    BY <2>1, <2>2 DEF Current
<1>3. ASSUME NEW p \in Notifiers, NotifyPush(p) PROVE HandHoldsPrompt'
  <2>1. /\ p \in Producers /\ {} \in SUBSET Callers /\ PushFrame(p, {}) /\ caller' = caller
        /\ \A c \in Callers : c # p
    BY <1>3, SessionAssumption DEF NotifyPush, Producers, callVars
  <2> QED
    BY <1>2, <2>1 DEF HandHoldsPrompt
<1>4. ASSUME NEW p \in Notifiers, NotifySend(p) PROVE HandHoldsPrompt'
  <2>1. /\ prompts' = prompts /\ caller' = caller
        /\ \A c \in Callers : hand'[c] = hand[c]
    BY <1>4, SessionAssumption DEF NotifySend, SendFrame, ringVars, callVars, Producers, TypeOK
  <2> QED
    BY <2>1 DEF HandHoldsPrompt, Current
<1>5. ASSUME NEW c \in Callers, CallerStep(c) PROVE HandHoldsPrompt'
  <2>1. CASE RequestPush(c)
    <3>1. /\ c \in Producers /\ {c} \in SUBSET Callers /\ PushFrame(c, {c})
          /\ \A d \in Callers : d # c => caller'[d] = caller[d]
      BY <2>1 DEF RequestPush, Producers, TypeOK
    <3>2. /\ hand'[c] = Len(prompts) + 1 /\ Len(prompts') = Len(prompts) + 1
          /\ prompts'[Len(prompts) + 1] = {c} /\ Len(prompts) \in Nat
      BY <3>1, PushTypes DEF Current, TypeOK
    <3>3. hand'[c] \in 1 .. Current' /\ prompts'[hand'[c]] = {c}
      BY <3>2 DEF Current
    <3> QED
      BY <1>2, <3>1, <3>3 DEF HandHoldsPrompt
  <2>2. CASE RequestSend(c)
    <3>1. /\ prompts' = prompts /\ caller'[c] = "waiting"
          /\ \A d \in Callers : d # c => hand'[d] = hand[d] /\ caller'[d] = caller[d]
      BY <2>2 DEF RequestSend, SendFrame, ringVars, Producers, TypeOK
    <3> QED
      BY <3>1 DEF HandHoldsPrompt, Current
  <2>3. CASE ~RequestPush(c) /\ ~RequestSend(c)
    <3>1. /\ prompts' = prompts /\ hand' = hand /\ caller'[c] # "pushed"
          /\ \A d \in Callers : d # c => caller'[d] = caller[d]
      BY <1>5, <2>3 DEF CallerStep, RegisterPending, RegisterOutstanding, TakeReply, TimeOut,
         ForgetOutstanding, ringVars, TypeOK
    <3> QED
      BY <3>1 DEF HandHoldsPrompt, Current
  <2> QED
    BY <2>1, <2>2, <2>3
<1>6. ASSUME NEW s \in Streams, StreamStep(s) \/ DrainerStep(s) \/ ClientGoes(s)
      PROVE  HandHoldsPrompt'
  BY <1>1, <1>6 DEF StreamStep, MintSession, ResolveExisting, RespondFails, InstallAttachment,
     ClearDetached, TakePending, FinishResolve, DropAttachment, MarkDetached, DrainerStep,
     Attempt, WriteOk, WriteFails, DrainEnds, ClientGoes, ringVars, callVars
<1>7. ASSUME ReaperStep PROVE HandHoldsPrompt'
  BY <1>1, <1>7 DEF ReaperStep, ReapCheck, ReapDrain, ReapClear, ringVars, callVars
<1>8. CASE UNCHANGED vars
  BY <1>1, <1>8 DEF vars, ringVars, callVars
<1> QED
  BY <1>3, <1>4, <1>5, <1>6, <1>7, <1>8 DEF Next

LEMMA PromptStep ==
    Basics /\ HandHoldsPrompt /\ ResumedSeesPrompts /\ [Next]_vars => ResumedSeesPrompts'
<1> SUFFICES ASSUME TypeOK, WriterHasItem, HandHoldsPrompt, ResumedSeesPrompts, [Next]_vars
             PROVE  ResumedSeesPrompts'
  BY DEF Basics
<1>1. ASSUME UNCHANGED <<attached, outcome, queue, wire>>,
             \A s \in Streams : drainer'[s] # "stopped" => drainer[s] # "stopped",
             \A c \in Callers : c \in outstanding' /\ caller'[c] = "waiting"
                                   => c \in outstanding /\ caller[c] = "waiting"
      PROVE  ResumedSeesPrompts'
  <2> SUFFICES ASSUME NEW s \in Streams,
                      attached' = s, drainer'[s] # "stopped", outcome'[s] = "Resumed",
                      NEW c \in outstanding', caller'[c] = "waiting"
               PROVE  c \in PromptsOf(queue'[s]) \cup PromptsOf(wire'[s])
    BY DEF ResumedSeesPrompts, PromptShown
  <2>1. c \in Callers
    BY TypeStep DEF TypeOK
  <2>2. /\ attached = s /\ drainer[s] # "stopped" /\ outcome[s] = "Resumed"
        /\ c \in outstanding /\ caller[c] = "waiting"
    BY <1>1, <2>1
  <2> QED
    BY <1>1, <2>2 DEF ResumedSeesPrompts, PromptShown
<1>2. ASSUME NEW s \in Streams, StreamStep(s) PROVE ResumedSeesPrompts'
  <2>1. CASE InstallAttachment(s)
    <3>1. CASE OutcomeOf(cursor[s]) = "Resumed"
      <4>1. cursor[s] \in Nat /\ queue'[s] = Backlog(cursor[s]) \o Redelivery
        BY <2>1, <3>1 DEF InstallAttachment, OutcomeOf, TypeOK
      <4>2. outstanding \subseteq PromptsOf(queue'[s])
        BY <4>1, BacklogIsItems, RedeliveryIsItems, ItemsInConcat
      <4> QED
        BY <2>1, <4>2 DEF InstallAttachment, tableVars, ResumedSeesPrompts, PromptShown
    <3>2. CASE OutcomeOf(cursor[s]) # "Resumed"
      BY <2>1, <3>2 DEF InstallAttachment, ResumedSeesPrompts, TypeOK
    <3> QED
      BY <3>1, <3>2
  <2>2. CASE DropAttachment(s)
    BY <2>2, SessionAssumption DEF DropAttachment, ResumedSeesPrompts
  <2>3. CASE ~InstallAttachment(s) /\ ~DropAttachment(s)
    BY <1>1, <1>2, <2>3 DEF StreamStep, MintSession, ResolveExisting, RespondFails, ClearDetached,
       TakePending, FinishResolve, MarkDetached, drainVars, tableVars, callVars
  <2> QED
    BY <2>1, <2>2, <2>3
<1>3. ASSUME NEW s \in Streams, DrainerStep(s) PROVE ResumedSeesPrompts'
  <2>1. CASE WriteOk(s)
    <3>1. queue[s] # <<>> /\ queue[s] \in Seq(Item) /\ wire[s] \in Seq(Item)
      BY <2>1 DEF WriteOk, WriterHasItem, TypeOK
    <3>2. /\ Head(queue[s]) \in Item
          /\ PromptsOf(queue[s]) = PromptsOf(Tail(queue[s])) \cup Head(queue[s]).prompts
      BY <3>1, ItemsInTail
    <3>3. PromptsOf(Append(wire[s], Head(queue[s]))) = PromptsOf(wire[s]) \cup Head(queue[s]).prompts
      BY <3>1, <3>2, ItemsInAppend
    <3>4. queue'[s] = Tail(queue[s]) /\ wire'[s] = Append(wire[s], Head(queue[s]))
      BY <2>1 DEF WriteOk, TypeOK
    <3>5. PromptsOf(queue'[s]) \cup PromptsOf(wire'[s]) = PromptsOf(queue[s]) \cup PromptsOf(wire[s])
      BY <3>2, <3>3, <3>4
    <3>6. \A r \in Streams : r # s => queue'[r] = queue[r] /\ wire'[r] = wire[r]
      BY <2>1 DEF WriteOk, TypeOK
    <3>7. /\ attached' = attached /\ outcome' = outcome /\ outstanding' = outstanding
          /\ caller' = caller
          /\ \A r \in Streams : drainer'[r] # "stopped" => drainer[r] # "stopped"
      BY <2>1 DEF WriteOk, streamVars, tableVars, callVars, TypeOK
    <3> QED
      BY <3>5, <3>6, <3>7 DEF ResumedSeesPrompts, PromptShown
  <2>2. CASE WriteFails(s)
    BY <2>2 DEF WriteFails, streamVars, tableVars, callVars, ResumedSeesPrompts, PromptShown, TypeOK
  <2>3. CASE Attempt(s) \/ DrainEnds(s)
    BY <1>1, <2>3 DEF Attempt, DrainEnds, streamVars, tableVars, callVars, TypeOK
  <2> QED
    BY <1>3, <2>1, <2>2, <2>3 DEF DrainerStep
<1>4. ASSUME NEW p \in Notifiers, NotifyPush(p) PROVE ResumedSeesPrompts'
  BY <1>1, <1>4 DEF NotifyPush, tableVars, streamVars, drainVars, callVars
<1>5. ASSUME NEW p \in Notifiers, NotifySend(p) PROVE ResumedSeesPrompts'
  <2>1. \A s \in Streams : PromptsOf(queue[s]) \subseteq PromptsOf(queue'[s])
    BY <1>5, SendShows DEF NotifySend, Producers
  <2> QED
    BY <1>5, <2>1 DEF NotifySend, tableVars, streamVars, callVars, ResumedSeesPrompts, PromptShown
<1>6. ASSUME NEW c \in Callers, CallerStep(c) PROVE ResumedSeesPrompts'
  <2>1. CASE RequestSend(c)
    <3>1. c \in Producers /\ SendFrame(c) /\ prompts[hand[c]] = {c}
      BY <2>1 DEF RequestSend, HandHoldsPrompt, Producers, SendFrame
    <3>2. \A s \in Streams :
             /\ PromptsOf(queue[s]) \subseteq PromptsOf(queue'[s])
             /\ s = attached /\ drainer[s] # "stopped" => c \in PromptsOf(queue'[s])
      BY <3>1, SendShows
    <3>3. /\ UNCHANGED <<attached, drainer, wire, outcome, outstanding>>
          /\ \A d \in Callers : d # c => caller'[d] = caller[d]
      BY <2>1 DEF RequestSend, tableVars, streamVars, TypeOK
    <3>4. ASSUME NEW s \in Streams,
                 attached = s, drainer[s] # "stopped", outcome[s] = "Resumed",
                 NEW d \in outstanding, caller'[d] = "waiting"
          PROVE  d \in PromptsOf(queue'[s]) \cup PromptsOf(wire[s])
      <4>1. CASE d = c
        BY <3>2, <3>4, <4>1
      <4>2. CASE d # c
        <5>1. d \in Callers /\ caller[d] = "waiting"
          BY <3>3, <3>4, <4>2 DEF TypeOK
        <5>2. d \in PromptsOf(queue[s]) \cup PromptsOf(wire[s])
          BY <3>4, <5>1 DEF ResumedSeesPrompts, PromptShown
        <5> QED
          BY <3>2, <5>2
      <4> QED
        BY <4>1, <4>2
    <3> QED
      BY <3>3, <3>4 DEF ResumedSeesPrompts, PromptShown
  <2>2. CASE ~RequestSend(c)
    BY <1>1, <1>6, <2>2 DEF CallerStep, RegisterPending, RegisterOutstanding, RequestPush,
       TakeReply, TimeOut, ForgetOutstanding, tableVars, streamVars, drainVars, TypeOK
  <2> QED
    BY <2>1, <2>2
<1>7. ASSUME NEW s \in Streams, ClientGoes(s) PROVE ResumedSeesPrompts'
  BY <1>1, <1>7 DEF ClientGoes, tableVars, streamVars, drainVars, callVars
<1>8. ASSUME ReaperStep PROVE ResumedSeesPrompts'
  BY <1>1, <1>8 DEF ReaperStep, ReapCheck, ReapDrain, ReapClear, tableVars, streamVars, drainVars,
     callVars
<1>9. CASE UNCHANGED vars
  BY <1>1, <1>9 DEF vars, tableVars, streamVars, drainVars, callVars
<1> QED
  BY <1>2, <1>3, <1>4, <1>5, <1>6, <1>7, <1>8, <1>9 DEF Next

\* A client that resumes is shown every prompt still outstanding: whatever the
\* interleaving of its attach with the request's registration and enqueue, the
\* prompt is in its backlog, in its replay frame or on its live channel.
THEOREM ResumedAlwaysSeesPrompts == Spec => []ResumedSeesPrompts
<1>1. Init => Basics /\ HandHoldsPrompt /\ ResumedSeesPrompts
  BY TypeInit, SessionAssumption
  DEF Init, Basics, WriterHasItem, HandHoldsPrompt, ResumedSeesPrompts
<1>2. Basics /\ HandHoldsPrompt /\ ResumedSeesPrompts /\ [Next]_vars
         => (Basics /\ HandHoldsPrompt /\ ResumedSeesPrompts)'
  BY TypeStep, WriterStep, HandStep, PromptStep DEF Basics
<1> QED
  BY <1>1, <1>2, PTL DEF Spec

-----------------------------------------------------------------------------
(* The two tables: with no reaper, pending and outstanding part only while  *)
(* some task is between its two critical sections.                         *)

Registered == {"registered", "pushed", "waiting", "forgetting", "done"}

\* Request c has left register_pending: it is in a table, a frame or an answer.
Announced(c) ==
    \/ c \in outstanding
    \/ \E n \in 1 .. Current : c \in prompts[n]
    \/ \E s \in Streams : c \in PromptsOf(queue[s]) \cup PromptsOf(wire[s])
    \/ \E s \in Streams : c \in answering[s]
    \/ reply[c] # NoReply

AnnouncedIsRegistered == \A c \in Callers : Announced(c) => caller[c] \in Registered

\* A reader holds the response to c, between the two halves of resolve_pending.
Taken(c) == \E s \in Streams : stream[s] \in {"resolving", "unmatched"} /\ c \in answering[s]

TablesInv ==
    /\ reaper = "idle"
    /\ \A c \in pending :
          /\ caller[c] \in {"registering", "registered", "pushed", "waiting"}
          /\ reply[c] = NoReply /\ ~Taken(c)
          /\ caller[c] = "registering" \/ c \in outstanding
    /\ \A c \in Callers : caller[c] = "registering" => c \in pending
    /\ \A c \in outstanding : c \in pending \/ Taken(c) \/ caller[c] = "forgetting"

announceVars == <<outstanding, prompts, queue, wire, answering, reply>>

LEMMA PromptsInConcat ==
    ASSUME NEW q \in Seq(Item), NEW r \in Seq(Item)
    PROVE  PromptsOf(q \o r) \subseteq PromptsOf(q) \cup PromptsOf(r)
<1> DEFINE t == q \o r
<1>1. /\ Len(q) \in Nat /\ Len(r) \in Nat
      /\ DOMAIN q = 1 .. Len(q) /\ DOMAIN r = 1 .. Len(r)
      /\ DOMAIN t = 1 .. Len(q) + Len(r)
      /\ \A i \in 1 .. Len(q) : t[i] = q[i]
      /\ \A i \in 1 .. Len(r) : t[Len(q) + i] = r[i]
  OBVIOUS
<1> HIDE DEF t
<1>2. ASSUME NEW i \in DOMAIN t
      PROVE  (\E j \in DOMAIN q : t[i] = q[j]) \/ (\E j \in DOMAIN r : t[i] = r[j])
  <2>1. CASE i \in 1 .. Len(q)
    BY <1>1, <2>1
  <2>2. CASE i \notin 1 .. Len(q)
    <3>1. i - Len(q) \in DOMAIN r /\ Len(q) + (i - Len(q)) = i
      BY <1>1, <2>2
    <3> QED
      BY <1>1, <3>1
  <2> QED
    BY <2>1, <2>2
<1>3. PromptsOf(t) \subseteq PromptsOf(q) \cup PromptsOf(r)
  BY <1>2 DEF PromptsOf
<1> QED
  BY <1>3 DEF t

LEMMA BacklogPrompts ==
    ASSUME TypeOK, NEW c \in Nat, NEW d \in PromptsOf(Backlog(c))
    PROVE  \E n \in 1 .. Current : d \in prompts[n]
<1> DEFINE k == IF c >= Current THEN 0 ELSE Current - c
<1>1. Current \in Nat /\ k \in Nat
  BY DEF TypeOK, Current
<1>2. \A i \in 1 .. k : c + i \in 1 .. Current
  BY <1>1
<1>3. Backlog(c) = [i \in 1 .. k |-> FrameItem(c + i)]
  BY DEF Backlog
<1> HIDE DEF k
<1>4. PICK i \in 1 .. k : d \in FrameItem(c + i).prompts
  BY <1>3 DEF PromptsOf
<1> QED
  BY <1>2, <1>4 DEF FrameItem

LEMMA CallerAdvances ==
    ASSUME TypeOK, [Next]_vars, NEW c \in Callers, caller[c] \in Registered
    PROVE  caller'[c] \in Registered
<1>1. ASSUME NEW d \in Callers, CallerStep(d) PROVE caller'[c] \in Registered
  BY <1>1 DEF CallerStep, RegisterPending, RegisterOutstanding, RequestPush, RequestSend, TakeReply,
     TimeOut, ForgetOutstanding, Registered, TypeOK
<1>2. CASE UNCHANGED caller
  BY <1>2
<1>3. ASSUME NEW s \in Streams, StreamStep(s) \/ DrainerStep(s) \/ ClientGoes(s)
      PROVE  UNCHANGED caller
  BY <1>3 DEF StreamStep, MintSession, ResolveExisting, RespondFails, InstallAttachment, ClearDetached,
     TakePending, FinishResolve, DropAttachment, MarkDetached, DrainerStep, Attempt, WriteOk,
     WriteFails, DrainEnds, ClientGoes, callVars
<1>4. ASSUME NEW p \in Notifiers, NotifyPush(p) \/ NotifySend(p) PROVE UNCHANGED caller
  BY <1>4 DEF NotifyPush, NotifySend, callVars
<1>5. ASSUME ReaperStep \/ UNCHANGED vars PROVE UNCHANGED caller
  BY <1>5 DEF ReaperStep, ReapCheck, ReapDrain, ReapClear, vars, callVars
<1> QED
  BY <1>1, <1>2, <1>3, <1>4, <1>5 DEF Next

LEMMA PushAnnounces ==
    ASSUME TypeOK, NEW p \in Producers, NEW asks \in SUBSET Callers, PushFrame(p, asks),
           UNCHANGED <<outstanding, queue, wire, answering, reply>>,
           NEW c \in Callers, Announced(c)'
    PROVE  Announced(c) \/ c \in asks
<1>1. /\ Len(prompts) \in Nat /\ Len(prompts') = Len(prompts) + 1
      /\ \A n \in 1 .. Len(prompts) : prompts'[n] = prompts[n]
      /\ prompts'[Len(prompts) + 1] = asks
  BY PushTypes DEF TypeOK
<1>2. \A n \in 1 .. Len(prompts') : n \in 1 .. Len(prompts) \/ n = Len(prompts) + 1
  BY <1>1
<1>3. ASSUME NEW n \in 1 .. Len(prompts'), c \in prompts'[n] PROVE Announced(c) \/ c \in asks
  BY <1>1, <1>2, <1>3 DEF Announced, Current
<1> QED
  BY <1>3 DEF Announced, Current

LEMMA SendAnnounces ==
    ASSUME TypeOK, NEW p \in Producers, SendFrame(p),
           UNCHANGED <<outstanding, prompts, wire, answering, reply>>,
           NEW c \in Callers, Announced(c)'
    PROVE  Announced(c)
<1>1. /\ FrameItem(hand[p]) \in Item /\ FrameItem(hand[p]).prompts = prompts[hand[p]]
      /\ hand[p] \in 1 .. Current
  <2>1. hand[p] \in 1 .. Current
    BY DEF SendFrame, TypeOK, Current
  <2> QED
    BY <2>1, SendTypes DEF FrameItem
<1>2. ASSUME NEW s \in Streams PROVE PromptsOf(queue'[s]) \subseteq PromptsOf(queue[s]) \cup prompts[hand[p]]
  <2>1. queue[s] \in Seq(Item) /\ (queue'[s] = queue[s] \/ queue'[s] = Append(queue[s], FrameItem(hand[p])))
    BY DEF SendFrame, TypeOK
  <2> QED
    BY <1>1, <2>1, ItemsInAppend
<1>3. CASE \E s \in Streams : c \in PromptsOf(queue'[s])
  BY <1>1, <1>2, <1>3 DEF Announced
<1>4. (\E s \in Streams : c \in PromptsOf(queue'[s])) \/ Announced(c)
  BY DEF Announced, Current
<1> QED
  BY <1>3, <1>4

\* Whatever a step announces, its request has been registered.
LEMMA AnnouncedStep ==
    ASSUME TypeOK, WriterHasItem, ~ReaperRuns, reaper = "idle", [Next]_vars,
           NEW c \in Callers, Announced(c)'
    PROVE  Announced(c) \/ caller'[c] \in Registered
<1>1. CASE UNCHANGED announceVars
  BY <1>1 DEF announceVars, Announced, Current
<1>2. ASSUME NEW s \in Streams, StreamStep(s) PROVE Announced(c)
  <2>1. CASE InstallAttachment(s)
    <3>1. UNCHANGED <<outstanding, prompts, wire, answering, reply>>
          /\ \A r \in Streams \ {s} : queue'[r] = queue[r]
      BY <2>1 DEF InstallAttachment, tableVars, ringVars, callVars, TypeOK
    <3>2. CASE queue' = queue
      BY <3>1, <3>2 DEF Announced, Current
    <3>3. CASE OutcomeOf(cursor[s]) = "Resumed"
      <4>1. cursor[s] \in Nat /\ queue'[s] = Backlog(cursor[s]) \o Redelivery
        BY <2>1, <3>3 DEF InstallAttachment, OutcomeOf, TypeOK
      <4>2. PromptsOf(queue'[s]) \subseteq PromptsOf(Backlog(cursor[s])) \cup outstanding
        BY <4>1, PromptsInConcat, BacklogIsItems, RedeliveryIsItems
      <4>3. ASSUME c \in PromptsOf(queue'[s]) PROVE Announced(c)
        BY <4>1, <4>2, <4>3, BacklogPrompts DEF Announced
      <4> QED
        BY <3>1, <4>3 DEF Announced, Current
    <3> QED
      BY <2>1, <3>2, <3>3 DEF InstallAttachment
  <2>2. ASSUME NEW d \in Callers, TakePending(s, d) PROVE Announced(c)
    <3>1. /\ UNCHANGED <<outstanding, prompts, queue, wire, reply>>
          /\ answering'[s] = {d} /\ \A r \in Streams \ {s} : answering'[r] = answering[r]
      BY <2>2 DEF TakePending, ringVars, drainVars, callVars, TypeOK
    <3>2. Announced(d)
      BY <2>2 DEF TakePending, Announced
    <3> QED
      BY <3>1, <3>2 DEF Announced, Current
  <2>3. CASE FinishResolve(s)
    <3>1. /\ UNCHANGED <<prompts, queue, wire>>
          /\ outstanding' \subseteq outstanding
          /\ \A r \in Streams : answering'[r] \subseteq answering[r]
          /\ reply'[c] = reply[c] \/ c \in answering[s]
      BY <2>3 DEF FinishResolve, ringVars, drainVars, TypeOK
    <3> QED
      BY <3>1 DEF Announced, Current
  <2>4. CASE /\ ~InstallAttachment(s) /\ ~FinishResolve(s)
             /\ ~\E d \in Callers : TakePending(s, d)
    <3>1. UNCHANGED announceVars
      BY <1>2, <2>4 DEF StreamStep, MintSession, ResolveExisting, RespondFails, ClearDetached,
         DropAttachment, MarkDetached, ringVars, tableVars, drainVars, callVars, announceVars
    <3> QED
      BY <3>1 DEF announceVars, Announced, Current
  <2> QED
    BY <2>1, <2>2, <2>3, <2>4
<1>3. ASSUME NEW s \in Streams, DrainerStep(s) PROVE Announced(c)
  <2>1. UNCHANGED <<outstanding, prompts, answering, reply>>
    BY <1>3 DEF DrainerStep, Attempt, WriteOk, WriteFails, DrainEnds, ringVars, tableVars,
       streamVars, callVars
  <2>2. ASSUME NEW r \in Streams
        PROVE  PromptsOf(queue'[r]) \cup PromptsOf(wire'[r]) \subseteq PromptsOf(queue[r]) \cup PromptsOf(wire[r])
    <3>1. CASE WriteOk(s) /\ r = s
      <4>1. queue[s] # <<>> /\ queue[s] \in Seq(Item) /\ wire[s] \in Seq(Item)
        BY <3>1 DEF WriteOk, WriterHasItem, TypeOK
      <4>2. /\ Head(queue[s]) \in Item
            /\ PromptsOf(queue[s]) = PromptsOf(Tail(queue[s])) \cup Head(queue[s]).prompts
        BY <4>1, ItemsInTail
      <4>3. PromptsOf(Append(wire[s], Head(queue[s]))) = PromptsOf(wire[s]) \cup Head(queue[s]).prompts
        BY <4>1, <4>2, ItemsInAppend
      <4>4. queue'[s] = Tail(queue[s]) /\ wire'[s] = Append(wire[s], Head(queue[s]))
        BY <3>1 DEF WriteOk, TypeOK
      <4> QED
        BY <3>1, <4>2, <4>3, <4>4
    <3>2. CASE WriteFails(s) /\ r = s
      <4>1. queue'[s] = <<>> /\ wire'[s] = wire[s]
        BY <3>2 DEF WriteFails, TypeOK
      <4> QED
        BY <3>2, <4>1 DEF PromptsOf
    <3>3. CASE r # s \/ Attempt(s) \/ DrainEnds(s)
      <4>1. queue'[r] = queue[r] /\ wire'[r] = wire[r]
        BY <1>3, <3>3 DEF DrainerStep, Attempt, WriteOk, WriteFails, DrainEnds, TypeOK
      <4> QED
        BY <4>1
    <3> QED
      BY <1>3, <3>1, <3>2, <3>3 DEF DrainerStep
  <2> QED
    BY <2>1, <2>2 DEF Announced, Current
<1>4. ASSUME NEW p \in Notifiers, NotifyPush(p) PROVE Announced(c)
  <2>1. /\ p \in Producers /\ {} \in SUBSET Callers /\ PushFrame(p, {})
        /\ UNCHANGED <<outstanding, queue, wire, answering, reply>>
    BY <1>4 DEF NotifyPush, Producers, tableVars, drainVars, streamVars, callVars
  <2> QED
    BY <2>1, PushAnnounces
<1>5. ASSUME NEW p \in Notifiers, NotifySend(p) PROVE Announced(c)
  BY <1>5, SendAnnounces DEF NotifySend, Producers, ringVars, tableVars, streamVars, callVars
<1>6. ASSUME NEW d \in Callers, CallerStep(d) PROVE Announced(c) \/ caller'[c] \in Registered
  <2>1. CASE RequestPush(d)
    <3>1. /\ d \in Producers /\ {d} \in SUBSET Callers /\ PushFrame(d, {d})
          /\ UNCHANGED <<outstanding, queue, wire, answering, reply>>
          /\ caller'[d] = "pushed"
      BY <2>1 DEF RequestPush, Producers, tableVars, drainVars, streamVars, TypeOK
    <3> QED
      BY <3>1, PushAnnounces DEF Registered
  <2>2. CASE RequestSend(d)
    BY <2>2, SendAnnounces DEF RequestSend, Producers, ringVars, tableVars, streamVars
  <2>3. CASE RegisterOutstanding(d) \/ ForgetOutstanding(d)
    <3>1. /\ UNCHANGED <<prompts, queue, wire, answering>>
          /\ outstanding' \subseteq outstanding \cup {d}
          /\ c # d => reply'[c] = reply[c]
          /\ caller'[d] \in Registered
      BY <2>3 DEF RegisterOutstanding, ForgetOutstanding, ringVars, streamVars, drainVars, Registered,
         TypeOK
    <3> QED
      BY <3>1 DEF Announced, Current
  <2>4. CASE RegisterPending(d) \/ TakeReply(d) \/ TimeOut(d)
    BY <1>1, <2>4 DEF RegisterPending, TakeReply, TimeOut, ringVars, tableVars, streamVars,
       drainVars, announceVars
  <2> QED
    BY <1>6, <2>1, <2>2, <2>3, <2>4 DEF CallerStep
<1>7. ASSUME NEW s \in Streams, ClientGoes(s) PROVE UNCHANGED announceVars
  BY <1>7 DEF ClientGoes, ringVars, tableVars, streamVars, drainVars, callVars, announceVars
<1>8. ~ReaperStep
  BY DEF ReaperStep, ReapCheck, ReapDrain, ReapClear
<1>9. CASE UNCHANGED vars
  BY <1>1, <1>9 DEF vars, ringVars, tableVars, streamVars, drainVars, callVars, announceVars
<1> QED
  BY <1>1, <1>2, <1>3, <1>4, <1>5, <1>6, <1>7, <1>8, <1>9 DEF Next

LEMMA TablesInit == Init => AnnouncedIsRegistered /\ TablesInv
<1> SUFFICES ASSUME Init PROVE AnnouncedIsRegistered /\ TablesInv
  OBVIOUS
<1>1. Current = 0 /\ 1 .. 0 = {}
  BY DEF Init, Current
<1>2. \A s \in Streams : PromptsOf(queue[s]) = {} /\ PromptsOf(wire[s]) = {}
  BY DEF Init, PromptsOf
<1>3. \A c \in Callers : ~Announced(c)
  BY <1>1, <1>2 DEF Init, Announced
<1> QED
  BY <1>3 DEF Init, AnnouncedIsRegistered, TablesInv

\* A step that keeps to one caller and leaves the other requests' entries alone.
LEMMA CallerKeepsTables ==
    ASSUME TypeOK, TablesInv, AnnouncedIsRegistered, NEW c \in Callers, CallerStep(c)
    PROVE  TablesInv'
<1>1. /\ UNCHANGED <<stream, answering, reaper>>
      /\ pending' \subseteq Callers /\ outstanding' \subseteq Callers
      /\ \A d \in Callers \ {c} :
            /\ caller'[d] = caller[d] /\ reply'[d] = reply[d]
            /\ d \in pending' <=> d \in pending
            /\ d \in outstanding' <=> d \in outstanding
  BY DEF CallerStep, RegisterPending, RegisterOutstanding, RequestPush, RequestSend, TakeReply,
     TimeOut, ForgetOutstanding, streamVars, reapVars, tableVars, TypeOK
<1>2. \A d \in Callers : Taken(d)' <=> Taken(d)
  BY <1>1 DEF Taken
<1>3. Taken(c) \/ reply[c] # NoReply \/ c \in outstanding => caller[c] \in Registered
  BY DEF AnnouncedIsRegistered, Announced, Taken
<1>4. /\ c \in pending' =>
            /\ caller'[c] \in {"registering", "registered", "pushed", "waiting"}
            /\ reply'[c] = NoReply /\ ~Taken(c)
            /\ caller'[c] = "registering" \/ c \in outstanding'
      /\ caller'[c] = "registering" => c \in pending'
      /\ c \in outstanding' => c \in pending' \/ Taken(c) \/ caller'[c] = "forgetting"
  <2>1. /\ c \in pending =>
            /\ caller[c] \in {"registering", "registered", "pushed", "waiting"}
            /\ reply[c] = NoReply /\ ~Taken(c)
            /\ caller[c] = "registering" \/ c \in outstanding
        /\ caller[c] = "registering" => c \in pending
        /\ c \in outstanding => c \in pending \/ Taken(c) \/ caller[c] = "forgetting"
    BY DEF TablesInv
  <2>2. CASE RegisterPending(c)
    BY <1>3, <2>1, <2>2 DEF RegisterPending, Registered, TypeOK
  <2>3. CASE RegisterOutstanding(c)
    BY <2>1, <2>3 DEF RegisterOutstanding, TypeOK
  <2>4. CASE RequestPush(c)
    BY <2>1, <2>4 DEF RequestPush, tableVars, TypeOK
  <2>5. CASE RequestSend(c)
    BY <2>1, <2>5 DEF RequestSend, tableVars, TypeOK
  <2>6. CASE TakeReply(c)
    BY <2>1, <2>6 DEF TakeReply, tableVars, TypeOK
  <2>7. CASE TimeOut(c)
    BY <2>1, <2>7 DEF TimeOut, TypeOK
  <2>8. CASE ForgetOutstanding(c)
    BY <2>1, <2>8 DEF ForgetOutstanding, TypeOK
  <2> QED
    BY <2>2, <2>3, <2>4, <2>5, <2>6, <2>7, <2>8 DEF CallerStep
<1>5. ASSUME NEW d \in pending'
      PROVE  /\ caller'[d] \in {"registering", "registered", "pushed", "waiting"}
             /\ reply'[d] = NoReply /\ ~Taken(d)'
             /\ caller'[d] = "registering" \/ d \in outstanding'
  BY <1>1, <1>2, <1>4, <1>5 DEF TablesInv
<1>6. \A d \in Callers : caller'[d] = "registering" => d \in pending'
  BY <1>1, <1>4 DEF TablesInv
<1>7. \A d \in outstanding' : d \in pending' \/ Taken(d)' \/ caller'[d] = "forgetting"
  BY <1>1, <1>2, <1>4 DEF TablesInv
<1> QED
  BY <1>1, <1>5, <1>6, <1>7 DEF TablesInv

LEMMA TablesStep ==
    ASSUME TypeOK, TablesInv, AnnouncedIsRegistered, ~ReaperRuns, [Next]_vars
    PROVE  TablesInv'
<1>1. CASE UNCHANGED <<pending, outstanding, answering, caller, reply, reaper>>
           /\ \A s \in Streams : stream'[s] \in {"resolving", "unmatched"}
                                     <=> stream[s] \in {"resolving", "unmatched"}
  BY <1>1 DEF TablesInv, Taken
<1>2. ASSUME NEW s \in Streams, NEW c \in Callers, TakePending(s, c) PROVE TablesInv'
  <2>1. /\ stream[s] = "reading" /\ stream'[s] \in {"resolving", "unmatched"}
        /\ answering'[s] = {c} /\ pending' = pending \ {c}
        /\ UNCHANGED <<outstanding, caller, reply, reaper>>
        /\ \A r \in Streams \ {s} : stream'[r] = stream[r] /\ answering'[r] = answering[r]
    BY <1>2 DEF TakePending, callVars, reapVars, TypeOK
  <2>2. \A d : (Taken(d) => Taken(d)') /\ (Taken(d)' => Taken(d) \/ d = c) /\ Taken(c)'
    BY <2>1 DEF Taken
  <2>3. caller[c] # "registering"
    BY <1>2 DEF TakePending, AnnouncedIsRegistered, Announced, Registered
  <2> QED
    BY <2>1, <2>2, <2>3 DEF TablesInv
<1>3. ASSUME NEW s \in Streams, FinishResolve(s) PROVE TablesInv'
  <2>1. /\ stream[s] \in {"resolving", "unmatched"} /\ stream'[s] = "reading"
        /\ outstanding' = outstanding \ answering[s]
        /\ UNCHANGED <<pending, caller, reaper>>
        /\ \A r \in Streams \ {s} : stream'[r] = stream[r] /\ answering'[r] = answering[r]
        /\ \A d \in Callers : d \in answering[s] \/ reply'[d] = reply[d]
    BY <1>3 DEF FinishResolve, reapVars, TypeOK
  <2>2. \A d : (Taken(d)' => Taken(d)) /\ (Taken(d) => Taken(d)' \/ d \in answering[s])
               /\ (d \in answering[s] => Taken(d))
    BY <2>1 DEF Taken
  <2>3. pending \subseteq Callers
    BY DEF TypeOK
  <2> QED
    BY <2>1, <2>2, <2>3 DEF TablesInv
<1>4. ASSUME NEW s \in Streams, StreamStep(s) PROVE TablesInv'
  <2>1. ASSUME ~FinishResolve(s), ~\E c \in Callers : TakePending(s, c)
        PROVE  /\ UNCHANGED <<pending, outstanding, answering, caller, reply, reaper>>
               /\ \A r \in Streams : stream'[r] \in {"resolving", "unmatched"}
                                         <=> stream[r] \in {"resolving", "unmatched"}
    BY <1>4, <2>1 DEF StreamStep, MintSession, ResolveExisting, RespondFails, InstallAttachment,
       ClearDetached, DropAttachment, MarkDetached, tableVars, callVars, reapVars, TypeOK
  <2> QED
    BY <1>1, <1>2, <1>3, <1>4, <2>1
<1>5. ASSUME NEW s \in Streams, DrainerStep(s) \/ ClientGoes(s) PROVE TablesInv'
  BY <1>1, <1>5 DEF DrainerStep, Attempt, WriteOk, WriteFails, DrainEnds, ClientGoes, tableVars,
     streamVars, callVars, reapVars
<1>6. ASSUME NEW p \in Notifiers, NotifyPush(p) \/ NotifySend(p) PROVE TablesInv'
  BY <1>1, <1>6 DEF NotifyPush, NotifySend, tableVars, streamVars, callVars, reapVars
<1>7. ~ReaperStep
  BY DEF ReaperStep, ReapCheck, ReapDrain, ReapClear, TablesInv
<1>8. CASE UNCHANGED vars
  BY <1>1, <1>8 DEF vars, tableVars, streamVars, callVars, reapVars
<1> QED
  BY <1>4, <1>5, <1>6, <1>7, <1>8, CallerKeepsTables DEF Next

\* Where the reaper stays away, register_pending, resolve_pending and
\* forget_pending (session/mod.rs) keep the two tables equal, for any number of
\* requests and of streams answering the same one, once none of them is between
\* its two sections; and what is left in them has its caller.
THEOREM TablesAlwaysInLockstep ==
    ASSUME ~ReaperRuns
    PROVE  Spec => []TablesInLockstep
<1> DEFINE Inv == TypeOK /\ WriterHasItem /\ AnnouncedIsRegistered /\ TablesInv
<1>1. Init => Inv
  BY TypeInit, TablesInit DEF Init, WriterHasItem
<1>2. Inv /\ [Next]_vars => Inv'
  <2> SUFFICES ASSUME Inv, [Next]_vars PROVE Inv'
    OBVIOUS
  <2>1. AnnouncedIsRegistered'
    BY AnnouncedStep, CallerAdvances DEF AnnouncedIsRegistered, TablesInv
  <2> QED
    BY <2>1, TypeStep, WriterStep, TablesStep
<1>3. Inv => TablesInLockstep
  <2> SUFFICES ASSUME Inv, Settled PROVE /\ pending = outstanding
                                         /\ \A c \in pending : caller[c] \in {"registered", "pushed", "waiting"}
    BY DEF TablesInLockstep
  <2>1. pending \subseteq Callers /\ outstanding \subseteq Callers
    BY DEF TypeOK
  <2>2. \A c : ~Taken(c)
    BY DEF Settled, Taken
  <2> QED
    BY <2>1, <2>2 DEF TablesInv, Settled
<1> QED
  BY <1>1, <1>2, <1>3, PTL DEF Spec

-----------------------------------------------------------------------------
(* The server's own cursor: with one producer, and clients that send none,  *)
(* what it skips has been written.                                         *)

\* Whatever a queue holds before a frame, or its wire has already, is all the
\* attachment owes before that frame.
QueuesInOrder ==
    \A s \in Streams : \A i \in 1 .. Len(queue[s]) :
        \A m \in base[s] + 1 .. queue[s][i].seq - 1 :
            m \in SeqsOf(wire[s]) \/ \E j \in 1 .. i - 1 : queue[s][j].seq = m

HandIsNewest == \A p \in Producers : hand[p] = 0 \/ hand[p] = Current

SkippedIsWritten ==
    \A n \in 1 .. lastAttempted - 1 :
        n <= excused \/ \E s \in Streams : n \in SeqsOf(wire[s])

\* No attachment starts from beyond what was attempted or excused.
StartsBehind ==
    /\ excused <= Current
    /\ \A s \in Streams :
          /\ cursor[s] <= 0 \/ cursor[s] < lastAttempted
          /\ base[s] <= excused \/ base[s] < lastAttempted

QueuedIsPushed == \A s \in Streams : \A i \in 1 .. Len(queue[s]) : queue[s][i].seq <= Current

ResumeInv == QueuesInOrder /\ QueuedIsPushed /\ HandIsNewest /\ SkippedIsWritten /\ StartsBehind

resumeVars == <<prompts, lastAttempted, cursor, base, queue, wire, hand, excused>>

LEMMA SeqsGrow ==
    ASSUME TypeOK, WriterHasItem, [Next]_vars, NEW s \in Streams
    PROVE  SeqsOf(wire[s]) \subseteq SeqsOf(wire'[s])
<1>1. CASE UNCHANGED wire
  BY <1>1
<1>2. ASSUME NEW r \in Streams, WriteOk(r) PROVE SeqsOf(wire[s]) \subseteq SeqsOf(wire'[s])
  <2>1. CASE r = s
    <3>1. queue[s] # <<>> /\ queue[s] \in Seq(Item) /\ wire[s] \in Seq(Item)
      BY <1>2, <2>1 DEF WriteOk, WriterHasItem, TypeOK
    <3>2. wire'[s] = Append(wire[s], Head(queue[s])) /\ Head(queue[s]) \in Item
      BY <1>2, <2>1, <3>1, ItemsInTail DEF WriteOk, TypeOK
    <3> QED
      BY <3>1, <3>2, ItemsInAppend
  <2>2. CASE r # s
    BY <1>2, <2>2 DEF WriteOk, TypeOK
  <2> QED
    BY <2>1, <2>2
<1>3. ASSUME NEW r \in Streams, StreamStep(r) \/ ClientGoes(r) PROVE UNCHANGED wire
  BY <1>3 DEF StreamStep, MintSession, ResolveExisting, RespondFails, InstallAttachment, ClearDetached,
     TakePending, FinishResolve, DropAttachment, MarkDetached, ClientGoes, drainVars
<1>4. ASSUME NEW r \in Streams, DrainerStep(r) PROVE UNCHANGED wire \/ WriteOk(r)
  BY <1>4 DEF DrainerStep, Attempt, WriteFails, DrainEnds
<1>5. ASSUME NEW p \in Notifiers, NotifyPush(p) \/ NotifySend(p) PROVE UNCHANGED wire
  BY <1>5 DEF NotifyPush, NotifySend, drainVars
<1>6. ASSUME NEW c \in Callers, CallerStep(c) PROVE UNCHANGED wire
  BY <1>6 DEF CallerStep, RegisterPending, RegisterOutstanding, RequestPush, RequestSend, TakeReply,
     TimeOut, ForgetOutstanding, drainVars
<1>7. ASSUME ReaperStep \/ UNCHANGED vars PROVE UNCHANGED wire
  BY <1>7 DEF ReaperStep, ReapCheck, ReapDrain, ReapClear, vars, drainVars
<1> QED
  BY <1>1, <1>2, <1>3, <1>4, <1>5, <1>6, <1>7 DEF Next

LEMMA PushResume ==
    ASSUME TypeOK, ResumeInv, \A p, q \in Producers : p = q,
           NEW p \in Producers, NEW asks \in SUBSET Callers, PushFrame(p, asks),
           UNCHANGED <<lastAttempted, cursor, base, queue, wire, excused>>
    PROVE  ResumeInv'
<1>1. /\ Current \in Nat /\ Current' = Current + 1 /\ hand'[p] = Current + 1
  BY PushTypes DEF Current, TypeOK
<1>2. HandIsNewest'
  BY <1>1 DEF HandIsNewest
<1>3. QueuesInOrder' /\ SkippedIsWritten'
  BY DEF ResumeInv, QueuesInOrder, SkippedIsWritten
<1>4. StartsBehind' /\ QueuedIsPushed'
  <2>1. ASSUME NEW s \in Streams, NEW i \in 1 .. Len(queue[s]) PROVE queue[s][i].seq <= Current + 1
    <3>1. queue[s] \in Seq(Item)
      BY DEF TypeOK
    <3>2. queue[s][i] \in Item
      BY <3>1, ElementOfSeq
    <3>3. queue[s][i].seq <= Current
      BY DEF ResumeInv, QueuedIsPushed
    <3> QED
      BY <1>1, <3>2, <3>3 DEF Item
  <2>2. QueuedIsPushed'
    BY <1>1, <2>1 DEF QueuedIsPushed
  <2> QED
    BY <1>1, <2>2 DEF ResumeInv, StartsBehind, TypeOK
<1> QED
  BY <1>2, <1>3, <1>4 DEF ResumeInv

\* With one producer the frame it sends is the newest, so that everything the
\* attachment owes before it is already written or queued.
LEMMA SendResume ==
    ASSUME TypeOK, NothingSkipped, ResumeInv, \A p, q \in Producers : p = q,
           NEW p \in Producers, SendFrame(p),
           UNCHANGED <<prompts, attached, lastAttempted, cursor, base, drainer, wire, excused>>
    PROVE  ResumeInv'
<1>1. /\ FrameItem(hand[p]) \in Item /\ FrameItem(hand[p]).seq = hand[p] /\ hand[p] = Current
      /\ Current \in Nat
  <2>1. FrameItem(hand[p]) \in Item /\ FrameItem(hand[p]).seq = hand[p]
    BY SendTypes DEF FrameItem
  <2>2. hand[p] = Current
    BY DEF SendFrame, ResumeInv, HandIsNewest
  <2>3. Current \in Nat
    BY DEF TypeOK, Current
  <2> QED
    BY <2>1, <2>2, <2>3
<1>2. HandIsNewest'
  BY DEF SendFrame, HandIsNewest, TypeOK
<1>3. SkippedIsWritten' /\ StartsBehind'
  BY DEF ResumeInv, SkippedIsWritten, StartsBehind, Current
<1>4. ASSUME NEW s \in Streams, NEW i \in 1 .. Len(queue'[s]),
             NEW m \in base[s] + 1 .. queue'[s][i].seq - 1
      PROVE  m \in SeqsOf(wire[s]) \/ \E j \in 1 .. i - 1 : queue'[s][j].seq = m
  <2>1. CASE queue'[s] = queue[s]
    BY <1>4, <2>1 DEF ResumeInv, QueuesInOrder
  <2>2. CASE attached = s /\ drainer[s] # "stopped"
    <3> DEFINE q == queue[s]
               r == queue'[s]
    <3>1. q \in Seq(Item) /\ r = Append(q, FrameItem(hand[p]))
      BY <2>2 DEF SendFrame, TypeOK
    <3>2. /\ Len(q) \in Nat /\ Len(r) = Len(q) + 1 /\ r[Len(q) + 1] = FrameItem(hand[p])
          /\ \A k \in 1 .. Len(q) : r[k] = q[k]
          /\ DOMAIN q = 1 .. Len(q)
      BY <1>1, <3>1
    <3> HIDE DEF q, r
    <3>3. i \in 1 .. Len(r) /\ m \in base[s] + 1 .. r[i].seq - 1
      BY <1>4 DEF r
    <3>4. CASE i \in 1 .. Len(q)
      <4>1. m \in SeqsOf(wire[s]) \/ \E j \in 1 .. i - 1 : q[j].seq = m
        BY <3>2, <3>3, <3>4 DEF ResumeInv, QueuesInOrder, q
      <4>2. \A j \in 1 .. i - 1 : r[j] = q[j]
        BY <3>2, <3>4
      <4> QED
        BY <4>1, <4>2 DEF r
    <3>5. CASE i = Len(q) + 1
      <4>1. base[s] \in Nat
        BY DEF TypeOK
      <4>2. m \in base[s] + 1 .. Current /\ m # Current /\ m # 0
        BY <1>1, <3>2, <3>3, <3>5, <4>1
      <4>3. m \notin InHand
        BY <1>1, <4>2 DEF InHand
      <4>4. m \in SeqsOf(q) \/ m \in SeqsOf(wire[s])
        BY <2>2, <4>2, <4>3 DEF NothingSkipped, q
      <4>5. m \in SeqsOf(q) => \E j \in 1 .. i - 1 : q[j].seq = m
        BY <3>2, <3>5 DEF SeqsOf
      <4>6. \A j \in 1 .. i - 1 : r[j] = q[j]
        BY <3>2, <3>5
      <4> QED
        BY <4>4, <4>5, <4>6 DEF r
    <3> QED
      BY <3>2, <3>3, <3>4, <3>5
  <2> QED
    BY <2>1, <2>2 DEF SendFrame
<1>5. QueuesInOrder'
  BY <1>4 DEF QueuesInOrder, SeqsOf
<1>6. ASSUME NEW s \in Streams, NEW i \in 1 .. Len(queue'[s]) PROVE queue'[s][i].seq <= Current
  <2>1. CASE queue'[s] = queue[s]
    BY <1>6, <2>1 DEF ResumeInv, QueuedIsPushed
  <2>2. CASE queue'[s] = Append(queue[s], FrameItem(hand[p]))
    <3>1. queue[s] \in Seq(Item)
      BY DEF TypeOK
    <3>2. \/ i \in 1 .. Len(queue[s]) /\ queue'[s][i] = queue[s][i]
          \/ queue'[s][i] = FrameItem(hand[p])
      BY <1>1, <1>6, <2>2, <3>1
    <3> QED
      BY <1>1, <3>2 DEF ResumeInv, QueuedIsPushed
  <2> QED
    BY <2>1, <2>2 DEF SendFrame
<1>7. QueuedIsPushed'
  BY <1>6 DEF QueuedIsPushed, Current
<1> QED
  BY <1>2, <1>3, <1>5, <1>7 DEF ResumeInv

\* The backlog starts right behind the cursor, and counts up by one.
LEMMA BacklogInOrder ==
    ASSUME TypeOK, NEW c \in Nat, NEW r, r = Backlog(c) \o Redelivery
    PROVE  /\ \A i \in 1 .. Len(r) : \A m \in c + 1 .. r[i].seq - 1 :
                 \E j \in 1 .. i - 1 : r[j].seq = m
           /\ \A i \in 1 .. Len(r) : r[i].seq <= Current
<1> DEFINE k == IF c >= Current THEN 0 ELSE Current - c
           b == Backlog(c)
<1>1. Current \in Nat /\ k \in Nat
  BY DEF TypeOK, Current
<1>2. b = [i \in 1 .. k |-> FrameItem(c + i)] /\ b \in Seq(Item) /\ Len(b) = k
  <2>1. b = [i \in 1 .. k |-> FrameItem(c + i)] /\ b \in Seq(Item)
    BY BacklogIsItems DEF Backlog
  <2> HIDE DEF b, k
  <2>2. DOMAIN b = 1 .. k /\ DOMAIN b = 1 .. Len(b) /\ Len(b) \in Nat
    BY <2>1, LenProperties
  <2>3. Len(b) = k
    BY <1>1, <2>2
  <2> QED
    BY <2>1, <2>3
<1> HIDE DEF k, b
<1>3. \A i \in 1 .. k : b[i].seq = c + i
  BY <1>2 DEF FrameItem
<1>4. \A i \in 1 .. Len(Redelivery) : Redelivery[i].seq = 0
  BY DEF Redelivery
<1>5. /\ r \in Seq(Item) /\ Len(r) = k + Len(Redelivery) /\ Len(Redelivery) \in Nat
      /\ \A i \in 1 .. k : r[i].seq = c + i
      /\ \A i \in 1 .. Len(Redelivery) : r[k + i].seq = 0
  <2>1. r = b \o Redelivery /\ Redelivery \in Seq(Item)
    BY RedeliveryIsItems DEF b
  <2> DEFINE w == Redelivery
  <2>2. \A i \in 1 .. Len(w) : w[i].seq = 0
    BY <1>4
  <2>3. r = b \o w /\ w \in Seq(Item)
    BY <2>1
  <2> HIDE DEF w
  <2>4. r \in Seq(Item) /\ Len(r) = k + Len(w) /\ Len(w) \in Nat
    <3>1. b \in Seq(Item) /\ Len(b) = k
      BY <1>2
    <3>2. r \in Seq(Item) /\ Len(r) = Len(b) + Len(w)
      BY <2>3, <3>1, ConcatProperties
    <3> QED
      BY <2>3, <3>1, <3>2, LenProperties
  <2>5. \A i \in 1 .. k : r[i] = b[i]
    BY <1>1, <1>2, <2>3
  <2>6. \A i \in 1 .. Len(w) : r[k + i] = w[i]
    BY <1>1, <1>2, <2>3
  <2> QED
    BY <1>3, <2>2, <2>4, <2>5, <2>6 DEF w
<1>6. ASSUME NEW i \in 1 .. Len(r), NEW m \in c + 1 .. r[i].seq - 1
      PROVE  \E j \in 1 .. i - 1 : r[j].seq = m
  <2>1. CASE i \in 1 .. k
    <3>1. m - c \in 1 .. i - 1 /\ m - c \in 1 .. k /\ c + (m - c) = m
      BY <1>1, <1>5, <1>6, <2>1
    <3>2. r[m - c].seq = m
      BY <1>5, <3>1
    <3> QED
      BY <3>1, <3>2
  <2>2. CASE i \notin 1 .. k
    <3>1. i - k \in 1 .. Len(Redelivery) /\ k + (i - k) = i
      BY <1>1, <1>5, <2>2
    <3>2. r[i].seq = 0
      BY <1>5, <3>1
    <3> QED
      BY <1>6, <3>2
  <2> QED
    BY <2>1, <2>2
<1>7. ASSUME NEW i \in 1 .. Len(r) PROVE r[i].seq <= Current
  <2>1. CASE i \in 1 .. k
    BY <1>1, <1>5, <2>1 DEF k
  <2>2. CASE i \notin 1 .. k
    <3>1. i - k \in 1 .. Len(Redelivery) /\ k + (i - k) = i
      BY <1>1, <1>5, <2>2
    <3>2. r[i].seq = 0
      BY <1>5, <3>1
    <3> QED
      BY <1>1, <3>2
  <2> QED
    BY <2>1, <2>2
<1> QED
  BY <1>6, <1>7

LEMMA InstallResume ==
    ASSUME TypeOK, ResumeInv, NEW s \in Streams, InstallAttachment(s)
    PROVE  ResumeInv'
<1>1. /\ UNCHANGED <<prompts, lastAttempted, wire, hand>>
      /\ cursor' = [cursor EXCEPT ![s] = NoCursor]
      /\ \A r \in Streams \ {s} : base'[r] = base[r] /\ queue'[r] = queue[r]
      /\ Current \in Nat /\ Current' = Current
      /\ lastAttempted \in Nat /\ excused \in Nat
  BY DEF InstallAttachment, ringVars, TypeOK, Current
<1>2. HandIsNewest'
  BY <1>1 DEF ResumeInv, HandIsNewest
<1>5. \A r \in Streams : cursor'[r] <= 0 \/ cursor'[r] < lastAttempted'
  <2>1. \A r \in Streams : cursor'[r] = NoCursor \/ cursor'[r] = cursor[r]
    BY <1>1 DEF TypeOK
  <2>2. NoCursor <= 0
    BY DEF NoCursor
  <2> QED
    BY <1>1, <2>1, <2>2 DEF ResumeInv, StartsBehind
<1>3. CASE OutcomeOf(cursor[s]) = "Resumed"
  <2>1. /\ cursor[s] \in Nat /\ base'[s] = cursor[s] /\ excused' = excused
        /\ queue'[s] = Backlog(cursor[s]) \o Redelivery
    BY <1>3 DEF InstallAttachment, OutcomeOf, TypeOK
  <2> DEFINE q == Backlog(cursor[s]) \o Redelivery
  <2>b. /\ \A i \in 1 .. Len(q) : \A m \in cursor[s] + 1 .. q[i].seq - 1 :
              \E j \in 1 .. i - 1 : q[j].seq = m
        /\ \A i \in 1 .. Len(q) : q[i].seq <= Current
    BY <2>1, BacklogInOrder
  <2>q. queue'[s] = q
    BY <2>1
  <2> HIDE DEF q
  <2>p. QueuedIsPushed'
    BY <1>1, <2>b, <2>q DEF ResumeInv, QueuedIsPushed
  <2>2. QueuesInOrder'
    <3>1. \A i \in 1 .. Len(q) : \A m \in cursor[s] + 1 .. q[i].seq - 1 :
             \E j \in 1 .. i - 1 : q[j].seq = m
      BY <2>b
    <3>2. ASSUME NEW r \in Streams, NEW i \in 1 .. Len(queue'[r]),
                 NEW m \in base'[r] + 1 .. queue'[r][i].seq - 1
          PROVE  m \in SeqsOf(wire[r]) \/ \E j \in 1 .. i - 1 : queue'[r][j].seq = m
      <4>1. CASE r = s
        BY <2>1, <2>q, <3>1, <3>2, <4>1
      <4>2. CASE r # s
        BY <1>1, <3>2, <4>2 DEF ResumeInv, QueuesInOrder
      <4> QED
        BY <4>1, <4>2
    <3> QED
      BY <1>1, <3>2 DEF QueuesInOrder, SeqsOf
  <2>3. SkippedIsWritten'
    BY <1>1, <2>1 DEF ResumeInv, SkippedIsWritten
  <2>4. StartsBehind'
    <3>1. base'[s] <= 0 \/ base'[s] < lastAttempted
      BY <2>1 DEF ResumeInv, StartsBehind
    <3>2. base'[s] <= excused \/ base'[s] < lastAttempted
      BY <1>1, <2>1, <3>1
    <3>3. \A r \in Streams : base'[r] <= excused \/ base'[r] < lastAttempted
      BY <1>1, <3>2 DEF ResumeInv, StartsBehind
    <3>4. excused <= Current
      BY DEF ResumeInv, StartsBehind
    <3> QED
      BY <1>1, <1>5, <2>1, <3>3, <3>4 DEF StartsBehind
  <2> QED
    BY <1>2, <2>p, <2>2, <2>3, <2>4 DEF ResumeInv
<1>4. CASE OutcomeOf(cursor[s]) # "Resumed"
  <2>1. queue' = queue /\ base'[s] = Current /\ excused' = Current
    BY <1>4 DEF InstallAttachment, TypeOK
  <2>2. ASSUME NEW i \in 1 .. Len(queue[s]) PROVE Current + 1 .. queue[s][i].seq - 1 = {}
    <3>1. queue[s] \in Seq(Item)
      BY DEF TypeOK
    <3>2. queue[s][i] \in Item
      BY <3>1, ElementOfSeq
    <3>3. queue[s][i].seq <= Current /\ queue[s][i].seq \in Nat
      BY <3>2 DEF ResumeInv, QueuedIsPushed, Item
    <3> QED
      BY <1>1, <3>3
  <2>3. QueuesInOrder'
    BY <1>1, <2>1, <2>2 DEF ResumeInv, QueuesInOrder, SeqsOf
  <2>6. QueuedIsPushed'
    BY <1>1, <2>1 DEF ResumeInv, QueuedIsPushed
  <2>4. SkippedIsWritten'
    BY <1>1, <2>1 DEF ResumeInv, SkippedIsWritten, StartsBehind
  <2>5. StartsBehind'
    <3>1. /\ excused' <= Current' /\ base'[s] <= excused' /\ excused <= excused'
      BY <1>1, <2>1 DEF ResumeInv, StartsBehind
    <3>2. ASSUME NEW r \in Streams PROVE base'[r] <= excused' \/ base'[r] < lastAttempted'
      <4>1. CASE r = s
        BY <3>1, <4>1
      <4>2. CASE r # s
        <5>1. base'[r] = base[r] /\ base[r] \in Nat
          BY <1>1, <4>2 DEF TypeOK
        <5>2. base[r] <= excused \/ base[r] < lastAttempted
          BY DEF ResumeInv, StartsBehind
        <5> QED
          BY <1>1, <2>1, <3>1, <5>1, <5>2
      <4> QED
        BY <4>1, <4>2
    <3> QED
      BY <1>5, <3>1, <3>2 DEF StartsBehind
  <2> QED
    BY <1>2, <2>3, <2>4, <2>5, <2>6 DEF ResumeInv
<1> QED
  BY <1>3, <1>4

\* What a drainer attempts moves the cursor up to the frame before: all an
\* attachment owes before the head of its queue is on its wire.
LEMMA AttemptResume ==
    ASSUME TypeOK, ResumeInv, NEW s \in Streams, Attempt(s)
    PROVE  ResumeInv'
<1> DEFINE n == Head(queue[s]).seq
<1>1. /\ UNCHANGED <<prompts, cursor, base, queue, wire, hand, excused>>
      /\ lastAttempted' = IF n > lastAttempted THEN n ELSE lastAttempted
  BY DEF Attempt, ringVars, streamVars
<1>2. n \in Nat /\ 1 \in 1 .. Len(queue[s]) /\ queue[s][1].seq = n
  <2>1. queue[s] \in Seq(Item) /\ queue[s] # <<>>
    BY DEF Attempt, TypeOK
  <2>2. Head(queue[s]) = queue[s][1] /\ Head(queue[s]) \in Item /\ Len(queue[s]) >= 1 /\ Len(queue[s]) \in Nat
    BY <2>1
  <2> QED
    BY <2>2 DEF Item
<1> HIDE DEF n
<1>3. lastAttempted \in Nat /\ lastAttempted' \in Nat /\ lastAttempted <= lastAttempted'
  BY <1>1, <1>2 DEF TypeOK
<1>4. ASSUME NEW m \in base[s] + 1 .. n - 1 PROVE m \in SeqsOf(wire[s])
  BY <1>2, <1>4 DEF ResumeInv, QueuesInOrder
<1>5. ASSUME NEW m \in 1 .. lastAttempted' - 1, m > excused
      PROVE  \E r \in Streams : m \in SeqsOf(wire[r])
  <2>1. base[s] \in Nat /\ excused \in Nat
    BY DEF TypeOK
  <2>2. base[s] <= excused \/ base[s] < lastAttempted
    BY DEF ResumeInv, StartsBehind
  <2>3. CASE m \in 1 .. lastAttempted - 1
    BY <1>5, <2>1, <2>3 DEF ResumeInv, SkippedIsWritten
  <2>4. CASE m \notin 1 .. lastAttempted - 1
    <3>1. m \in base[s] + 1 .. n - 1
      BY <1>1, <1>2, <1>3, <1>5, <2>1, <2>2, <2>4
    <3> QED
      BY <1>4, <3>1
  <2> QED
    BY <2>3, <2>4
<1>6. SkippedIsWritten'
  <2>1. excused \in Nat
    BY DEF TypeOK
  <2> QED
    BY <1>1, <1>3, <1>5, <2>1 DEF SkippedIsWritten, SeqsOf
<1>7. StartsBehind'
  <2>1. ASSUME NEW x \in Int, x < lastAttempted PROVE x < lastAttempted'
    BY <1>3, <2>1
  <2>2. \A r \in Streams : cursor[r] \in Int /\ base[r] \in Int
    BY DEF TypeOK, NoCursor
  <2> QED
    BY <1>1, <2>1, <2>2 DEF ResumeInv, StartsBehind, Current
<1>8. QueuesInOrder' /\ QueuedIsPushed' /\ HandIsNewest'
  BY <1>1 DEF ResumeInv, QueuesInOrder, QueuedIsPushed, HandIsNewest, Current
<1> QED
  BY <1>6, <1>7, <1>8 DEF ResumeInv

LEMMA WriteResume ==
    ASSUME TypeOK, WriterHasItem, ResumeInv, NEW s \in Streams, WriteOk(s) \/ WriteFails(s)
    PROVE  ResumeInv'
<1>1. /\ UNCHANGED <<prompts, lastAttempted, cursor, base, hand, excused>>
      /\ \A r \in Streams \ {s} : queue'[r] = queue[r] /\ wire'[r] = wire[r]
  BY DEF WriteOk, WriteFails, ringVars, streamVars, TypeOK
<1>2. \A r \in Streams : SeqsOf(wire[r]) \subseteq SeqsOf(wire'[r])
  BY SeqsGrow DEF Next, DrainerStep
<1>3. HandIsNewest' /\ StartsBehind'
  BY <1>1 DEF ResumeInv, HandIsNewest, StartsBehind, Current
<1>4. SkippedIsWritten'
  BY <1>1, <1>2 DEF ResumeInv, SkippedIsWritten
<1>5. ASSUME NEW i \in 1 .. Len(queue'[s]), NEW m \in base[s] + 1 .. queue'[s][i].seq - 1
      PROVE  m \in SeqsOf(wire'[s]) \/ \E j \in 1 .. i - 1 : queue'[s][j].seq = m
  <2>1. CASE WriteFails(s)
    <3>1. Len(queue'[s]) = 0
      BY <2>1 DEF WriteFails, TypeOK
    <3> QED
      BY <1>5, <3>1
  <2>2. CASE WriteOk(s)
    <3> DEFINE q == queue[s]
               r == Tail(q)
               x == Head(q)
    <3>1. q \in Seq(Item) /\ q # <<>> /\ wire[s] \in Seq(Item)
      BY <2>2 DEF WriteOk, WriterHasItem, TypeOK
    <3>2. queue'[s] = r /\ wire'[s] = Append(wire[s], x)
      BY <2>2 DEF WriteOk, TypeOK
    <3>3. /\ x \in Item /\ x = q[1] /\ Len(q) \in Nat /\ Len(q) >= 1 /\ Len(r) = Len(q) - 1
          /\ \A k \in 1 .. Len(r) : r[k] = q[k + 1]
      BY <3>1
    <3>4. x.seq \in SeqsOf(wire'[s])
      BY <3>1, <3>2, <3>3, ItemsInAppend
    <3> HIDE DEF q, r, x
    <3>5. i \in 1 .. Len(r) /\ i + 1 \in 1 .. Len(q) /\ r[i] = q[i + 1]
          /\ m \in base[s] + 1 .. q[i + 1].seq - 1
      BY <1>5, <3>2, <3>3
    <3>6. m \in SeqsOf(wire[s]) \/ \E j \in 1 .. (i + 1) - 1 : q[j].seq = m
      BY <3>5 DEF ResumeInv, QueuesInOrder, q
    <3>7. ASSUME NEW j \in 1 .. (i + 1) - 1, q[j].seq = m
          PROVE  m \in SeqsOf(wire'[s]) \/ \E k \in 1 .. i - 1 : r[k].seq = m
      <4>1. CASE j = 1
        BY <3>3, <3>4, <3>7, <4>1
      <4>2. CASE j # 1
        <5>1. j - 1 \in 1 .. i - 1 /\ j - 1 \in 1 .. Len(r) /\ (j - 1) + 1 = j
          BY <3>3, <3>5, <4>2
        <5>2. r[j - 1].seq = m
          BY <3>3, <3>7, <5>1
        <5> QED
          BY <5>1, <5>2
      <4> QED
        BY <4>1, <4>2
    <3> QED
      BY <1>2, <3>2, <3>6, <3>7
  <2> QED
    BY <2>1, <2>2
<1>6. QueuesInOrder'
  <2>1. ASSUME NEW r \in Streams, NEW i \in 1 .. Len(queue'[r]),
               NEW m \in base[r] + 1 .. queue'[r][i].seq - 1
        PROVE  m \in SeqsOf(wire'[r]) \/ \E j \in 1 .. i - 1 : queue'[r][j].seq = m
    <3>1. CASE r = s
      BY <1>5, <2>1, <3>1
    <3>2. CASE r # s
      BY <1>1, <1>2, <2>1, <3>2 DEF ResumeInv, QueuesInOrder
    <3> QED
      BY <3>1, <3>2
  <2>2. \A r \in Streams : (SeqsOf(wire[r]))' = SeqsOf(wire'[r])
    BY DEF SeqsOf
  <2> QED
    BY <1>1, <2>1, <2>2 DEF QueuesInOrder
<1>7. QueuedIsPushed'
  <2>1. ASSUME NEW i \in 1 .. Len(queue'[s]) PROVE queue'[s][i].seq <= Current
    <3> DEFINE q == queue[s]
               r == Tail(q)
    <3>1. q \in Seq(Item)
      BY DEF TypeOK
    <3>2. CASE WriteFails(s)
      <4>1. Len(queue'[s]) = 0
        BY <3>2 DEF WriteFails, TypeOK
      <4> QED
        BY <2>1, <4>1
    <3>3. CASE WriteOk(s)
      <4>1. q # <<>> /\ queue'[s] = r
        BY <3>3 DEF WriteOk, WriterHasItem, TypeOK
      <4>2. Len(q) \in Nat /\ Len(r) = Len(q) - 1 /\ \A k \in 1 .. Len(r) : r[k] = q[k + 1]
        BY <3>1, <4>1
      <4> HIDE DEF q, r
      <4>3. i + 1 \in 1 .. Len(q) /\ queue'[s][i] = q[i + 1]
        BY <2>1, <4>1, <4>2
      <4> QED
        BY <4>3 DEF ResumeInv, QueuedIsPushed, q
    <3> QED
      BY <3>2, <3>3
  <2> QED
    BY <1>1, <2>1 DEF ResumeInv, QueuedIsPushed, Current
<1> QED
  BY <1>3, <1>4, <1>6, <1>7 DEF ResumeInv

LEMMA ResumeStep ==
    ASSUME \A p, q \in Producers : p = q, ~ExplicitResume,
           Basics, NothingSkipped, ResumeInv, [Next]_vars
    PROVE  ResumeInv'
<1> USE DEF Basics
<1>1. ASSUME UNCHANGED resumeVars PROVE ResumeInv'
  BY <1>1 DEF resumeVars, ResumeInv, QueuesInOrder, QueuedIsPushed, HandIsNewest, SkippedIsWritten, StartsBehind,
     Current, SeqsOf
<1>2. ASSUME NEW s \in Streams, ResolveExisting(s) PROVE ResumeInv'
  <2>1. /\ UNCHANGED <<prompts, lastAttempted, base, queue, wire, hand, excused>>
        /\ cursor' = [cursor EXCEPT ![s] = DispatchCursor(KindOf(AutoCursor), AutoCursor)]
    BY <1>2 DEF ResolveExisting, EffectiveCursors, ringVars, drainVars
  <2>2. /\ DispatchCursor(KindOf(AutoCursor), AutoCursor) <= 0
        \/ DispatchCursor(KindOf(AutoCursor), AutoCursor) < lastAttempted
    BY DEF DispatchCursor, AutoCursor, NoCursor, TypeOK
  <2>3. \A r \in Streams : cursor'[r] <= 0 \/ cursor'[r] < lastAttempted
    BY <2>1, <2>2 DEF ResumeInv, StartsBehind, TypeOK
  <2>4. StartsBehind'
    BY <2>1, <2>3 DEF ResumeInv, StartsBehind, Current
  <2>5. QueuesInOrder' /\ QueuedIsPushed' /\ HandIsNewest' /\ SkippedIsWritten'
    BY <2>1 DEF ResumeInv, QueuesInOrder, QueuedIsPushed, HandIsNewest, SkippedIsWritten, Current, SeqsOf
  <2> QED
    BY <2>4, <2>5 DEF ResumeInv
<1>3. ASSUME NEW s \in Streams, StreamStep(s) PROVE ResumeInv'
  <2>1. ASSUME ~ResolveExisting(s), ~InstallAttachment(s) PROVE UNCHANGED resumeVars
    BY <1>3, <2>1 DEF StreamStep, MintSession, RespondFails, ClearDetached, TakePending,
       FinishResolve, DropAttachment, MarkDetached, ringVars, drainVars, resumeVars
  <2> QED
    BY <1>1, <1>2, <2>1, InstallResume
<1>4. ASSUME NEW s \in Streams, DrainerStep(s) PROVE ResumeInv'
  <2>1. CASE DrainEnds(s)
    BY <1>1, <2>1 DEF DrainEnds, ringVars, streamVars, resumeVars
  <2> QED
    BY <1>4, <2>1, AttemptResume, WriteResume DEF DrainerStep
<1>5. ASSUME NEW p \in Notifiers, NotifyPush(p) PROVE ResumeInv'
  <2>1. p \in Producers /\ {} \in SUBSET Callers
    BY DEF Producers
  <2> QED
    BY <1>5, <2>1, PushResume DEF NotifyPush, streamVars, drainVars
<1>6. ASSUME NEW p \in Notifiers, NotifySend(p) PROVE ResumeInv'
  BY <1>6, SendResume DEF NotifySend, streamVars, ringVars, Producers
<1>7. ASSUME NEW c \in Callers, CallerStep(c) PROVE ResumeInv'
  <2>1. c \in Producers /\ {c} \in SUBSET Callers
    BY DEF Producers
  <2>2. CASE RequestPush(c)
    BY <2>1, <2>2, PushResume DEF RequestPush, streamVars, drainVars
  <2>3. CASE RequestSend(c)
    BY <2>1, <2>3, SendResume DEF RequestSend, streamVars, ringVars
  <2>4. CASE ~RequestPush(c) /\ ~RequestSend(c)
    BY <1>1, <1>7, <2>4 DEF CallerStep, RegisterPending, RegisterOutstanding, TakeReply, TimeOut,
       ForgetOutstanding, ringVars, streamVars, drainVars, resumeVars
  <2> QED
    BY <2>2, <2>3, <2>4
<1>8. ASSUME NEW s \in Streams, ClientGoes(s) PROVE ResumeInv'
  BY <1>1, <1>8 DEF ClientGoes, ringVars, streamVars, drainVars, resumeVars
<1>9. ASSUME ReaperStep PROVE ResumeInv'
  BY <1>1, <1>9 DEF ReaperStep, ReapCheck, ReapDrain, ReapClear, ringVars, streamVars, drainVars,
     resumeVars
<1>10. CASE UNCHANGED vars
  BY <1>1, <1>10 DEF vars, ringVars, streamVars, drainVars, resumeVars
<1> QED
  BY <1>3, <1>4, <1>5, <1>6, <1>7, <1>8, <1>9, <1>10 DEF Next

\* Frames that come from one task, and clients that leave the cursor to the
\* server: last_attempted_seq.saturating_sub(1) (resolve_attach, registry.rs)
\* skips no frame but those some stream has written and those an attach that
\* started from the present left out, through every preemption and write error.
\* (With two producers a frame can be overtaken between its push and its send,
\* and be dropped by a writer that has stopped.)
THEOREM AutoResumeSkipsOnlyWritten ==
    ASSUME \A p, q \in Producers : p = q, ~ExplicitResume
    PROVE  Spec => []ResumeSkipsOnlyWritten
<1> DEFINE Inv == Basics /\ NothingSkipped /\ ResumeInv
<1>1. Init => Inv
  <2> SUFFICES ASSUME Init PROVE Inv
    OBVIOUS
  <2>1. TypeOK /\ WriterHasItem /\ NothingSkipped
    BY TypeInit, SessionAssumption DEF Init, WriterHasItem, NothingSkipped
  <2>2. QueuesInOrder /\ QueuedIsPushed
    BY DEF Init, QueuesInOrder, QueuedIsPushed
  <2>3. HandIsNewest /\ SkippedIsWritten /\ StartsBehind
    BY DEF Init, HandIsNewest, SkippedIsWritten, StartsBehind, Current, NoCursor
  <2> QED
    BY <2>1, <2>2, <2>3 DEF Basics, ResumeInv
<1>2. Inv /\ [Next]_vars => Inv'
  <2> SUFFICES ASSUME Inv, [Next]_vars PROVE Inv'
    OBVIOUS
  <2>1. Basics' /\ NothingSkipped'
    BY TypeStep, WriterStep, DeliveryStep DEF Basics
  <2>2. ResumeInv'
    BY ResumeStep
  <2> QED
    BY <2>1, <2>2
<1>3. Inv => ResumeSkipsOnlyWritten
  BY DEF ResumeInv, SkippedIsWritten, ResumeSkipsOnlyWritten, AutoCursor, Basics, TypeOK
<1> QED
  BY <1>1, <1>2, <1>3, PTL DEF Spec
=============================================================================
