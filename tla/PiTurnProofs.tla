----------------------------- MODULE PiTurnProofs -----------------------------
(***************************************************************************)
(* The turns of a pi-bridge thread, for every number of turns, every run   *)
(* pi can send in them (PiRunAssumption), every capacity of the channel,   *)
(* with aborts, interrupts and a pi that ends.  Two of the theorems have a *)
(* condition on the runs, ThinksOnce and ThinkingEnds: all the reasoning   *)
(* of a message shares one item.                                           *)
(***************************************************************************)
EXTENDS PiTurn, SequenceTheorems, TLAPS

-----------------------------------------------------------------------------
(* Who still has to clear the thread's slot and its mark.                  *)

Registered == {"registered", "announced", "prompting", "accepted", "refused",
               "emitted"} \cup Pumping
Marked == {"announced", "prompting", "accepted", "refused", "unwinding",
           "emitted", "cleared"} \cup Pumping

\* Whoever is registered, or keeps the thread active, some turn is still to
\* clear it, unless pi has gone.
ClearedBySomebody ==
    /\ stage \in [Turns -> Stages]
    /\ alive /\ slot # None => \E u \in Turns : stage[u] \in Registered
    /\ alive /\ busy => \E u \in Turns : stage[u] \in Marked

LEMMA ClearedInit == Init => ClearedBySomebody
BY DEF Init, ClearedBySomebody, Stages

\* A step of a turn that keeps it among those that clear, or empties what they
\* are to clear.
LEMMA StageKeepsCleared ==
    ASSUME ClearedBySomebody, NEW u \in Turns, NEW t \in Stages, StageTo(u, t),
           slot' = None \/ (slot' = slot /\ (stage[u] \in Registered => t \in Registered))
                        \/ t \in Registered,
           ~busy' \/ (busy' = busy /\ (stage[u] \in Marked => t \in Marked)) \/ t \in Marked,
           alive' => alive
    PROVE  ClearedBySomebody'
<1>1. stage' \in [Turns -> Stages] /\ stage'[u] = t
      /\ \A w \in Turns : w # u => stage'[w] = stage[w]
  BY DEF StageTo, ClearedBySomebody
<1>2. alive' /\ slot' # None => \E w \in Turns : stage'[w] \in Registered
  BY <1>1 DEF ClearedBySomebody
<1>3. alive' /\ busy' => \E w \in Turns : stage'[w] \in Marked
  BY <1>1 DEF ClearedBySomebody
<1> QED
  BY <1>1, <1>2, <1>3 DEF ClearedBySomebody

LEMMA GoneKeepsCleared ==
    ASSUME ClearedBySomebody, NEW u \in Turns, NEW t \in Stages, StageTo(u, t), ~alive'
    PROVE  ClearedBySomebody'
BY DEF ClearedBySomebody, StageTo

LEMMA StillCleared ==
    ASSUME ClearedBySomebody, UNCHANGED <<stage, slot, busy>>, alive' => alive
    PROVE  ClearedBySomebody'
BY DEF ClearedBySomebody

LEMMA ClearedStep == ClearedBySomebody /\ [Next]_vars => ClearedBySomebody'
<1> SUFFICES ASSUME ClearedBySomebody, [Next]_vars PROVE ClearedBySomebody'
  OBVIOUS
<1> USE DEF piVars, pumpVars, clientVars
<1>1. CASE PiEmits
  BY <1>1, StillCleared DEF PiEmits
<1>2. CASE PiExits
  BY <1>2, StillCleared DEF PiExits
<1>3. ASSUME NEW u \in Turns,
             Start(u) \/ Handler(u) \/ Pump(u) \/ InterruptChecks(u) \/ InterruptLands(u)
      PROVE  ClearedBySomebody'
  <2>1. CASE Start(u)
    BY <2>1, StageKeepsCleared DEF Start, Stages, Registered, Marked, Pumping
  <2>2. CASE Index(u)
    <3>1. CASE StageTo(u, "indexed") \/ StageTo(u, "done")
      BY <2>2, <3>1, StageKeepsCleared DEF Index, Stages, Registered, Marked, Pumping
    <3>2. CASE ~alive /\ NeverAnswered(u)
      BY <2>2, <3>2, GoneKeepsCleared DEF Index, NeverAnswered, StageTo, Stages
    <3> QED
      BY <2>2, <3>1, <3>2 DEF Index
  <2>3. CASE Register(u)
    BY <2>3, StageKeepsCleared DEF Register, Stages, Registered, Marked, Pumping
  <2>4. CASE MarkActive(u)
    BY <2>4, StageKeepsCleared DEF MarkActive, Stages, Registered, Marked, Pumping
  <2>5. CASE SendPrompt(u)
    BY <2>5, StageKeepsCleared DEF SendPrompt, Stages, Registered, Marked, Pumping
  <2>6. CASE PiPrompted(u)
    BY <2>6, StageKeepsCleared DEF PiPrompted, Stages, Registered, Marked, Pumping
  <2>7. CASE PromptLost(u)
    <3>1. PICK t \in {"abandoned", "stuck"} : StageTo(u, t)
      BY <2>7 DEF PromptLost, NeverAnswered, StageTo
    <3> QED
      BY <2>7, <3>1, GoneKeepsCleared DEF PromptLost, Stages
  <2>8. CASE SpawnPump(u)
    BY <2>8, StageKeepsCleared DEF SpawnPump, Stages, Registered, Marked, Pumping
  <2>9. CASE Receive(u)
    <3>1. CASE UNCHANGED stage
      BY <2>9, <3>1, StillCleared DEF Receive
    <3>2. CASE \E t \in Pumping : StageTo(u, t)
      BY <2>9, <3>2, StageKeepsCleared DEF Receive, Stages, Registered, Marked, Pumping
    <3> QED
      BY <2>9, <3>1, <3>2 DEF Receive, Pumping
  <2>10. CASE Lag(u)
    BY <2>10, StillCleared DEF Lag
  <2>11. CASE Verdict(u)
    BY <2>11, StageKeepsCleared DEF Verdict, Show, Stages, Registered, Marked, Pumping
  <2>12. CASE AbortRun(u)
    <3>1. CASE Show(u)
      BY <2>12, <3>1, StageKeepsCleared DEF AbortRun, Show, Stages, Registered, Marked, Pumping
    <3>2. CASE ~alive /\ NeverAnswered(u)
      BY <2>12, <3>2, GoneKeepsCleared DEF AbortRun, NeverAnswered, StageTo, Stages
    <3> QED
      BY <2>12, <3>1, <3>2 DEF AbortRun
  <2>13. CASE Deliver(u)
    BY <2>13, StillCleared DEF Deliver
  <2>14. CASE Complete(u)
    BY <2>14, StageKeepsCleared DEF Complete, Stages, Registered, Marked, Pumping
  <2>15. CASE Unregister(u)
    BY <2>15, StageKeepsCleared DEF Unregister, Stages, Registered, Marked, Pumping
  <2>16. CASE MarkIdle(u)
    BY <2>16, StageKeepsCleared DEF MarkIdle, Stages, Registered, Marked, Pumping
  <2>17. CASE InterruptChecks(u)
    BY <2>17, StillCleared DEF InterruptChecks
  <2>18. CASE InterruptLands(u)
    BY <2>18, StillCleared DEF InterruptLands
  <2> QED
    BY <1>3, <2>1, <2>2, <2>3, <2>4, <2>5, <2>6, <2>7, <2>8, <2>9, <2>10, <2>11, <2>12,
       <2>13, <2>14, <2>15, <2>16, <2>17, <2>18 DEF Handler, Pump
<1>4. CASE UNCHANGED vars
  BY <1>4, StillCleared DEF vars
<1> QED
  BY <1>1, <1>2, <1>3, <1>4 DEF Next

\* A thread whose turns are all wound up has neither a slot nor a mark, so that
\* the reaper may take its process, for every number of turns and every run.
THEOREM PiThreadIsIdle == Spec => []QuietIsIdle
<1>1. ClearedBySomebody => QuietIsIdle
  BY DEF ClearedBySomebody, QuietIsIdle, Registered, Marked, Pumping
<1> QED
  BY <1>1, ClearedInit, ClearedStep, PTL DEF Spec

-----------------------------------------------------------------------------
(* What a pump has told, and what its translator holds, after p events.    *)

IdsOf(u) == {Script[u][k].id : k \in DOMAIN Script[u]}
ItemsOf(u) == {"message", "reasoning", "tool", "compaction"} \X IdsOf(u)
NoteOf(u) == [note : {"started", "delta", "completed"}, item : ItemsOf(u)]
State == [message : Ids \cup {None}, started : BOOLEAN, saw : BOOLEAN,
          reasoning : Ids \cup {None}, tools : SUBSET Ids, compaction : Ids \cup {None}]
Lives == [Items -> Stream!Lives]

Msg(m) == Pi!MessageItem(m)
Rsn(m) == Pi!ReasoningItem(m)
Tol(t) == Pi!ToolItem(t)
Cmp(c) == Pi!CompactionItem(c)

\* Does no message think twice?  The reasoning item is named by the message.
ThinksOnce ==
    \A u \in Turns : \A i, j \in DOMAIN Script[u] :
        i < j /\ Script[u][i].kind = "thinking_start" /\ Script[u][j].kind = "thinking_start"
            => Script[u][i].id # Script[u][j].id

\* Does every block of thinking end before the next starts?
ThinkingEnds ==
    \A u \in Turns : \A i, j \in DOMAIN Script[u] :
        i < j /\ Script[u][i].kind = "thinking_start" /\ Script[u][j].kind = "thinking_start"
            => \E k \in i .. j : Script[u][k].kind = "thinking_end"

\* A notification, and what the client knows before and after it.
Says(L, n, M) ==
    CASE n.note = "started" ->
             /\ L[n.item] = "none" \/ (n.item[1] = "reasoning" /\ ~ThinksOnce)
             /\ M = [L EXCEPT ![n.item] = "open"]
      [] n.note = "delta" -> L[n.item] = "open" /\ M = L
      [] n.note = "completed" -> L[n.item] = "open" /\ M = [L EXCEPT ![n.item] = "done"]

Leads(L, q, M) ==
    \E c \in [0 .. Len(q) -> Lives] :
        /\ c[0] = L /\ c[Len(q)] = M
        /\ \A k \in 1 .. Len(q) : Says(c[k - 1], q[k], c[k])

\* The message item: started or not, it is the open one, and no other that was
\* heard of comes again.  A pump that missed nothing has no other open.
Writing(s, L, u, p, exact) ==
    /\ s.message \in IdsOf(u) \cup {None}
    /\ s.saw => s.started
    /\ s.started => s.message # None
    /\ s.message # None =>
          /\ L[Msg(s.message)] = (IF s.started THEN "open" ELSE "none")
          /\ \E k \in DOMAIN Script[u] :
                k <= p /\ OfMessage(Script[u][k]) /\ Script[u][k].id = s.message
    /\ \A m \in IdsOf(u) : m # s.message /\ L[Msg(m)] # "none" =>
          \A j \in DOMAIN Script[u] : j > p /\ OfMessage(Script[u][j]) => Script[u][j].id # m
    /\ exact =>
          /\ \A m \in IdsOf(u) : L[Msg(m)] = "open" => s.message = m
          /\ s.message # None =>
                \A k \in DOMAIN Script[u] :
                    k <= p /\ Script[u][k].kind = "message_end" => Script[u][k].id # s.message

Thinking(s, L, u, p, exact) ==
    /\ s.reasoning \in IdsOf(u) \cup {None}
    /\ s.reasoning # None => L[Rsn(s.reasoning)] = "open"
    /\ ThinksOnce =>
          \A m \in IdsOf(u) : L[Rsn(m)] # "none" =>
              \A j \in DOMAIN Script[u] :
                  j > p /\ Script[u][j].kind = "thinking_start" => Script[u][j].id # m
    /\ exact /\ ThinkingEnds =>
          /\ \A m \in IdsOf(u) : L[Rsn(m)] = "open" => s.reasoning = m
          /\ s.reasoning # None =>
                \E k \in DOMAIN Script[u] :
                    /\ k <= p /\ Script[u][k].kind = "thinking_start"
                    /\ \A j \in k .. p : Script[u][j].kind # "thinking_end"

Calling(s, L, u, p, exact) ==
    /\ s.tools = {t \in IdsOf(u) : L[Tol(t)] = "open"}
    /\ \A t \in IdsOf(u) : L[Tol(t)] # "none" =>
          \A j \in DOMAIN Script[u] : j > p /\ ToolStarts(Script[u][j]) => Script[u][j].id # t
    /\ exact =>
          \A t \in s.tools : \E k \in DOMAIN Script[u] :
              /\ k <= p /\ ToolStarts(Script[u][k]) /\ Script[u][k].id = t
              /\ \A j \in k .. p : ~(Script[u][j].kind = "tool_end" /\ Script[u][j].id = t)

Compacting(s, L, u, p) ==
    /\ s.compaction \in IdsOf(u) \cup {None}
    /\ s.compaction # None => L[Cmp(s.compaction)] = "open"
    /\ \A m \in IdsOf(u) : L[Cmp(m)] # "none" =>
          \A j \in DOMAIN Script[u] :
              j > p /\ Script[u][j].kind = "compaction_start" => Script[u][j].id # m

\* S: the turns that missed events; C: those whose run was cut.
Follows(s, L, u, p, S, C) ==
    /\ s \in State
    /\ Writing(s, L, u, p, u \notin S)
    /\ Thinking(s, L, u, p, u \notin S)
    /\ Calling(s, L, u, p, u \notin S \cup C)
    /\ Compacting(s, L, u, p)

-----------------------------------------------------------------------------
(* Notes.                                                                  *)

LEMMA ScriptFacts ==
    ASSUME NEW u \in Turns
    PROVE  /\ Script[u] \in Seq(Event) /\ Script[u] # <<>>
           /\ Len(Script[u]) \in Nat \ {0} /\ DOMAIN Script[u] = 1 .. Len(Script[u])
           /\ \A k \in DOMAIN Script[u] :
                 /\ Script[u][k] \in Event /\ Script[u][k].id \in IdsOf(u)
                 /\ Script[u][k].id # None
                 /\ Script[u][k].kind = "agent_end" <=> k = Len(Script[u])
           /\ IdsOf(u) \subseteq Ids /\ ItemsOf(u) \subseteq Items
           /\ None \notin IdsOf(u) /\ None \notin Ids
<1>1. Script[u] \in Seq(Event) /\ Regular(Script[u]) /\ None \notin Ids
  BY PiRunAssumption
<1>2. Script[u] # <<>> /\ DOMAIN Script[u] = 1 .. Len(Script[u]) /\ Len(Script[u]) \in Nat \ {0}
  BY <1>1 DEF Regular
<1>3. IdsOf(u) \subseteq Ids
  BY DEF IdsOf, Ids
<1>4. \A k \in DOMAIN Script[u] : Script[u][k] \in Event /\ Script[u][k].id \in IdsOf(u)
  BY <1>1, <1>2 DEF IdsOf
<1>5. \A k \in DOMAIN Script[u] : Script[u][k].kind = "agent_end" <=> k = Len(Script[u])
  BY <1>1 DEF Regular
<1>6. ItemsOf(u) \subseteq Items
  BY <1>3 DEF ItemsOf, Items
<1> QED
  BY <1>1, <1>2, <1>3, <1>4, <1>5, <1>6

LEMMA LeadsNowhere ==
    ASSUME NEW L \in Lives
    PROVE  Leads(L, <<>>, L)
<1> DEFINE c == [k \in 0 .. 0 |-> L]
<1>1. c \in [0 .. 0 -> Lives] /\ c[0] = L
  OBVIOUS
<1>2. Len(<<>>) = 0 /\ 1 .. 0 = {}
  OBVIOUS
<1> HIDE DEF c
<1> QED
  BY <1>1, <1>2 DEF Leads

LEMMA LeadsOne ==
    ASSUME NEW L \in Lives, NEW M \in Lives, NEW n, Says(L, n, M)
    PROVE  Leads(L, <<n>>, M)
<1> DEFINE c == [k \in 0 .. 1 |-> IF k = 0 THEN L ELSE M]
<1>1. c \in [0 .. Len(<<n>>) -> Lives] /\ c[0] = L /\ c[1] = M
  OBVIOUS
<1>2. \A k \in 1 .. 1 : Says(c[k - 1], <<n>>[k], c[k])
  BY <1>1
<1> QED
  BY <1>1, <1>2 DEF Leads

LEMMA LeadsOn ==
    ASSUME NEW T, NEW q \in Seq(T), NEW r \in Seq(T), NEW L, NEW M, NEW N,
           Leads(L, q, M), Leads(M, r, N)
    PROVE  Leads(L, q \o r, N)
<1>1. PICK c \in [0 .. Len(q) -> Lives] :
        /\ c[0] = L /\ c[Len(q)] = M
        /\ \A k \in 1 .. Len(q) : Says(c[k - 1], q[k], c[k])
  BY DEF Leads
<1>2. PICK d \in [0 .. Len(r) -> Lives] :
        /\ d[0] = M /\ d[Len(r)] = N
        /\ \A k \in 1 .. Len(r) : Says(d[k - 1], r[k], d[k])
  BY DEF Leads
<1> DEFINE f == [k \in 0 .. Len(q \o r) |-> IF k <= Len(q) THEN c[k] ELSE d[k - Len(q)]]
<1>3. Len(q \o r) = Len(q) + Len(r) /\ Len(q) \in Nat /\ Len(r) \in Nat
  OBVIOUS
<1>4. f \in [0 .. Len(q \o r) -> Lives]
  BY <1>3
<1>5. f[0] = L /\ f[Len(q \o r)] = N
  <2>1. f[0] = L
    BY <1>1, <1>3
  <2>2. CASE Len(r) = 0
    BY <1>1, <1>2, <1>3, <2>2
  <2>3. CASE Len(r) > 0
    <3>1. f[Len(q) + Len(r)] = d[Len(q) + Len(r) - Len(q)]
      BY <1>3, <2>3
    <3> QED
      BY <1>2, <1>3, <2>1, <3>1
  <2> QED
    BY <1>3, <2>1, <2>2, <2>3
<1>6. ASSUME NEW k \in 1 .. Len(q \o r)
      PROVE  Says(f[k - 1], (q \o r)[k], f[k])
  <2>1. CASE k <= Len(q)
    <3>1. f[k - 1] = c[k - 1] /\ f[k] = c[k] /\ (q \o r)[k] = q[k] /\ k \in 1 .. Len(q)
      BY <1>3, <2>1
    <3> QED
      BY <1>1, <3>1
  <2>2. CASE k > Len(q)
    <3>1. k - Len(q) \in 1 .. Len(r) /\ (q \o r)[k] = r[k - Len(q)] /\ f[k] = d[k - Len(q)]
      BY <1>3, <2>2
    <3>2. f[k - 1] = d[k - Len(q) - 1]
      BY <1>1, <1>2, <1>3, <2>2
    <3> QED
      BY <1>2, <3>1, <3>2
  <2> QED
    BY <1>3, <2>1, <2>2
<1> HIDE DEF f
<1> QED
  BY <1>4, <1>5, <1>6 DEF Leads

LEMMA LeadsFirst ==
    ASSUME NEW T, NEW q \in Seq(T), q # <<>>, NEW L, NEW M, Leads(L, q, M)
    PROVE  \E N \in Lives : Says(L, Head(q), N) /\ Leads(N, Tail(q), M)
<1>1. PICK c \in [0 .. Len(q) -> Lives] :
        /\ c[0] = L /\ c[Len(q)] = M
        /\ \A k \in 1 .. Len(q) : Says(c[k - 1], q[k], c[k])
  BY DEF Leads
<1>2. Len(q) \in Nat \ {0} /\ Len(Tail(q)) = Len(q) - 1 /\ Head(q) = q[1]
      /\ \A k \in 1 .. Len(q) - 1 : Tail(q)[k] = q[k + 1]
  OBVIOUS
<1>3. Says(L, Head(q), c[1]) /\ c[1] \in Lives
  BY <1>1, <1>2
<1> DEFINE d == [k \in 0 .. Len(q) - 1 |-> c[k + 1]]
<1>4. d \in [0 .. Len(q) - 1 -> Lives] /\ d[0] = c[1] /\ d[Len(q) - 1] = M
  BY <1>1, <1>2
<1>5. ASSUME NEW k \in 1 .. Len(q) - 1
      PROVE  Says(d[k - 1], Tail(q)[k], d[k])
  <2>1. d[k - 1] = c[k] /\ d[k] = c[k + 1] /\ Tail(q)[k] = q[k + 1] /\ k + 1 \in 1 .. Len(q)
    BY <1>2
  <2>2. Says(c[(k + 1) - 1], q[k + 1], c[k + 1])
    BY <1>1, <2>1
  <2> QED
    BY <2>1, <2>2, (k + 1) - 1 = k
<1> HIDE DEF d
<1>6. Leads(c[1], Tail(q), M)
  BY <1>2, <1>4, <1>5 DEF Leads
<1> QED
  BY <1>3, <1>6

-----------------------------------------------------------------------------
(* What the translator does with the next event, one part at a time.       *)

\* Items of different kinds, or of different names, are different items.
LEMMA ItemsApart ==
    ASSUME NEW m, NEW w
    PROVE  /\ Msg(m) = Msg(w) <=> m = w
           /\ Rsn(m) = Rsn(w) <=> m = w
           /\ Tol(m) = Tol(w) <=> m = w
           /\ Cmp(m) = Cmp(w) <=> m = w
           /\ Msg(m) \notin {Rsn(w), Tol(w), Cmp(w)}
           /\ Rsn(m) \notin {Msg(w), Tol(w), Cmp(w)}
           /\ Tol(m) \notin {Msg(w), Rsn(w), Cmp(w)}
           /\ Cmp(m) \notin {Msg(w), Rsn(w), Tol(w)}
           /\ Msg(m)[1] = "message" /\ Rsn(m)[1] = "reasoning"
           /\ Tol(m)[1] = "tool" /\ Cmp(m)[1] = "compaction"
BY DEF Msg, Rsn, Tol, Cmp, Pi!MessageItem, Pi!ReasoningItem, Pi!ToolItem, Pi!CompactionItem

LEMMA ItemsOfTurn ==
    ASSUME NEW u \in Turns, NEW m \in IdsOf(u)
    PROVE  /\ Msg(m) \in ItemsOf(u) /\ Rsn(m) \in ItemsOf(u)
           /\ Tol(m) \in ItemsOf(u) /\ Cmp(m) \in ItemsOf(u)
           /\ Msg(m) \in Items /\ Rsn(m) \in Items /\ Tol(m) \in Items /\ Cmp(m) \in Items
BY ScriptFacts
   DEF ItemsOf, Msg, Rsn, Tol, Cmp, Pi!MessageItem, Pi!ReasoningItem, Pi!ToolItem, Pi!CompactionItem

LEMMA WritingStays ==
    ASSUME NEW u \in Turns, NEW p \in Nat, NEW s, NEW t, NEW L, NEW M, NEW x,
           Writing(s, L, u, p, x), p + 1 \in DOMAIN Script[u],
           Script[u][p + 1].kind # "message_end",
           t.message = s.message, t.started = s.started, t.saw = s.saw,
           \A m \in IdsOf(u) : M[Msg(m)] = L[Msg(m)]
    PROVE  Writing(t, M, u, p + 1, x)
<1>1. \A k \in DOMAIN Script[u] : k \in Nat /\ (k <= p + 1 <=> k <= p \/ k = p + 1)
                                  /\ (k > p + 1 => k > p)
  BY ScriptFacts
<1>2. \A m \in IdsOf(u) : m # t.message /\ M[Msg(m)] # "none" =>
          \A j \in DOMAIN Script[u] : j > p + 1 /\ OfMessage(Script[u][j]) => Script[u][j].id # m
  BY <1>1 DEF Writing
<1>3. t.message # None =>
          /\ M[Msg(t.message)] = (IF t.started THEN "open" ELSE "none")
          /\ \E k \in DOMAIN Script[u] :
                k <= p + 1 /\ OfMessage(Script[u][k]) /\ Script[u][k].id = t.message
  BY <1>1 DEF Writing
<1>4. x => \A m \in IdsOf(u) : M[Msg(m)] = "open" => t.message = m
  BY DEF Writing
<1>5. x /\ t.message # None =>
          \A k \in DOMAIN Script[u] :
              k <= p + 1 /\ Script[u][k].kind = "message_end" => Script[u][k].id # t.message
  BY <1>1 DEF Writing
<1> QED
  BY <1>2, <1>3, <1>4, <1>5 DEF Writing

LEMMA ThinkingStays ==
    ASSUME NEW u \in Turns, NEW p \in Nat, NEW s, NEW t, NEW L, NEW M, NEW x,
           Thinking(s, L, u, p, x), p + 1 \in DOMAIN Script[u],
           Script[u][p + 1].kind # "thinking_end" \/ s.reasoning = None,
           t.reasoning = s.reasoning,
           \A m \in IdsOf(u) : M[Rsn(m)] = L[Rsn(m)]
    PROVE  Thinking(t, M, u, p + 1, x)
<1>1. \A k \in DOMAIN Script[u] : /\ k \in Nat /\ (k <= p + 1 <=> k <= p \/ k = p + 1)
                                  /\ (k > p + 1 => k > p)
                                  /\ \A j \in k .. p + 1 : j \in k .. p \/ j = p + 1
  BY ScriptFacts
<1>2. ThinksOnce =>
          \A m \in IdsOf(u) : M[Rsn(m)] # "none" =>
              \A j \in DOMAIN Script[u] :
                  j > p + 1 /\ Script[u][j].kind = "thinking_start" => Script[u][j].id # m
  BY <1>1 DEF Thinking
<1>3. t.reasoning \in IdsOf(u) \cup {None} /\ (t.reasoning # None => M[Rsn(t.reasoning)] = "open")
      /\ (x /\ ThinkingEnds => \A m \in IdsOf(u) : M[Rsn(m)] = "open" => t.reasoning = m)
  BY DEF Thinking
<1>4. ASSUME x, ThinkingEnds, t.reasoning # None
      PROVE  \E k \in DOMAIN Script[u] :
                /\ k <= p + 1 /\ Script[u][k].kind = "thinking_start"
                /\ \A j \in k .. p + 1 : Script[u][j].kind # "thinking_end"
  <2>1. PICK k \in DOMAIN Script[u] :
          /\ k <= p /\ Script[u][k].kind = "thinking_start"
          /\ \A j \in k .. p : Script[u][j].kind # "thinking_end"
    BY <1>4 DEF Thinking
  <2>2. \A j \in k .. p + 1 : Script[u][j].kind # "thinking_end"
    BY <1>1, <1>4, <2>1
  <2> QED
    BY <1>1, <2>1, <2>2
<1> QED
  BY <1>2, <1>3, <1>4 DEF Thinking

LEMMA CallingStays ==
    ASSUME NEW u \in Turns, NEW p \in Nat, NEW s, NEW t, NEW L, NEW M, NEW x,
           Calling(s, L, u, p, x), p + 1 \in DOMAIN Script[u],
           Script[u][p + 1].kind # "tool_end" \/ Script[u][p + 1].id \notin s.tools,
           t.tools = s.tools,
           \A m \in IdsOf(u) : M[Tol(m)] = L[Tol(m)]
    PROVE  Calling(t, M, u, p + 1, x)
<1>1. \A k \in DOMAIN Script[u] : /\ k \in Nat /\ (k <= p + 1 <=> k <= p \/ k = p + 1)
                                  /\ (k > p + 1 => k > p)
                                  /\ \A j \in k .. p + 1 : j \in k .. p \/ j = p + 1
  BY ScriptFacts
<1>2. t.tools = {m \in IdsOf(u) : M[Tol(m)] = "open"}
  BY DEF Calling
<1>3. \A m \in IdsOf(u) : M[Tol(m)] # "none" =>
          \A j \in DOMAIN Script[u] : j > p + 1 /\ ToolStarts(Script[u][j]) => Script[u][j].id # m
  BY <1>1 DEF Calling
<1>4. ASSUME x, NEW m \in t.tools
      PROVE  \E k \in DOMAIN Script[u] :
                /\ k <= p + 1 /\ ToolStarts(Script[u][k]) /\ Script[u][k].id = m
                /\ \A j \in k .. p + 1 :
                      ~(Script[u][j].kind = "tool_end" /\ Script[u][j].id = m)
  <2>1. PICK k \in DOMAIN Script[u] :
          /\ k <= p /\ ToolStarts(Script[u][k]) /\ Script[u][k].id = m
          /\ \A j \in k .. p : ~(Script[u][j].kind = "tool_end" /\ Script[u][j].id = m)
    BY <1>4 DEF Calling
  <2>2. \A j \in k .. p + 1 : ~(Script[u][j].kind = "tool_end" /\ Script[u][j].id = m)
    BY <1>1, <1>4, <2>1
  <2> QED
    BY <1>1, <2>1, <2>2
<1> QED
  BY <1>2, <1>3, <1>4 DEF Calling

LEMMA CompactingStays ==
    ASSUME NEW u \in Turns, NEW p \in Nat, NEW s, NEW t, NEW L, NEW M,
           Compacting(s, L, u, p), p + 1 \in DOMAIN Script[u],
           t.compaction = s.compaction,
           \A m \in IdsOf(u) : M[Cmp(m)] = L[Cmp(m)]
    PROVE  Compacting(t, M, u, p + 1)
<1>1. \A k \in DOMAIN Script[u] : k \in Nat /\ (k > p + 1 => k > p)
  BY ScriptFacts
<1> QED
  BY <1>1, ScriptFacts DEF Compacting

\* A pump that has missed events follows from any later point of the run.
LEMMA FollowsLater ==
    ASSUME NEW u \in Turns, NEW p \in Nat, NEW q \in Nat, p <= q, NEW s, NEW L, NEW S, NEW C,
           u \in S, Follows(s, L, u, p, S, C)
    PROVE  Follows(s, L, u, q, S, C)
<1>1. \A k \in DOMAIN Script[u] : k \in Nat /\ (k <= p => k <= q) /\ (k > q => k > p)
  BY ScriptFacts
<1> QED
  BY <1>1 DEF Follows, Writing, Thinking, Calling, Compacting

\* A turn that has missed events, or was cut, has less to answer for.
LEMMA FollowsLess ==
    ASSUME NEW u, NEW p, NEW s, NEW L, NEW S, NEW C, NEW T, NEW D,
           u \in S => u \in T, u \in C => u \in D,
           Follows(s, L, u, p, S, C)
    PROVE  Follows(s, L, u, p, T, D)
BY DEF Follows, Writing, Thinking, Calling

\* What a run says of an item, and of no other.
Alike(L, M, i) == \A w \in Items : w # i => M[w] = L[w]

LEMMA AlikeMessage ==
    ASSUME NEW u \in Turns, NEW L, NEW M, NEW m, Alike(L, M, Msg(m))
    PROVE  \A w \in IdsOf(u) :
               /\ M[Rsn(w)] = L[Rsn(w)] /\ M[Tol(w)] = L[Tol(w)] /\ M[Cmp(w)] = L[Cmp(w)]
               /\ w # m => M[Msg(w)] = L[Msg(w)]
BY ItemsApart, ItemsOfTurn DEF Alike

LEMMA AlikeReasoning ==
    ASSUME NEW u \in Turns, NEW L, NEW M, NEW m, Alike(L, M, Rsn(m))
    PROVE  \A w \in IdsOf(u) :
               /\ M[Msg(w)] = L[Msg(w)] /\ M[Tol(w)] = L[Tol(w)] /\ M[Cmp(w)] = L[Cmp(w)]
               /\ w # m => M[Rsn(w)] = L[Rsn(w)]
BY ItemsApart, ItemsOfTurn DEF Alike

LEMMA AlikeTool ==
    ASSUME NEW u \in Turns, NEW L, NEW M, NEW m, Alike(L, M, Tol(m))
    PROVE  \A w \in IdsOf(u) :
               /\ M[Msg(w)] = L[Msg(w)] /\ M[Rsn(w)] = L[Rsn(w)] /\ M[Cmp(w)] = L[Cmp(w)]
               /\ w # m => M[Tol(w)] = L[Tol(w)]
BY ItemsApart, ItemsOfTurn DEF Alike

LEMMA AlikeCompaction ==
    ASSUME NEW u \in Turns, NEW L, NEW M, NEW m, Alike(L, M, Cmp(m))
    PROVE  \A w \in IdsOf(u) :
               /\ M[Msg(w)] = L[Msg(w)] /\ M[Rsn(w)] = L[Rsn(w)] /\ M[Tol(w)] = L[Tol(w)]
               /\ w # m => M[Cmp(w)] = L[Cmp(w)]
<1> SUFFICES ASSUME NEW w \in IdsOf(u)
             PROVE  /\ M[Msg(w)] = L[Msg(w)] /\ M[Rsn(w)] = L[Rsn(w)] /\ M[Tol(w)] = L[Tol(w)]
                    /\ w # m => M[Cmp(w)] = L[Cmp(w)]
  OBVIOUS
<1>1. Msg(w) \in Items /\ Rsn(w) \in Items /\ Tol(w) \in Items /\ Cmp(w) \in Items
  BY ItemsOfTurn
<1>2. Cmp(m) \notin {Msg(w), Rsn(w), Tol(w)} /\ (Cmp(m) = Cmp(w) <=> m = w)
  BY ItemsApart
<1> QED
  BY <1>1, <1>2 DEF Alike

\* The notes about an item, each from what the client knows of it.
LEMMA SaysStarted ==
    ASSUME NEW L \in Lives, NEW i \in Items,
           L[i] = "none" \/ (i[1] = "reasoning" /\ ~ThinksOnce)
    PROVE  \E M \in Lives : /\ Says(L, [note |-> "started", item |-> i], M)
                            /\ M[i] = "open" /\ Alike(L, M, i)
<1> DEFINE M == [L EXCEPT ![i] = "open"]
<1>1. M \in Lives /\ M[i] = "open" /\ Alike(L, M, i)
  BY DEF Lives, Stream!Lives, Alike
<1>2. Says(L, [note |-> "started", item |-> i], M)
  BY DEF Says
<1> QED
  BY <1>1, <1>2

LEMMA SaysDelta ==
    ASSUME NEW L \in Lives, NEW i, L[i] = "open"
    PROVE  Says(L, [note |-> "delta", item |-> i], L)
BY DEF Says

LEMMA SaysCompleted ==
    ASSUME NEW L \in Lives, NEW i \in Items, L[i] = "open"
    PROVE  \E M \in Lives : /\ Says(L, [note |-> "completed", item |-> i], M)
                            /\ M[i] = "done" /\ Alike(L, M, i)
<1> DEFINE M == [L EXCEPT ![i] = "done"]
<1>1. M \in Lives /\ M[i] = "done" /\ Alike(L, M, i)
  BY DEF Lives, Stream!Lives, Alike
<1>2. Says(L, [note |-> "completed", item |-> i], M)
  BY DEF Says
<1> QED
  BY <1>1, <1>2

\* The answer to an event: notes the client may hear, and a translator that
\* follows from there.
Answers(u, r, L, p, S, C) ==
    /\ r.notes \in Seq(NoteOf(u))
    /\ \E M \in Lives : Leads(L, r.notes, M) /\ Follows(r.state, M, u, p, S, C)

LEMMA StartedNote ==
    ASSUME NEW u \in Turns, NEW i \in ItemsOf(u), NEW L \in Lives,
           L[i] = "none" \/ (i[1] = "reasoning" /\ ~ThinksOnce)
    PROVE  /\ Pi!Started(i) \in Seq(NoteOf(u))
           /\ \E M \in Lives : Leads(L, Pi!Started(i), M) /\ M[i] = "open" /\ Alike(L, M, i)
<1>1. i \in Items
  BY ScriptFacts
<1>2. [note |-> "started", item |-> i] \in NoteOf(u)
  BY DEF NoteOf
<1> QED
  BY <1>1, <1>2, SaysStarted, LeadsOne DEF Pi!Started

LEMMA DeltaNote ==
    ASSUME NEW u \in Turns, NEW i \in ItemsOf(u), NEW L \in Lives, L[i] = "open"
    PROVE  Pi!Delta(i) \in Seq(NoteOf(u)) /\ Leads(L, Pi!Delta(i), L)
<1>1. [note |-> "delta", item |-> i] \in NoteOf(u)
  BY DEF NoteOf
<1> QED
  BY <1>1, SaysDelta, LeadsOne DEF Pi!Delta

LEMMA CompletedNote ==
    ASSUME NEW u \in Turns, NEW i \in ItemsOf(u), NEW L \in Lives, L[i] = "open"
    PROVE  /\ Pi!Completed(i) \in Seq(NoteOf(u))
           /\ \E M \in Lives : Leads(L, Pi!Completed(i), M) /\ M[i] = "done" /\ Alike(L, M, i)
<1>1. i \in Items
  BY ScriptFacts
<1>2. [note |-> "completed", item |-> i] \in NoteOf(u)
  BY DEF NoteOf
<1> QED
  BY <1>1, <1>2, SaysCompleted, LeadsOne DEF Pi!Completed

LEMMA NothingAnswers ==
    ASSUME NEW u \in Turns, NEW p \in Nat, p + 1 \in DOMAIN Script[u], NEW L \in Lives,
           NEW s, NEW S, NEW C, Follows(s, L, u, p, S, C),
           Script[u][p + 1].kind # "message_end",
           Script[u][p + 1].kind # "thinking_end" \/ s.reasoning = None,
           Script[u][p + 1].kind # "tool_end" \/ Script[u][p + 1].id \notin s.tools
    PROVE  Answers(u, Pi!Nothing(s), L, p + 1, S, C)
<1>1. Follows(s, L, u, p + 1, S, C)
  BY WritingStays, ThinkingStays, CallingStays, CompactingStays DEF Follows
<1>2. Leads(L, <<>>, L)
  BY LeadsNowhere
<1> QED
  BY <1>1, <1>2 DEF Answers, Pi!Nothing

\* The order of a message's events in the run.
LEMMA MessagesInOrder ==
    ASSUME NEW u \in Turns, NEW i \in DOMAIN Script[u], NEW j \in DOMAIN Script[u], i < j,
           OfMessage(Script[u][i]), OfMessage(Script[u][j])
    PROVE  /\ Script[u][i].id = Script[u][j].id =>
                 Script[u][i].kind # "message_end" /\ Script[u][j].kind # "message_start"
           /\ Script[u][i].id # Script[u][j].id =>
                 \E k \in DOMAIN Script[u] :
                     /\ i <= k /\ k < j
                     /\ Script[u][k].kind = "message_end" /\ Script[u][k].id = Script[u][i].id
<1>1. Regular(Script[u])
  BY PiRunAssumption
<1>2. \A k \in i .. j - 1 : k \in DOMAIN Script[u] /\ i <= k /\ k < j
  BY ScriptFacts
<1> QED
  BY <1>1, <1>2 DEF Regular

\* Once another message writes, the one before does not come again.
LEMMA NotAgain ==
    ASSUME NEW u \in Turns, NEW i \in DOMAIN Script[u], NEW j \in DOMAIN Script[u],
           NEW l \in DOMAIN Script[u], i < j, j < l,
           OfMessage(Script[u][i]), OfMessage(Script[u][j]), OfMessage(Script[u][l]),
           Script[u][i].id # Script[u][j].id
    PROVE  Script[u][l].id # Script[u][i].id
<1>1. PICK k \in DOMAIN Script[u] :
        /\ i <= k /\ k < j
        /\ Script[u][k].kind = "message_end" /\ Script[u][k].id = Script[u][i].id
  BY MessagesInOrder
<1>2. OfMessage(Script[u][k])
  BY <1>1 DEF OfMessage
<1>3. k < l
  BY <1>1, ScriptFacts
<1> QED
  BY <1>1, <1>2, <1>3, MessagesInOrder

LEMMA MessageStartAnswers ==
    ASSUME NEW u \in Turns, NEW p \in Nat, p + 1 \in DOMAIN Script[u], NEW L \in Lives,
           NEW s, NEW S, NEW C, Follows(s, L, u, p, S, C),
           Script[u][p + 1].kind = "message_start"
    PROVE  Answers(u, Pi!MessageStart(s, Script[u][p + 1]), L, p + 1, S, C)
<1> DEFINE e == Script[u][p + 1]
           r == Pi!MessageStart(s, e)
           x == u \notin S
<1>1. /\ e \in Event /\ e.id \in IdsOf(u) /\ e.id \in Ids /\ e.id # None /\ e.text \in BOOLEAN
      /\ OfMessage(e) /\ s \in State
      /\ \A k \in DOMAIN Script[u] : k \in Nat /\ (k <= p + 1 <=> k <= p \/ k = p + 1)
  BY ScriptFacts DEF Event, OfMessage, Follows
<1>2. /\ r.state \in State /\ r.state.message = e.id /\ r.state.started = e.text
      /\ ~r.state.saw /\ r.state.reasoning = s.reasoning /\ r.state.tools = s.tools
      /\ r.state.compaction = s.compaction
      /\ r.notes = IF e.text THEN Pi!Started(Msg(e.id)) ELSE <<>>
  BY <1>1 DEF Pi!MessageStart, Pi!Gives, State, Msg
\* What was open before is another message, and does not come again.
<1>3. s.message # e.id
  BY <1>1, MessagesInOrder DEF Follows, Writing
<1>4. L[Msg(e.id)] = "none"
  BY <1>1, <1>3 DEF Follows, Writing
<1>5. \A j \in DOMAIN Script[u] :
          j > p + 1 /\ OfMessage(Script[u][j]) /\ s.message # None => Script[u][j].id # s.message
  <2> SUFFICES ASSUME NEW j \in DOMAIN Script[u], j > p + 1, OfMessage(Script[u][j]),
                      s.message # None
               PROVE  Script[u][j].id # s.message
    OBVIOUS
  <2>1. PICK k \in DOMAIN Script[u] :
          k <= p /\ OfMessage(Script[u][k]) /\ Script[u][k].id = s.message
    BY DEF Follows, Writing
  <2> QED
    BY <1>1, <1>3, <2>1, NotAgain
<1>6. x => \A m \in IdsOf(u) : L[Msg(m)] # "open"
  <2>1. CASE s.message = None
    BY <2>1, ScriptFacts DEF Follows, Writing
  <2>2. CASE x /\ s.message # None
    <3>1. PICK k \in DOMAIN Script[u] :
            k <= p /\ OfMessage(Script[u][k]) /\ Script[u][k].id = s.message
      BY <2>2 DEF Follows, Writing
    <3>2. PICK i \in DOMAIN Script[u] :
            i < p + 1 /\ Script[u][i].kind = "message_end" /\ Script[u][i].id = s.message
      BY <1>1, <1>3, <3>1, MessagesInOrder
    <3>3. i <= p
      BY <1>1, <3>2
    <3> QED
      BY <2>2, <3>2, <3>3 DEF Follows, Writing
  <2> QED
    BY <2>1, <2>2
<1>7. r.notes \in Seq(NoteOf(u))
      /\ \E M \in Lives : /\ Leads(L, r.notes, M) /\ Alike(L, M, Msg(e.id))
                          /\ M[Msg(e.id)] = (IF e.text THEN "open" ELSE "none")
  <2>1. CASE e.text
    BY <1>1, <1>2, <1>4, <2>1, StartedNote, ItemsOfTurn
  <2>2. CASE ~e.text
    BY <1>2, <1>4, <2>2, LeadsNowhere DEF Alike
  <2> QED
    BY <2>1, <2>2
<1>8. PICK M \in Lives : /\ Leads(L, r.notes, M) /\ Alike(L, M, Msg(e.id))
                         /\ M[Msg(e.id)] = (IF e.text THEN "open" ELSE "none")
  BY <1>7
<1>9. \A m \in IdsOf(u) : /\ M[Rsn(m)] = L[Rsn(m)] /\ M[Tol(m)] = L[Tol(m)]
                          /\ M[Cmp(m)] = L[Cmp(m)]
                          /\ m # e.id => M[Msg(m)] = L[Msg(m)]
  BY <1>8, AlikeMessage
<1>10. Writing(r.state, M, u, p + 1, x)
  <2>1. r.state.message \in IdsOf(u) /\ r.state.message # None
        /\ M[Msg(r.state.message)] = (IF r.state.started THEN "open" ELSE "none")
    BY <1>1, <1>2, <1>8
  <2>2. \E k \in DOMAIN Script[u] :
            k <= p + 1 /\ OfMessage(Script[u][k]) /\ Script[u][k].id = r.state.message
    BY <1>1, <1>2
  <2>3. ASSUME NEW m \in IdsOf(u), m # r.state.message, M[Msg(m)] # "none",
               NEW j \in DOMAIN Script[u], j > p + 1, OfMessage(Script[u][j])
        PROVE  Script[u][j].id # m
    <3>1. m # e.id /\ L[Msg(m)] # "none"
      BY <1>2, <1>9, <2>3
    <3>2. CASE m = s.message
      BY <1>5, <2>3, <3>2, ScriptFacts
    <3>3. CASE m # s.message
      BY <1>1, <2>3, <3>1, <3>3 DEF Follows, Writing
    <3> QED
      BY <3>2, <3>3
  <2>4. x => \A m \in IdsOf(u) : M[Msg(m)] = "open" => r.state.message = m
    BY <1>2, <1>6, <1>9
  <2>5. ASSUME NEW k \in DOMAIN Script[u], k <= p + 1, Script[u][k].kind = "message_end"
        PROVE  Script[u][k].id # r.state.message
    <3>1. k < p + 1 /\ OfMessage(Script[u][k])
      BY <1>1, <2>5 DEF OfMessage
    <3> QED
      BY <1>1, <1>2, <3>1, MessagesInOrder
  <2> QED
    BY <1>2, <2>1, <2>2, <2>3, <2>4, <2>5 DEF Writing
<1>11. Follows(r.state, M, u, p + 1, S, C)
  BY <1>2, <1>9, <1>10, ThinkingStays, CallingStays, CompactingStays DEF Follows
<1> QED
  BY <1>7, <1>8, <1>11 DEF Answers

LEMMA TextDeltaAnswers ==
    ASSUME NEW u \in Turns, NEW p \in Nat, p + 1 \in DOMAIN Script[u], NEW L \in Lives,
           NEW s, NEW S, NEW C, Follows(s, L, u, p, S, C),
           Script[u][p + 1].kind \in {"text_delta", "text_end"}
    PROVE  Answers(u, Pi!TextDelta(s, Script[u][p + 1]), L, p + 1, S, C)
<1> DEFINE e == Script[u][p + 1]
           r == Pi!TextDelta(s, e)
           i == Pi!MessageOf(s, e)
           x == u \notin S
<1>1. /\ e \in Event /\ e.id \in IdsOf(u) /\ e.id \in Ids /\ e.id # None
      /\ OfMessage(e) /\ s \in State
      /\ \A k \in DOMAIN Script[u] : k \in Nat /\ (k <= p + 1 <=> k <= p \/ k = p + 1)
  BY ScriptFacts DEF Event, OfMessage, Follows
<1>2. i \in IdsOf(u) /\ i \in Ids /\ i # None /\ (s.message = None => i = e.id)
      /\ (s.message # None => i = s.message)
  BY <1>1, ScriptFacts DEF Pi!MessageOf, Follows, Writing
<1>3. /\ r.state \in State /\ r.state.message = i /\ r.state.started
      /\ r.state.saw /\ r.state.reasoning = s.reasoning /\ r.state.tools = s.tools
      /\ r.state.compaction = s.compaction
      /\ r.notes = Pi!StartedNow(s, i) \o Pi!Delta(Msg(i))
  BY <1>1, <1>2 DEF Pi!TextDelta, Pi!Gives, State, Msg
<1>4. L[Msg(i)] = (IF s.started THEN "open" ELSE "none")
  BY <1>1, <1>2 DEF Follows, Writing
<1>5. Pi!StartedNow(s, i) \in Seq(NoteOf(u))
      /\ \E M \in Lives : /\ Leads(L, Pi!StartedNow(s, i), M) /\ Alike(L, M, Msg(i))
                          /\ M[Msg(i)] = "open"
  <2>1. CASE s.started
    BY <1>4, <2>1, LeadsNowhere DEF Pi!StartedNow, Alike
  <2>2. CASE ~s.started
    BY <1>2, <1>4, <2>2, StartedNote, ItemsOfTurn DEF Pi!StartedNow, Msg
  <2> QED
    BY <2>1, <2>2
<1>6. PICK M \in Lives : /\ Leads(L, Pi!StartedNow(s, i), M) /\ Alike(L, M, Msg(i))
                         /\ M[Msg(i)] = "open"
  BY <1>5
<1>7. r.notes \in Seq(NoteOf(u)) /\ Leads(L, r.notes, M)
  <2>1. Pi!Delta(Msg(i)) \in Seq(NoteOf(u)) /\ Leads(M, Pi!Delta(Msg(i)), M)
    BY <1>2, <1>6, DeltaNote, ItemsOfTurn
  <2> QED
    BY <1>3, <1>5, <1>6, <2>1, LeadsOn
<1>8. \A m \in IdsOf(u) : /\ M[Rsn(m)] = L[Rsn(m)] /\ M[Tol(m)] = L[Tol(m)]
                          /\ M[Cmp(m)] = L[Cmp(m)]
                          /\ m # i => M[Msg(m)] = L[Msg(m)]
  BY <1>6, AlikeMessage
<1>9. Writing(r.state, M, u, p + 1, x)
  <2>1. r.state.message \in IdsOf(u) /\ r.state.message # None
        /\ M[Msg(r.state.message)] = (IF r.state.started THEN "open" ELSE "none")
    BY <1>2, <1>3, <1>6
  <2>2. \E k \in DOMAIN Script[u] :
            k <= p + 1 /\ OfMessage(Script[u][k]) /\ Script[u][k].id = r.state.message
    BY <1>1, <1>2, <1>3 DEF Follows, Writing
  <2>3. ASSUME NEW m \in IdsOf(u), m # r.state.message, M[Msg(m)] # "none",
               NEW j \in DOMAIN Script[u], j > p + 1, OfMessage(Script[u][j])
        PROVE  Script[u][j].id # m
    <3>1. L[Msg(m)] # "none" /\ m # s.message
      BY <1>2, <1>3, <1>8, <2>3, ScriptFacts
    <3> QED
      BY <1>1, <2>3, <3>1 DEF Follows, Writing
  <2>4. ASSUME x, NEW m \in IdsOf(u), M[Msg(m)] = "open" PROVE r.state.message = m
    <3>1. CASE m = i
      BY <1>3, <3>1
    <3>2. CASE m # i
      <4>1. L[Msg(m)] = "open"
        BY <1>8, <2>4, <3>2
      <4>2. s.message = m /\ m # None
        BY <2>4, <4>1, ScriptFacts DEF Follows, Writing
      <4> QED
        BY <1>2, <3>2, <4>2
    <3> QED
      BY <3>1, <3>2
  <2>5. ASSUME x, NEW k \in DOMAIN Script[u], k <= p + 1, Script[u][k].kind = "message_end"
        PROVE  Script[u][k].id # r.state.message
    <3>1. k <= p /\ k < p + 1 /\ OfMessage(Script[u][k])
      BY <1>1, <2>5 DEF OfMessage
    <3>2. CASE s.message = None
      <4>1. Script[u][k].id # e.id
        BY <1>1, <2>5, <3>1, MessagesInOrder
      <4> QED
        BY <1>2, <1>3, <3>2, <4>1
    <3>3. CASE s.message # None
      BY <1>2, <1>3, <2>5, <3>1, <3>3 DEF Follows, Writing
    <3> QED
      BY <3>2, <3>3
  <2> QED
    BY <1>3, <2>1, <2>2, <2>3, <2>4, <2>5 DEF Writing
<1>10. Follows(r.state, M, u, p + 1, S, C)
  BY <1>3, <1>8, <1>9, ThinkingStays, CallingStays, CompactingStays DEF Follows
<1> QED
  BY <1>7, <1>10 DEF Answers

LEMMA TextEndAnswers ==
    ASSUME NEW u \in Turns, NEW p \in Nat, p + 1 \in DOMAIN Script[u], NEW L \in Lives,
           NEW s, NEW S, NEW C, Follows(s, L, u, p, S, C),
           Script[u][p + 1].kind = "text_end"
    PROVE  Answers(u, Pi!TextEnd(s, Script[u][p + 1]), L, p + 1, S, C)
BY TextDeltaAnswers, NothingAnswers DEF Pi!TextEnd

LEMMA MessageEndAnswers ==
    ASSUME NEW u \in Turns, NEW p \in Nat, p + 1 \in DOMAIN Script[u], NEW L \in Lives,
           NEW s, NEW S, NEW C, Follows(s, L, u, p, S, C),
           Script[u][p + 1].kind = "message_end"
    PROVE  Answers(u, Pi!MessageEnd(s, Script[u][p + 1]), L, p + 1, S, C)
<1> DEFINE e == Script[u][p + 1]
           r == Pi!MessageEnd(s, e)
           i == s.message
           x == u \notin S
           quiet == s.message = None \/ (~s.started /\ ~e.text)
<1>1. /\ e \in Event /\ e.id \in IdsOf(u) /\ e.id # None /\ e.text \in BOOLEAN
      /\ OfMessage(e) /\ s \in State
      /\ \A k \in DOMAIN Script[u] : k \in Nat /\ (k <= p + 1 <=> k <= p \/ k = p + 1)
  BY ScriptFacts DEF Event, OfMessage, Follows
<1>2. Pi!Closed(s) \in State /\ r.state = Pi!Closed(s)
      /\ r.state.message = None /\ ~r.state.started /\ ~r.state.saw
      /\ r.state.reasoning = s.reasoning /\ r.state.tools = s.tools
      /\ r.state.compaction = s.compaction
  BY <1>1 DEF Pi!MessageEnd, Pi!Gives, Pi!Nothing, Pi!Closed, State
\* What was open does not come again.
<1>3. ASSUME s.message # None, NEW j \in DOMAIN Script[u], j > p + 1, OfMessage(Script[u][j])
      PROVE  Script[u][j].id # s.message
  <2>1. PICK k \in DOMAIN Script[u] :
          k <= p /\ OfMessage(Script[u][k]) /\ Script[u][k].id = s.message
    BY <1>3 DEF Follows, Writing
  <2>2. CASE e.id = s.message
    BY <1>1, <1>3, <2>2, MessagesInOrder
  <2>3. CASE e.id # s.message
    BY <1>1, <1>3, <2>1, <2>3, NotAgain
  <2> QED
    BY <2>2, <2>3
<1>4. r.notes \in Seq(NoteOf(u))
      /\ \E M \in Lives : /\ Leads(L, r.notes, M)
                          /\ \A m \in IdsOf(u) : /\ M[Rsn(m)] = L[Rsn(m)] /\ M[Tol(m)] = L[Tol(m)]
                                                 /\ M[Cmp(m)] = L[Cmp(m)]
                                                 /\ m # s.message => M[Msg(m)] = L[Msg(m)]
                          /\ s.message # None => M[Msg(s.message)] # "open"
  <2>1. CASE quiet
    <3>1. r.notes = <<>>
      BY <2>1 DEF Pi!MessageEnd, Pi!Nothing
    <3>2. s.message # None => L[Msg(s.message)] = "none"
      BY <2>1 DEF Follows, Writing
    <3> QED
      BY <3>1, <3>2, LeadsNowhere
  <2>2. CASE ~quiet
    <3> DEFINE d == IF ~s.saw /\ e.text THEN Pi!Delta(Msg(i)) ELSE <<>>
    <3>1. r.notes = Pi!StartedNow(s, i) \o d \o Pi!Completed(Msg(i))
      BY <2>2 DEF Pi!MessageEnd, Pi!Gives, Msg
    <3>2. i \in IdsOf(u) /\ Msg(i) \in ItemsOf(u)
          /\ L[Msg(i)] = (IF s.started THEN "open" ELSE "none")
      BY <2>2, ItemsOfTurn DEF Follows, Writing
    <3>3. Pi!StartedNow(s, i) \in Seq(NoteOf(u))
          /\ \E M \in Lives : /\ Leads(L, Pi!StartedNow(s, i), M) /\ Alike(L, M, Msg(i))
                              /\ M[Msg(i)] = "open"
      <4>1. CASE s.started
        BY <3>2, <4>1, LeadsNowhere DEF Pi!StartedNow, Alike
      <4>2. CASE ~s.started
        BY <3>2, <4>2, StartedNote DEF Pi!StartedNow, Msg
      <4> QED
        BY <4>1, <4>2
    <3>4. PICK M \in Lives : /\ Leads(L, Pi!StartedNow(s, i), M) /\ Alike(L, M, Msg(i))
                             /\ M[Msg(i)] = "open"
      BY <3>3
    <3>5. d \in Seq(NoteOf(u)) /\ Leads(M, d, M)
      BY <3>2, <3>4, DeltaNote, LeadsNowhere
    <3>6. /\ Pi!Completed(Msg(i)) \in Seq(NoteOf(u))
          /\ \E N \in Lives : /\ Leads(M, Pi!Completed(Msg(i)), N) /\ N[Msg(i)] = "done"
                              /\ Alike(M, N, Msg(i))
      BY <3>2, <3>4, CompletedNote
    <3>7. PICK N \in Lives : /\ Leads(M, Pi!Completed(Msg(i)), N) /\ N[Msg(i)] = "done"
                             /\ Alike(M, N, Msg(i))
      BY <3>6
    <3> HIDE DEF d, r
    <3>8. Leads(L, Pi!StartedNow(s, i) \o d, M) /\ Pi!StartedNow(s, i) \o d \in Seq(NoteOf(u))
      BY <3>3, <3>4, <3>5, LeadsOn
    <3> DEFINE a == Pi!StartedNow(s, i) \o d
               c == Pi!Completed(Msg(i))
    <3>9. Leads(L, r.notes, N) /\ r.notes \in Seq(NoteOf(u))
      <4>1. a \in Seq(NoteOf(u)) /\ c \in Seq(NoteOf(u)) /\ Leads(L, a, M) /\ Leads(M, c, N)
            /\ r.notes = a \o c
        BY <3>1, <3>6, <3>7, <3>8
      <4> HIDE DEF a, c
      <4> QED
        BY <4>1, LeadsOn
    <3>10. Alike(L, N, Msg(i))
      BY <3>4, <3>7 DEF Alike
    <3>11. \A m \in IdsOf(u) : /\ N[Rsn(m)] = L[Rsn(m)] /\ N[Tol(m)] = L[Tol(m)]
                               /\ N[Cmp(m)] = L[Cmp(m)]
                               /\ m # s.message => N[Msg(m)] = L[Msg(m)]
      BY <3>10, AlikeMessage
    <3> QED
      BY <3>7, <3>9, <3>11
  <2> QED
    BY <2>1, <2>2
<1>5. PICK M \in Lives :
        /\ Leads(L, r.notes, M)
        /\ \A m \in IdsOf(u) : /\ M[Rsn(m)] = L[Rsn(m)] /\ M[Tol(m)] = L[Tol(m)]
                               /\ M[Cmp(m)] = L[Cmp(m)]
                               /\ m # s.message => M[Msg(m)] = L[Msg(m)]
        /\ s.message # None => M[Msg(s.message)] # "open"
  BY <1>4
<1>6. Writing(r.state, M, u, p + 1, x)
  <2>1. ASSUME NEW m \in IdsOf(u), M[Msg(m)] # "none",
               NEW j \in DOMAIN Script[u], j > p + 1, OfMessage(Script[u][j])
        PROVE  Script[u][j].id # m
    <3>1. CASE m = s.message
      BY <1>3, <2>1, <3>1, ScriptFacts
    <3>2. CASE m # s.message
      BY <1>1, <1>5, <2>1, <3>2 DEF Follows, Writing
    <3> QED
      BY <3>1, <3>2
  <2>2. x => \A m \in IdsOf(u) : M[Msg(m)] # "open"
    BY <1>5, ScriptFacts DEF Follows, Writing
  <2> QED
    BY <1>2, <2>1, <2>2 DEF Writing
<1>7. Follows(r.state, M, u, p + 1, S, C)
  BY <1>2, <1>5, <1>6, ThinkingStays, CallingStays, CompactingStays DEF Follows
<1> QED
  BY <1>4, <1>5, <1>7 DEF Answers

LEMMA ThinkingStartAnswers ==
    ASSUME NEW u \in Turns, NEW p \in Nat, p + 1 \in DOMAIN Script[u], NEW L \in Lives,
           NEW s, NEW S, NEW C, Follows(s, L, u, p, S, C),
           Script[u][p + 1].kind = "thinking_start"
    PROVE  Answers(u, Pi!ThinkingStart(s, Script[u][p + 1]), L, p + 1, S, C)
<1> DEFINE e == Script[u][p + 1]
           r == Pi!ThinkingStart(s, e)
           x == u \notin S
<1>1. /\ e \in Event /\ e.id \in IdsOf(u) /\ e.id \in Ids /\ e.id # None /\ s \in State
      /\ \A k \in DOMAIN Script[u] : k \in Nat /\ (k <= p + 1 <=> k <= p \/ k = p + 1)
  BY ScriptFacts DEF Event, Follows
<1>2. /\ r.state \in State /\ r.state.reasoning = e.id
      /\ r.state.message = s.message /\ r.state.started = s.started /\ r.state.saw = s.saw
      /\ r.state.tools = s.tools /\ r.state.compaction = s.compaction
      /\ r.notes = Pi!Started(Rsn(e.id))
  BY <1>1 DEF Pi!ThinkingStart, Pi!Gives, State, Rsn
<1>3. L[Rsn(e.id)] = "none" \/ ~ThinksOnce
  BY <1>1 DEF Follows, Thinking
<1>4. r.notes \in Seq(NoteOf(u))
      /\ \E M \in Lives : /\ Leads(L, r.notes, M) /\ M[Rsn(e.id)] = "open"
                          /\ Alike(L, M, Rsn(e.id))
  BY <1>1, <1>2, <1>3, StartedNote, ItemsOfTurn, ItemsApart
<1>5. PICK M \in Lives : /\ Leads(L, r.notes, M) /\ M[Rsn(e.id)] = "open"
                         /\ Alike(L, M, Rsn(e.id))
  BY <1>4
<1>6. \A m \in IdsOf(u) : /\ M[Msg(m)] = L[Msg(m)] /\ M[Tol(m)] = L[Tol(m)]
                          /\ M[Cmp(m)] = L[Cmp(m)]
                          /\ m # e.id => M[Rsn(m)] = L[Rsn(m)]
  BY <1>5, AlikeReasoning
<1>7. Thinking(r.state, M, u, p + 1, x)
  <2>1. ASSUME ThinksOnce, NEW m \in IdsOf(u), M[Rsn(m)] # "none",
               NEW j \in DOMAIN Script[u], j > p + 1, Script[u][j].kind = "thinking_start"
        PROVE  Script[u][j].id # m
    <3>1. CASE m = e.id
      BY <1>1, <2>1, <3>1 DEF ThinksOnce
    <3>2. CASE m # e.id
      BY <1>1, <1>6, <2>1, <3>2 DEF Follows, Thinking
    <3> QED
      BY <3>1, <3>2
\* The block before has ended.
  <2>2. ASSUME x, ThinkingEnds PROVE s.reasoning = None
    <3> SUFFICES ASSUME s.reasoning # None PROVE FALSE
      OBVIOUS
    <3>1. PICK k \in DOMAIN Script[u] :
            /\ k <= p /\ Script[u][k].kind = "thinking_start"
            /\ \A j \in k .. p : Script[u][j].kind # "thinking_end"
      BY <2>2 DEF Follows, Thinking
    <3>2. PICK j \in k .. p + 1 : Script[u][j].kind = "thinking_end"
      BY <1>1, <2>2, <3>1 DEF ThinkingEnds
    <3>3. j \in k .. p
      BY <1>1, <3>1, <3>2
    <3> QED
      BY <3>1, <3>2, <3>3
  <2>3. x /\ ThinkingEnds => \A m \in IdsOf(u) : M[Rsn(m)] = "open" => r.state.reasoning = m
    BY <1>2, <1>6, <2>2, ScriptFacts DEF Follows, Thinking
  <2>4. \E k \in DOMAIN Script[u] :
            /\ k <= p + 1 /\ Script[u][k].kind = "thinking_start"
            /\ \A j \in k .. p + 1 : Script[u][j].kind # "thinking_end"
    <3>1. \A j \in p + 1 .. p + 1 : j = p + 1
      OBVIOUS
    <3> QED
      BY <1>1, <3>1
  <2> QED
    BY <1>1, <1>2, <1>5, <2>1, <2>3, <2>4 DEF Thinking
<1>8. Follows(r.state, M, u, p + 1, S, C)
  BY <1>2, <1>6, <1>7, WritingStays, CallingStays, CompactingStays DEF Follows
<1> QED
  BY <1>4, <1>5, <1>8 DEF Answers

LEMMA ThinkingDeltaAnswers ==
    ASSUME NEW u \in Turns, NEW p \in Nat, p + 1 \in DOMAIN Script[u], NEW L \in Lives,
           NEW s, NEW S, NEW C, Follows(s, L, u, p, S, C),
           Script[u][p + 1].kind = "thinking_delta"
    PROVE  Answers(u, Pi!ThinkingDelta(s), L, p + 1, S, C)
<1> DEFINE i == Rsn(s.reasoning)
<1>1. Follows(s, L, u, p + 1, S, C)
  BY WritingStays, ThinkingStays, CallingStays, CompactingStays DEF Follows
<1>2. CASE s.reasoning = None
  BY <1>2, NothingAnswers DEF Pi!ThinkingDelta
<1>3. CASE s.reasoning # None
  <2>1. i \in ItemsOf(u) /\ L[i] = "open"
    BY <1>3, ItemsOfTurn DEF Follows, Thinking
  <2>2. Pi!Delta(i) \in Seq(NoteOf(u)) /\ Leads(L, Pi!Delta(i), L)
    BY <2>1, DeltaNote
  <2>3. Pi!ThinkingDelta(s) = [state |-> s, notes |-> Pi!Delta(i)]
    BY <1>3 DEF Pi!ThinkingDelta, Pi!Gives, Rsn
  <2> QED
    BY <1>1, <2>2, <2>3 DEF Answers
<1> QED
  BY <1>2, <1>3

LEMMA ThinkingEndAnswers ==
    ASSUME NEW u \in Turns, NEW p \in Nat, p + 1 \in DOMAIN Script[u], NEW L \in Lives,
           NEW s, NEW S, NEW C, Follows(s, L, u, p, S, C),
           Script[u][p + 1].kind = "thinking_end"
    PROVE  Answers(u, Pi!ThinkingEnd(s), L, p + 1, S, C)
<1> DEFINE r == Pi!ThinkingEnd(s)
           i == s.reasoning
<1>1. CASE i = None
  BY <1>1, NothingAnswers DEF Pi!ThinkingEnd
<1>2. CASE i # None
  <2>1. i \in IdsOf(u) /\ Rsn(i) \in ItemsOf(u) /\ L[Rsn(i)] = "open" /\ s \in State
    BY <1>2, ItemsOfTurn DEF Follows, Thinking
  <2>2. /\ r.state \in State /\ r.state.reasoning = None
        /\ r.state.message = s.message /\ r.state.started = s.started /\ r.state.saw = s.saw
        /\ r.state.tools = s.tools /\ r.state.compaction = s.compaction
        /\ r.notes = Pi!Completed(Rsn(i))
    BY <1>2, <2>1 DEF Pi!ThinkingEnd, Pi!Gives, State, Rsn
  <2>3. r.notes \in Seq(NoteOf(u))
        /\ \E M \in Lives : Leads(L, r.notes, M) /\ M[Rsn(i)] = "done" /\ Alike(L, M, Rsn(i))
    BY <2>1, <2>2, CompletedNote
  <2>4. PICK M \in Lives : Leads(L, r.notes, M) /\ M[Rsn(i)] = "done" /\ Alike(L, M, Rsn(i))
    BY <2>3
  <2>5. \A m \in IdsOf(u) : /\ M[Msg(m)] = L[Msg(m)] /\ M[Tol(m)] = L[Tol(m)]
                            /\ M[Cmp(m)] = L[Cmp(m)]
                            /\ m # i => M[Rsn(m)] = L[Rsn(m)]
    BY <2>4, AlikeReasoning
  <2>6. \A k \in DOMAIN Script[u] : k \in Nat /\ (k > p + 1 => k > p)
    BY ScriptFacts
  <2>7. Thinking(r.state, M, u, p + 1, u \notin S)
    BY <2>1, <2>2, <2>4, <2>5, <2>6, ScriptFacts DEF Follows, Thinking
  <2>8. Follows(r.state, M, u, p + 1, S, C)
    BY <2>2, <2>5, <2>7, WritingStays, CallingStays, CompactingStays DEF Follows
  <2> QED
    BY <2>3, <2>4, <2>8 DEF Answers
<1> QED
  BY <1>1, <1>2

LEMMA ToolStartAnswers ==
    ASSUME NEW u \in Turns, NEW p \in Nat, p + 1 \in DOMAIN Script[u], NEW L \in Lives,
           NEW s, NEW S, NEW C, Follows(s, L, u, p, S, C),
           Script[u][p + 1].kind \in {"bash_start", "tool_start"}
    PROVE  Answers(u, Pi!ToolStart(s, Script[u][p + 1]), L, p + 1, S, C)
<1> DEFINE e == Script[u][p + 1]
           r == Pi!ToolStart(s, e)
           x == u \notin S \cup C
<1>1. /\ e \in Event /\ e.id \in IdsOf(u) /\ e.id \in Ids /\ s \in State /\ ToolStarts(e)
      /\ \A k \in DOMAIN Script[u] : /\ k \in Nat /\ (k <= p + 1 <=> k <= p \/ k = p + 1)
                                     /\ \A j \in k .. p + 1 : j \in k .. p \/ j = p + 1
      /\ Regular(Script[u])
  BY ScriptFacts, PiRunAssumption DEF Event, Follows, ToolStarts
<1>2. /\ r.state \in State /\ r.state.tools = s.tools \cup {e.id}
      /\ r.state.message = s.message /\ r.state.started = s.started /\ r.state.saw = s.saw
      /\ r.state.reasoning = s.reasoning /\ r.state.compaction = s.compaction
      /\ r.notes = Pi!Started(Tol(e.id))
  BY <1>1 DEF Pi!ToolStart, Pi!Gives, State, Tol
<1>3. L[Tol(e.id)] = "none"
  BY <1>1 DEF Follows, Calling
<1>4. r.notes \in Seq(NoteOf(u))
      /\ \E M \in Lives : /\ Leads(L, r.notes, M) /\ M[Tol(e.id)] = "open"
                          /\ Alike(L, M, Tol(e.id))
  BY <1>1, <1>2, <1>3, StartedNote, ItemsOfTurn
<1>5. PICK M \in Lives : /\ Leads(L, r.notes, M) /\ M[Tol(e.id)] = "open"
                         /\ Alike(L, M, Tol(e.id))
  BY <1>4
<1>6. \A m \in IdsOf(u) : /\ M[Msg(m)] = L[Msg(m)] /\ M[Rsn(m)] = L[Rsn(m)]
                          /\ M[Cmp(m)] = L[Cmp(m)]
                          /\ m # e.id => M[Tol(m)] = L[Tol(m)]
  BY <1>5, AlikeTool
<1>7. Calling(r.state, M, u, p + 1, x)
  <2>1. r.state.tools = {t \in IdsOf(u) : M[Tol(t)] = "open"}
    BY <1>1, <1>2, <1>5, <1>6 DEF Follows, Calling
  <2>2. ASSUME NEW t \in IdsOf(u), M[Tol(t)] # "none",
               NEW j \in DOMAIN Script[u], j > p + 1, ToolStarts(Script[u][j])
        PROVE  Script[u][j].id # t
    <3>1. CASE t = e.id
      BY <1>1, <2>2, <3>1 DEF Regular
    <3>2. CASE t # e.id
      BY <1>1, <1>6, <2>2, <3>2 DEF Follows, Calling
    <3> QED
      BY <3>1, <3>2
  <2>3. ASSUME x, NEW t \in r.state.tools
        PROVE  \E k \in DOMAIN Script[u] :
                   /\ k <= p + 1 /\ ToolStarts(Script[u][k]) /\ Script[u][k].id = t
                   /\ \A j \in k .. p + 1 :
                          ~(Script[u][j].kind = "tool_end" /\ Script[u][j].id = t)
    <3>1. CASE t = e.id
      <4>1. \A j \in p + 1 .. p + 1 : j = p + 1
        OBVIOUS
      <4> QED
        BY <1>1, <3>1, <4>1
    <3>2. CASE t \in s.tools
      <4>1. PICK k \in DOMAIN Script[u] :
              /\ k <= p /\ ToolStarts(Script[u][k]) /\ Script[u][k].id = t
              /\ \A j \in k .. p : ~(Script[u][j].kind = "tool_end" /\ Script[u][j].id = t)
        BY <2>3, <3>2 DEF Follows, Calling
      <4>2. e.kind # "tool_end"
        OBVIOUS
      <4> QED
        BY <1>1, <4>1, <4>2
    <3> QED
      BY <1>2, <2>3, <3>1, <3>2
  <2> QED
    BY <2>1, <2>2, <2>3 DEF Calling
<1>8. Follows(r.state, M, u, p + 1, S, C)
  BY <1>2, <1>6, <1>7, WritingStays, ThinkingStays, CompactingStays DEF Follows
<1> QED
  BY <1>4, <1>5, <1>8 DEF Answers

LEMMA ToolUpdateAnswers ==
    ASSUME NEW u \in Turns, NEW p \in Nat, p + 1 \in DOMAIN Script[u], NEW L \in Lives,
           NEW s, NEW S, NEW C, Follows(s, L, u, p, S, C),
           Script[u][p + 1].kind = "tool_update"
    PROVE  Answers(u, Pi!ToolUpdate(s, Script[u][p + 1]), L, p + 1, S, C)
<1> DEFINE e == Script[u][p + 1]
<1>1. Follows(s, L, u, p + 1, S, C)
  BY WritingStays, ThinkingStays, CallingStays, CompactingStays DEF Follows
<1>2. CASE e.id \notin s.tools
  BY <1>2, NothingAnswers DEF Pi!ToolUpdate
<1>3. CASE e.id \in s.tools
  <2>1. Tol(e.id) \in ItemsOf(u) /\ L[Tol(e.id)] = "open"
    BY <1>3, ItemsOfTurn DEF Follows, Calling
  <2>2. Pi!Delta(Tol(e.id)) \in Seq(NoteOf(u)) /\ Leads(L, Pi!Delta(Tol(e.id)), L)
    BY <2>1, DeltaNote
  <2>3. Pi!ToolUpdate(s, e) = [state |-> s, notes |-> Pi!Delta(Tol(e.id))]
    BY <1>3 DEF Pi!ToolUpdate, Pi!Gives, Tol
  <2> QED
    BY <1>1, <2>2, <2>3 DEF Answers
<1> QED
  BY <1>2, <1>3

LEMMA ToolEndAnswers ==
    ASSUME NEW u \in Turns, NEW p \in Nat, p + 1 \in DOMAIN Script[u], NEW L \in Lives,
           NEW s, NEW S, NEW C, Follows(s, L, u, p, S, C),
           Script[u][p + 1].kind = "tool_end"
    PROVE  Answers(u, Pi!ToolEnd(s, Script[u][p + 1]), L, p + 1, S, C)
<1> DEFINE e == Script[u][p + 1]
           r == Pi!ToolEnd(s, e)
           x == u \notin S \cup C
<1>1. CASE e.id \notin s.tools
  BY <1>1, NothingAnswers DEF Pi!ToolEnd
<1>2. CASE e.id \in s.tools
  <2>1. e.id \in IdsOf(u) /\ Tol(e.id) \in ItemsOf(u) /\ L[Tol(e.id)] = "open" /\ s \in State
    BY <1>2, ItemsOfTurn DEF Follows, Calling
  <2>2. /\ r.state \in State /\ r.state.tools = s.tools \ {e.id}
        /\ r.state.message = s.message /\ r.state.started = s.started /\ r.state.saw = s.saw
        /\ r.state.reasoning = s.reasoning /\ r.state.compaction = s.compaction
        /\ r.notes = Pi!Completed(Tol(e.id))
    BY <1>2, <2>1 DEF Pi!ToolEnd, Pi!Gives, State, Tol
  <2>3. r.notes \in Seq(NoteOf(u))
        /\ \E M \in Lives : /\ Leads(L, r.notes, M) /\ M[Tol(e.id)] = "done"
                            /\ Alike(L, M, Tol(e.id))
    BY <2>1, <2>2, CompletedNote
  <2>4. PICK M \in Lives : /\ Leads(L, r.notes, M) /\ M[Tol(e.id)] = "done"
                           /\ Alike(L, M, Tol(e.id))
    BY <2>3
  <2>5. \A m \in IdsOf(u) : /\ M[Msg(m)] = L[Msg(m)] /\ M[Rsn(m)] = L[Rsn(m)]
                            /\ M[Cmp(m)] = L[Cmp(m)]
                            /\ m # e.id => M[Tol(m)] = L[Tol(m)]
    BY <2>4, AlikeTool
  <2>6. \A k \in DOMAIN Script[u] : /\ k \in Nat /\ (k > p + 1 => k > p) /\ (k <= p => k <= p + 1)
                                    /\ \A j \in k .. p + 1 : j \in k .. p \/ j = p + 1
    BY ScriptFacts
  <2>7. Calling(r.state, M, u, p + 1, x)
    <3>1. r.state.tools = {t \in IdsOf(u) : M[Tol(t)] = "open"}
      BY <2>1, <2>2, <2>4, <2>5 DEF Follows, Calling
    <3>2. ASSUME NEW t \in IdsOf(u), M[Tol(t)] # "none",
                 NEW j \in DOMAIN Script[u], j > p + 1, ToolStarts(Script[u][j])
          PROVE  Script[u][j].id # t
      BY <2>1, <2>5, <2>6, <3>2 DEF Follows, Calling
    <3>3. ASSUME x, NEW t \in r.state.tools
          PROVE  \E k \in DOMAIN Script[u] :
                     /\ k <= p + 1 /\ ToolStarts(Script[u][k]) /\ Script[u][k].id = t
                     /\ \A j \in k .. p + 1 :
                            ~(Script[u][j].kind = "tool_end" /\ Script[u][j].id = t)
      <4>1. t \in s.tools /\ t # e.id
        BY <2>2
      <4>2. PICK k \in DOMAIN Script[u] :
              /\ k <= p /\ ToolStarts(Script[u][k]) /\ Script[u][k].id = t
              /\ \A j \in k .. p : ~(Script[u][j].kind = "tool_end" /\ Script[u][j].id = t)
        BY <3>3, <4>1 DEF Follows, Calling
      <4> QED
        BY <2>6, <4>1, <4>2
    <3> QED
      BY <3>1, <3>2, <3>3 DEF Calling
  <2>8. Follows(r.state, M, u, p + 1, S, C)
    BY <2>2, <2>5, <2>7, WritingStays, ThinkingStays, CompactingStays DEF Follows
  <2> QED
    BY <2>3, <2>4, <2>8 DEF Answers
<1> QED
  BY <1>1, <1>2

LEMMA CompactionStartAnswers ==
    ASSUME NEW u \in Turns, NEW p \in Nat, p + 1 \in DOMAIN Script[u], NEW L \in Lives,
           NEW s, NEW S, NEW C, Follows(s, L, u, p, S, C),
           Script[u][p + 1].kind = "compaction_start"
    PROVE  Answers(u, Pi!CompactionStart(s, Script[u][p + 1]), L, p + 1, S, C)
<1> DEFINE e == Script[u][p + 1]
           r == Pi!CompactionStart(s, e)
<1>1. /\ e \in Event /\ e.id \in IdsOf(u) /\ e.id \in Ids /\ s \in State
      /\ \A k \in DOMAIN Script[u] : k \in Nat /\ (k > p + 1 => k > p)
      /\ Regular(Script[u])
  BY ScriptFacts, PiRunAssumption DEF Event, Follows
<1>2. /\ r.state \in State /\ r.state.compaction = e.id
      /\ r.state.message = s.message /\ r.state.started = s.started /\ r.state.saw = s.saw
      /\ r.state.reasoning = s.reasoning /\ r.state.tools = s.tools
      /\ r.notes = Pi!Started(Cmp(e.id))
  BY <1>1 DEF Pi!CompactionStart, Pi!Gives, State, Cmp
<1>3. L[Cmp(e.id)] = "none"
  BY <1>1 DEF Follows, Compacting
<1>4. r.notes \in Seq(NoteOf(u))
      /\ \E M \in Lives : /\ Leads(L, r.notes, M) /\ M[Cmp(e.id)] = "open"
                          /\ Alike(L, M, Cmp(e.id))
  BY <1>1, <1>2, <1>3, StartedNote, ItemsOfTurn
<1>5. PICK M \in Lives : /\ Leads(L, r.notes, M) /\ M[Cmp(e.id)] = "open"
                         /\ Alike(L, M, Cmp(e.id))
  BY <1>4
<1>6. \A m \in IdsOf(u) : /\ M[Msg(m)] = L[Msg(m)] /\ M[Rsn(m)] = L[Rsn(m)]
                          /\ M[Tol(m)] = L[Tol(m)]
                          /\ m # e.id => M[Cmp(m)] = L[Cmp(m)]
  BY <1>5, AlikeCompaction
<1>7. ASSUME NEW m \in IdsOf(u), M[Cmp(m)] # "none",
             NEW j \in DOMAIN Script[u], j > p + 1, Script[u][j].kind = "compaction_start"
      PROVE  Script[u][j].id # m
  <2>1. CASE m = e.id
    BY <1>1, <1>7, <2>1 DEF Regular
  <2>2. CASE m # e.id
    BY <1>1, <1>6, <1>7, <2>2 DEF Follows, Compacting
  <2> QED
    BY <2>1, <2>2
<1>8. Compacting(r.state, M, u, p + 1)
  BY <1>1, <1>2, <1>5, <1>7 DEF Compacting
<1>9. Follows(r.state, M, u, p + 1, S, C)
  BY <1>2, <1>6, <1>8, WritingStays, ThinkingStays, CallingStays DEF Follows
<1> QED
  BY <1>4, <1>5, <1>9 DEF Answers

LEMMA CompactionEndAnswers ==
    ASSUME NEW u \in Turns, NEW p \in Nat, p + 1 \in DOMAIN Script[u], NEW L \in Lives,
           NEW s, NEW S, NEW C, Follows(s, L, u, p, S, C),
           Script[u][p + 1].kind = "compaction_end"
    PROVE  Answers(u, Pi!CompactionEnd(s), L, p + 1, S, C)
<1> DEFINE r == Pi!CompactionEnd(s)
           i == s.compaction
<1>1. CASE i = None
  BY <1>1, NothingAnswers DEF Pi!CompactionEnd
<1>2. CASE i # None
  <2>1. i \in IdsOf(u) /\ Cmp(i) \in ItemsOf(u) /\ L[Cmp(i)] = "open" /\ s \in State
    BY <1>2, ItemsOfTurn DEF Follows, Compacting
  <2>2. /\ r.state \in State /\ r.state.compaction = None
        /\ r.state.message = s.message /\ r.state.started = s.started /\ r.state.saw = s.saw
        /\ r.state.reasoning = s.reasoning /\ r.state.tools = s.tools
        /\ r.notes = Pi!Completed(Cmp(i))
    BY <1>2, <2>1 DEF Pi!CompactionEnd, Pi!Gives, State, Cmp
  <2>3. r.notes \in Seq(NoteOf(u))
        /\ \E M \in Lives : Leads(L, r.notes, M) /\ M[Cmp(i)] = "done" /\ Alike(L, M, Cmp(i))
    BY <2>1, <2>2, CompletedNote
  <2>4. PICK M \in Lives : Leads(L, r.notes, M) /\ M[Cmp(i)] = "done" /\ Alike(L, M, Cmp(i))
    BY <2>3
  <2>5. \A m \in IdsOf(u) : /\ M[Msg(m)] = L[Msg(m)] /\ M[Rsn(m)] = L[Rsn(m)]
                            /\ M[Tol(m)] = L[Tol(m)]
                            /\ m # i => M[Cmp(m)] = L[Cmp(m)]
    BY <2>4, AlikeCompaction
  <2>6. \A k \in DOMAIN Script[u] : k \in Nat /\ (k > p + 1 => k > p)
    BY ScriptFacts
  <2>7. ASSUME NEW m \in IdsOf(u), M[Cmp(m)] # "none",
               NEW j \in DOMAIN Script[u], j > p + 1, Script[u][j].kind = "compaction_start"
        PROVE  Script[u][j].id # m
    BY <2>1, <2>5, <2>6, <2>7 DEF Follows, Compacting
  <2>8. Compacting(r.state, M, u, p + 1)
    BY <2>2, <2>7 DEF Compacting
  <2>9. Follows(r.state, M, u, p + 1, S, C)
    BY <2>2, <2>5, <2>8, WritingStays, ThinkingStays, CallingStays DEF Follows
  <2> QED
    BY <2>3, <2>4, <2>9 DEF Answers
<1> QED
  BY <1>1, <1>2

\* Every event but the last of a run.
LEMMA TranslateAnswers ==
    ASSUME NEW u \in Turns, NEW p \in Nat, p + 1 \in DOMAIN Script[u], NEW L \in Lives,
           NEW s, NEW S, NEW C, Follows(s, L, u, p, S, C), p + 1 # Len(Script[u])
    PROVE  Answers(u, Pi!Translate(s, Script[u][p + 1]), L, p + 1, S, C)
<1> DEFINE e == Script[u][p + 1]
<1>1. e.kind \in Kinds \ {"agent_end"}
  BY ScriptFacts DEF Event
<1>2. CASE e.kind \in {"message_start", "text_delta", "text_end", "message_end"}
  BY <1>2, MessageStartAnswers, TextDeltaAnswers, TextEndAnswers, MessageEndAnswers
     DEF Pi!Translate
<1>3. CASE e.kind \in {"thinking_start", "thinking_delta", "thinking_end"}
  BY <1>3, ThinkingStartAnswers, ThinkingDeltaAnswers, ThinkingEndAnswers DEF Pi!Translate
<1>4. CASE e.kind \in {"bash_start", "tool_start", "tool_update", "tool_end"}
  BY <1>4, ToolStartAnswers, ToolUpdateAnswers, ToolEndAnswers DEF Pi!Translate
<1>5. CASE e.kind \in {"compaction_start", "compaction_end"}
  BY <1>5, CompactionStartAnswers, CompactionEndAnswers DEF Pi!Translate
<1> QED
  BY <1>1, <1>2, <1>3, <1>4, <1>5 DEF Kinds

\* The end of a run closes the message and the reasoning that are open; a pump
\* that missed nothing knows of no other, and if the run was not cut every tool
\* has ended.
LEMMA AgentEndCloses ==
    ASSUME NEW u \in Turns, NEW p \in Nat, NEW L \in Lives,
           NEW s, NEW S, NEW C, Follows(s, L, u, p, S, C),
           NEW r, r = Pi!AgentEnd(s)
    PROVE  /\ r.state \in State /\ r.notes \in Seq(NoteOf(u))
           /\ \E M \in Lives :
                 /\ Leads(L, r.notes, M)
                 /\ u \notin S => \A m \in IdsOf(u) :
                       M[Msg(m)] # "open" /\ (ThinkingEnds => M[Rsn(m)] # "open")
                 /\ u \notin S \cup C /\ p + 1 = Len(Script[u]) =>
                       \A t \in IdsOf(u) : M[Tol(t)] # "open"
<1> DEFINE a == IF s.started THEN Pi!Completed(Msg(s.message)) ELSE <<>>
           b == IF s.reasoning = None THEN <<>> ELSE Pi!Completed(Rsn(s.reasoning))
<1>1. s \in State
  BY DEF Follows
<1>2. r.state \in State /\ r.notes = a \o b
  BY <1>1 DEF Pi!AgentEnd, Pi!Gives, Pi!Closed, State, Msg, Rsn
<1>3. a \in Seq(NoteOf(u))
      /\ \E M \in Lives :
            /\ Leads(L, a, M)
            /\ \A m \in IdsOf(u) : M[Rsn(m)] = L[Rsn(m)] /\ M[Tol(m)] = L[Tol(m)]
            /\ u \notin S => \A m \in IdsOf(u) : M[Msg(m)] # "open"
  <2>1. CASE s.started
    <3>1. s.message \in IdsOf(u) /\ Msg(s.message) \in ItemsOf(u) /\ L[Msg(s.message)] = "open"
      BY <2>1, ItemsOfTurn DEF Follows, Writing
    <3>2. PICK M \in Lives : /\ Leads(L, a, M) /\ M[Msg(s.message)] = "done"
                             /\ Alike(L, M, Msg(s.message))
      BY <2>1, <3>1, CompletedNote
    <3>3. a \in Seq(NoteOf(u))
      BY <2>1, <3>1, CompletedNote
    <3>4. \A m \in IdsOf(u) : /\ M[Rsn(m)] = L[Rsn(m)] /\ M[Tol(m)] = L[Tol(m)]
                              /\ m # s.message => M[Msg(m)] = L[Msg(m)]
      BY <3>2, AlikeMessage
    <3>5. u \notin S => \A m \in IdsOf(u) : M[Msg(m)] # "open"
      BY <3>2, <3>4 DEF Follows, Writing
    <3> HIDE DEF a
    <3> QED
      BY <3>2, <3>3, <3>4, <3>5
  <2>2. CASE ~s.started
    <3>1. u \notin S => \A m \in IdsOf(u) : L[Msg(m)] # "open"
      BY <2>2, ScriptFacts DEF Follows, Writing
    <3>2. Leads(L, <<>>, L)
      BY LeadsNowhere
    <3> QED
      BY <2>2, <3>1, <3>2
  <2> QED
    BY <2>1, <2>2
<1>4. PICK M \in Lives :
        /\ Leads(L, a, M)
        /\ \A m \in IdsOf(u) : M[Rsn(m)] = L[Rsn(m)] /\ M[Tol(m)] = L[Tol(m)]
        /\ u \notin S => \A m \in IdsOf(u) : M[Msg(m)] # "open"
  BY <1>3
<1>5. b \in Seq(NoteOf(u))
      /\ \E N \in Lives :
            /\ Leads(M, b, N)
            /\ \A m \in IdsOf(u) : N[Msg(m)] = M[Msg(m)] /\ N[Tol(m)] = L[Tol(m)]
            /\ u \notin S /\ ThinkingEnds => \A m \in IdsOf(u) : N[Rsn(m)] # "open"
  <2>1. CASE s.reasoning # None
    <3>1. s.reasoning \in IdsOf(u) /\ Rsn(s.reasoning) \in ItemsOf(u)
          /\ M[Rsn(s.reasoning)] = "open"
      BY <1>4, <2>1, ItemsOfTurn DEF Follows, Thinking
    <3>2. PICK N \in Lives : /\ Leads(M, b, N) /\ N[Rsn(s.reasoning)] = "done"
                             /\ Alike(M, N, Rsn(s.reasoning))
      BY <2>1, <3>1, CompletedNote
    <3>3. b \in Seq(NoteOf(u))
      BY <2>1, <3>1, CompletedNote
    <3>4. \A m \in IdsOf(u) : /\ N[Msg(m)] = M[Msg(m)] /\ N[Tol(m)] = L[Tol(m)]
                              /\ m # s.reasoning => N[Rsn(m)] = L[Rsn(m)]
      BY <1>4, <3>2, AlikeReasoning
    <3>5. u \notin S /\ ThinkingEnds => \A m \in IdsOf(u) : N[Rsn(m)] # "open"
      BY <3>2, <3>4 DEF Follows, Thinking
    <3> HIDE DEF b
    <3> QED
      BY <3>2, <3>3, <3>4, <3>5
  <2>2. CASE s.reasoning = None
    <3>1. u \notin S /\ ThinkingEnds => \A m \in IdsOf(u) : M[Rsn(m)] # "open"
      BY <1>4, <2>2, ScriptFacts DEF Follows, Thinking
    <3>2. Leads(M, <<>>, M)
      BY LeadsNowhere
    <3> QED
      BY <1>4, <2>2, <3>1, <3>2
  <2> QED
    BY <2>1, <2>2
<1>6. PICK N \in Lives :
        /\ Leads(M, b, N)
        /\ \A m \in IdsOf(u) : N[Msg(m)] = M[Msg(m)] /\ N[Tol(m)] = L[Tol(m)]
        /\ u \notin S /\ ThinkingEnds => \A m \in IdsOf(u) : N[Rsn(m)] # "open"
  BY <1>5
<1>7. r.notes \in Seq(NoteOf(u)) /\ Leads(L, r.notes, N)
  <2> HIDE DEF a, b
  <2> QED
    BY <1>2, <1>3, <1>4, <1>5, <1>6, LeadsOn
<1>8. ASSUME u \notin S \cup C, p + 1 = Len(Script[u]), NEW t \in IdsOf(u)
      PROVE  L[Tol(t)] # "open"
  <2> SUFFICES ASSUME L[Tol(t)] = "open" PROVE FALSE
    OBVIOUS
  <2>1. t \in s.tools
    BY DEF Follows, Calling
  <2>2. PICK k \in DOMAIN Script[u] :
          /\ k <= p /\ ToolStarts(Script[u][k]) /\ Script[u][k].id = t
          /\ \A j \in k .. p : ~(Script[u][j].kind = "tool_end" /\ Script[u][j].id = t)
    BY <1>8, <2>1 DEF Follows, Calling
  <2>3. PICK j \in DOMAIN Script[u] :
          k < j /\ Script[u][j].kind = "tool_end" /\ Script[u][j].id = t
    BY <2>2, PiRunAssumption DEF Regular
  <2>4. j # Len(Script[u])
    BY <2>3, ScriptFacts
  <2>5. j \in k .. p
    BY <1>8, <2>2, <2>3, <2>4, ScriptFacts
  <2> QED
    BY <2>2, <2>3, <2>5
<1> QED
  BY <1>2, <1>4, <1>6, <1>7, <1>8

-----------------------------------------------------------------------------
(* Where a pump is in the run.                                             *)

\* The queue q of turn u is a part of the run after event o, in its order.  Pi
\* works on turn w and is to emit its event n.  Without a lag nothing is missing
\* between o and n, but for the end of a run that was cut.
Lined(u, o, q, S, C, w, n) ==
    \E g \in [DOMAIN q -> o + 1 .. Len(Script[u])] :
        /\ \A i, j \in DOMAIN q : i < j => g[i] < g[j]
        /\ \A i \in DOMAIN q : Script[u][g[i]] = q[i]
        /\ w = u => o < n /\ \A i \in DOMAIN q : g[i] < n
        /\ u \notin S =>
              /\ \A i \in DOMAIN q : g[i] = o + i \/ (u \in C /\ g[i] = Len(Script[u]))
              /\ w = u => n = o + Len(q) + 1

LEMMA LinedAtStart ==
    ASSUME NEW u \in Turns, NEW S, NEW C
    PROVE  Lined(u, 0, <<>>, S, C, u, 1)
<1> DEFINE g == [i \in {} |-> 1]
           q == <<>>
<1>1. DOMAIN q = {} /\ Len(q) = 0
  OBVIOUS
<1>2. g \in [{} -> 0 + 1 .. Len(Script[u])]
  OBVIOUS
<1>3. 0 < 1 /\ 1 = 0 + 0 + 1
  OBVIOUS
<1> HIDE DEF g, q
<1>4. Lined(u, 0, q, S, C, u, 1)
  BY <1>1, <1>2, <1>3 DEF Lined
<1> QED
  BY <1>4 DEF q

LEMMA LinedLess ==
    ASSUME NEW u, NEW o, NEW q, NEW S, NEW C, NEW T, NEW D, NEW w, NEW n, NEW v, NEW k,
           u \in S => u \in T, u \in C => u \in D, (v = w /\ k = n) \/ v # u,
           Lined(u, o, q, S, C, w, n)
    PROVE  Lined(u, o, q, T, D, v, k)
BY DEF Lined

\* Pi emits the next event, or the last of a run that was cut.
LEMMA LinedEmitted ==
    ASSUME NEW u \in Turns, NEW o \in Nat, NEW q \in Seq(Event), NEW S, NEW C,
           NEW n \in DOMAIN Script[u], NEW k \in n .. Len(Script[u]),
           Lined(u, o, q, S, C, u, n),
           k = n \/ (u \in C /\ k = Len(Script[u]))
    PROVE  /\ k < Len(Script[u]) => Lined(u, o, Append(q, Script[u][k]), S, C, u, k + 1)
           /\ \A v, i : v # u => Lined(u, o, Append(q, Script[u][k]), S, C, v, i)
<1> DEFINE l == Len(q)
           r == Append(q, Script[u][k])
           N == Len(Script[u])
<1>1. PICK g \in [DOMAIN q -> o + 1 .. N] :
        /\ \A i, j \in DOMAIN q : i < j => g[i] < g[j]
        /\ \A i \in DOMAIN q : Script[u][g[i]] = q[i]
        /\ o < n /\ \A i \in DOMAIN q : g[i] < n
        /\ u \notin S =>
              /\ \A i \in DOMAIN q : g[i] = o + i \/ (u \in C /\ g[i] = N)
              /\ n = o + Len(q) + 1
  BY DEF Lined
<1>2. /\ l \in Nat /\ N \in Nat /\ DOMAIN q = 1 .. l /\ DOMAIN Script[u] = 1 .. N
      /\ Script[u][k] \in Event
      /\ DOMAIN r = 1 .. l + 1 /\ Len(r) = l + 1
      /\ \A i \in 1 .. l : r[i] = q[i]
      /\ r[l + 1] = Script[u][k]
  BY ScriptFacts
<1> DEFINE h == [i \in 1 .. l + 1 |-> IF i <= l THEN g[i] ELSE k]
<1>3. h \in [1 .. l + 1 -> o + 1 .. N] /\ h[l + 1] = k /\ \A i \in 1 .. l : h[i] = g[i]
  <2>1. k \in o + 1 .. N
    BY <1>1, <1>2
  <2>2. \A i \in 1 .. l + 1 : i <= l => g[i] \in o + 1 .. N
    BY <1>2
  <2> QED
    BY <1>2, <2>1, <2>2
<1> HIDE DEF h
<1>4. \A i \in 1 .. l + 1 : i \in 1 .. l \/ i = l + 1
  BY <1>2
<1>5. \A i, j \in 1 .. l + 1 : i < j => h[i] < h[j]
  <2> SUFFICES ASSUME NEW i \in 1 .. l + 1, NEW j \in 1 .. l + 1, i < j PROVE h[i] < h[j]
    OBVIOUS
  <2>1. i \in 1 .. l
    BY <1>2
  <2>2. CASE j \in 1 .. l
    BY <1>1, <1>2, <1>3, <2>1, <2>2
  <2>3. CASE j = l + 1
    <3>1. h[i] = g[i] /\ h[j] = k /\ g[i] < n /\ g[i] \in Nat /\ n \in Nat /\ k \in Nat /\ n <= k
      BY <1>1, <1>2, <1>3, <2>1, <2>3
    <3> QED
      BY <3>1
  <2> QED
    BY <1>4, <2>2, <2>3
<1>6. \A i \in 1 .. l + 1 : Script[u][h[i]] = r[i]
  BY <1>1, <1>2, <1>3, <1>4
<1>7. u \notin S => \A i \in 1 .. l + 1 : h[i] = o + i \/ (u \in C /\ h[i] = N)
  <2> SUFFICES ASSUME u \notin S, NEW i \in 1 .. l + 1
               PROVE  h[i] = o + i \/ (u \in C /\ h[i] = N)
    OBVIOUS
  <2>1. CASE i \in 1 .. l
    BY <1>1, <1>2, <1>3, <2>1
  <2>2. CASE i = l + 1
    <3>1. n = o + l + 1
      BY <1>1
    <3> QED
      BY <1>2, <1>3, <2>2, <3>1
  <2> QED
    BY <1>4, <2>1, <2>2
<1>8. ASSUME k < N PROVE k + 1 > o /\ (\A i \in 1 .. l + 1 : h[i] < k + 1)
                         /\ (u \notin S => k + 1 = o + (l + 1) + 1)
  <2>1. k = n
    BY <1>2, <1>8
  <2>2. \A i \in 1 .. l + 1 : h[i] < k + 1
    <3>1. \A i \in 1 .. l : h[i] < n /\ h[i] \in Nat
      BY <1>1, <1>2, <1>3
    <3> QED
      BY <1>2, <1>3, <1>4, <2>1, <3>1
  <2>3. u \notin S => k + 1 = o + (l + 1) + 1
    BY <1>1, <1>2, <2>1
  <2> QED
    BY <1>1, <1>2, <2>1, <2>2, <2>3
<1> HIDE DEF r
<1>9. /\ h \in [DOMAIN r -> o + 1 .. Len(Script[u])]
      /\ \A i, j \in DOMAIN r : i < j => h[i] < h[j]
      /\ \A i \in DOMAIN r : Script[u][h[i]] = r[i]
      /\ u \notin S => \A i \in DOMAIN r : h[i] = o + i \/ (u \in C /\ h[i] = Len(Script[u]))
  BY <1>2, <1>3, <1>5, <1>6, <1>7
<1>10. ASSUME k < N PROVE Lined(u, o, r, S, C, u, k + 1)
  <2>1. /\ o < k + 1 /\ \A i \in DOMAIN r : h[i] < k + 1
        /\ u \notin S => k + 1 = o + Len(r) + 1
    BY <1>1, <1>2, <1>8, <1>10
  <2> QED
    BY <1>9, <2>1 DEF Lined
<1>11. ASSUME NEW v, NEW i, v # u PROVE Lined(u, o, r, S, C, v, i)
  BY <1>9, <1>11 DEF Lined
<1> QED
  BY <1>10, <1>11 DEF r

\* The first event of the queue: what is left follows it.
LEMMA LinedReceived ==
    ASSUME NEW u \in Turns, NEW o \in Nat, NEW q \in Seq(Event), q # <<>>, NEW S, NEW C,
           NEW w, NEW n, w = u => n \in DOMAIN Script[u],
           Lined(u, o, q, S, C, w, n)
    PROVE  \E k \in o + 1 .. Len(Script[u]) :
               /\ Script[u][k] = Head(q)
               /\ u \notin S => k = o + 1 \/ (u \in C /\ k = Len(Script[u]))
               /\ Lined(u, k, Tail(q), S, C, w, n)
               /\ k = Len(Script[u]) => w # u /\ Tail(q) = <<>>
<1> DEFINE l == Len(q)
           r == Tail(q)
           N == Len(Script[u])
<1>1. PICK g \in [DOMAIN q -> o + 1 .. N] :
        /\ \A i, j \in DOMAIN q : i < j => g[i] < g[j]
        /\ \A i \in DOMAIN q : Script[u][g[i]] = q[i]
        /\ w = u => o < n /\ \A i \in DOMAIN q : g[i] < n
        /\ u \notin S =>
              /\ \A i \in DOMAIN q : g[i] = o + i \/ (u \in C /\ g[i] = N)
              /\ w = u => n = o + Len(q) + 1
  BY DEF Lined
<1>2. /\ l \in Nat \ {0} /\ N \in Nat /\ DOMAIN q = 1 .. l /\ DOMAIN Script[u] = 1 .. N
      /\ Head(q) = q[1] /\ r \in Seq(Event) /\ DOMAIN r = 1 .. l - 1 /\ Len(r) = l - 1
      /\ \A i \in 1 .. l - 1 : r[i] = q[i + 1]
  BY ScriptFacts
<1> DEFINE k == g[1]
           h == [i \in 1 .. l - 1 |-> g[i + 1]]
<1>3. k \in o + 1 .. N /\ Script[u][k] = Head(q)
      /\ (u \notin S => k = o + 1 \/ (u \in C /\ k = N))
  BY <1>1, <1>2
<1>4. \A i \in 1 .. l - 1 : /\ i + 1 \in 1 .. l /\ 1 < i + 1 /\ g[i + 1] \in o + 1 .. N
                            /\ k < g[i + 1]
  BY <1>1, <1>2
<1>5. h \in [1 .. l - 1 -> k + 1 .. N] /\ \A i \in 1 .. l - 1 : h[i] = g[i + 1]
  <2>1. \A i \in 1 .. l - 1 : g[i + 1] \in k + 1 .. N
    BY <1>2, <1>3, <1>4
  <2> QED
    BY <2>1
<1>6. k = N => w # u /\ l = 1
  <2>1. ASSUME k = N PROVE w # u
    <3>1. w = u => k < n /\ n \in 1 .. N
      BY <1>1, <1>2
    <3> QED
      BY <1>2, <2>1, <3>1
  <2>2. ASSUME k = N, l # 1 PROVE FALSE
    <3>1. 1 \in 1 .. l - 1
      BY <1>2, <2>2
    <3>2. g[1 + 1] \in o + 1 .. N /\ k < g[1 + 1]
      BY <1>4, <3>1
    <3> QED
      BY <1>2, <2>2, <3>2
  <2> QED
    BY <2>1, <2>2
<1> HIDE DEF h
<1>7. \A i, j \in 1 .. l - 1 : i < j => h[i] < h[j]
  <2> SUFFICES ASSUME NEW i \in 1 .. l - 1, NEW j \in 1 .. l - 1, i < j PROVE h[i] < h[j]
    OBVIOUS
  <2>1. i + 1 \in 1 .. l /\ j + 1 \in 1 .. l /\ i + 1 < j + 1
    BY <1>2
  <2>2. g[i + 1] < g[j + 1]
    BY <1>1, <1>2, <2>1
  <2> QED
    BY <1>5, <2>2
<1>8. \A i \in 1 .. l - 1 : Script[u][h[i]] = r[i]
  BY <1>1, <1>2, <1>4, <1>5
<1>9. ASSUME w = u PROVE k < n /\ \A i \in 1 .. l - 1 : h[i] < n
  <2>1. \A i \in 1 .. l : g[i] < n
    BY <1>1, <1>2, <1>9
  <2> QED
    BY <1>2, <1>4, <1>5, <2>1
<1>10. ASSUME u \notin S
       PROVE  /\ \A i \in 1 .. l - 1 : h[i] = k + i \/ (u \in C /\ h[i] = N)
              /\ w = u => n = k + (l - 1) + 1
  <2>1. CASE k = o + 1
    <3>1. \A i \in 1 .. l - 1 : h[i] = k + i \/ (u \in C /\ h[i] = N)
      <4> SUFFICES ASSUME NEW i \in 1 .. l - 1 PROVE h[i] = k + i \/ (u \in C /\ h[i] = N)
        OBVIOUS
      <4>1. g[i + 1] = o + (i + 1) \/ (u \in C /\ g[i + 1] = N)
        BY <1>1, <1>2, <1>4, <1>10
      <4>2. o + (i + 1) = k + i
        BY <2>1
      <4> QED
        BY <1>5, <4>1, <4>2
    <3>2. w = u => n = k + (l - 1) + 1
      BY <1>1, <1>2, <1>10, <2>1
    <3> QED
      BY <3>1, <3>2
  <2>2. CASE k = N
    <3>1. w # u /\ l = 1
      BY <1>6, <2>2
    <3> HIDE DEF k, N, l
    <3>2. \A i \in 1 .. l - 1 : FALSE
      BY <3>1
    <3> QED
      BY <3>1, <3>2
  <2> QED
    BY <1>3, <1>10, <2>1, <2>2
<1> HIDE DEF r, N, k
<1>11. Lined(u, k, r, S, C, w, n)
  <2>1. DOMAIN r = 1 .. l - 1 /\ Len(r) = l - 1
    BY <1>2
  <2>2. /\ h \in [DOMAIN r -> k + 1 .. Len(Script[u])]
        /\ \A i, j \in DOMAIN r : i < j => h[i] < h[j]
        /\ \A i \in DOMAIN r : Script[u][h[i]] = r[i]
    BY <1>5, <1>7, <1>8, <2>1 DEF N
  <2>3. /\ w = u => k < n /\ \A i \in DOMAIN r : h[i] < n
        /\ u \notin S =>
              /\ \A i \in DOMAIN r : h[i] = k + i \/ (u \in C /\ h[i] = Len(Script[u]))
              /\ w = u => n = k + Len(r) + 1
    BY <1>9, <1>10, <2>1 DEF N
  <2> QED
    BY <2>2, <2>3 DEF Lined
<1>12. k = N => r = <<>>
  BY <1>2, <1>6
<1> QED
  BY <1>3, <1>6, <1>11, <1>12 DEF r, N

\* A lag drops a prefix of the queue.
LEMMA LinedLagged ==
    ASSUME NEW u \in Turns, NEW o \in Nat, NEW q \in Seq(Event), NEW d \in 1 .. Len(q),
           NEW S, NEW T, u \in T, NEW C, NEW w, NEW n,
           Lined(u, o, q, S, C, w, n)
    PROVE  Lined(u, o, SubSeq(q, d, Len(q)), T, C, w, n)
<1> DEFINE l == Len(q)
           r == SubSeq(q, d, l)
           N == Len(Script[u])
           e == l - d + 1
<1>1. PICK g \in [DOMAIN q -> o + 1 .. N] :
        /\ \A i, j \in DOMAIN q : i < j => g[i] < g[j]
        /\ \A i \in DOMAIN q : Script[u][g[i]] = q[i]
        /\ w = u => o < n /\ \A i \in DOMAIN q : g[i] < n
  BY DEF Lined
<1>2. /\ l \in Nat /\ N \in Nat /\ DOMAIN q = 1 .. l /\ e \in Nat
      /\ DOMAIN r = 1 .. e
      /\ \A i \in 1 .. e : r[i] = q[i + d - 1] /\ i + d - 1 \in 1 .. l
  BY ScriptFacts
<1> DEFINE h == [i \in 1 .. e |-> g[i + d - 1]]
<1>3. h \in [1 .. e -> o + 1 .. N] /\ \A i \in 1 .. e : h[i] = g[i + d - 1]
  BY <1>2
<1> HIDE DEF h
<1>4. \A i, j \in 1 .. e : i < j => h[i] < h[j]
  <2> SUFFICES ASSUME NEW i \in 1 .. e, NEW j \in 1 .. e, i < j PROVE h[i] < h[j]
    OBVIOUS
  <2>1. i + d - 1 < j + d - 1 /\ i + d - 1 \in 1 .. l /\ j + d - 1 \in 1 .. l
    BY <1>2
  <2>2. g[i + d - 1] < g[j + d - 1]
    BY <1>1, <1>2, <2>1
  <2> QED
    BY <1>3, <2>2
<1>5. \A i \in 1 .. e : Script[u][h[i]] = r[i]
  BY <1>1, <1>2, <1>3
<1>6. w = u => o < n /\ \A i \in 1 .. e : h[i] < n
  BY <1>1, <1>2, <1>3
<1> HIDE DEF r, e, N
<1> QED
  BY <1>2, <1>3, <1>4, <1>5, <1>6 DEF Lined, r, N

-----------------------------------------------------------------------------
(* The inductive invariant.                                                *)

Before == {"new", "indexing", "indexed", "registered", "announced", "prompting",
           "refused", "unwinding"}
Running == {"accepted", "pumping", "asking", "aborting"}
Ended == {"finishing", "emitted", "cleared", "done"}

PiTypes ==
    /\ stage \in [Turns -> Stages]
    /\ slot \in Turns \cup {None} /\ busy \in BOOLEAN /\ alive \in BOOLEAN
    /\ working \in Turns \cup {None} /\ position \in Nat
    /\ cut \subseteq Turns /\ skipped \subseteq Turns
    /\ queue \in [Turns -> Seq(Event)]
    /\ held \in [Turns -> Event \cup {None}]
    /\ translator \in [Turns -> State]
    /\ out = [u \in Turns |-> out[u]]
    /\ interrupt \in [Turns -> {"none", "checked", "sent"}]
    /\ life \in Lives

\* The client waits for a turn before it starts the next, and pi works for it.
OneAtATime ==
    /\ \A u, w \in Turns : ~Over(u) /\ ~Over(w) => u = w
    /\ IF working = None THEN position = 1
       ELSE stage[working] \in Running /\ alive /\ position \in DOMAIN Script[working]

\* The event a pump holds is the next of the run, and the queue what follows.
Placed(u, p) ==
    /\ held[u] # None =>
          /\ p + 1 \in DOMAIN Script[u]
          /\ held[u] = Script[u][p + 1] /\ held[u].kind = "bash_start"
    /\ Lined(u, IF held[u] = None THEN p ELSE p + 1, queue[u], skipped, cut, working, position)

ClosedOff(u, M) ==
    \A m \in IdsOf(u) :
        /\ M[Msg(m)] # "open"
        /\ ThinkingEnds => M[Rsn(m)] # "open"
        /\ u \notin cut => M[Tol(m)] # "open"

\* What the client will know of a turn when its pump has sent what it has to.
Hears(u, M) ==
    /\ stage[u] \in Before => translator[u] = Pi!Fresh /\ \A i \in ItemsOf(u) : M[i] = "none"
    /\ stage[u] \in Running =>
          \E p \in 0 .. Len(Script[u]) :
              Follows(translator[u], M, u, p, skipped, cut) /\ Placed(u, p)
    /\ stage[u] \in Ended /\ u \notin skipped => ClosedOff(u, M)

Talks(u) ==
    /\ out[u] \in Seq(NoteOf(u))
    /\ stage[u] \notin {"pumping", "finishing"} => out[u] = <<>>
    /\ held[u] # None <=> stage[u] \in {"asking", "aborting"}
    /\ stage[u] \notin Running \cup {"finishing", "stuck"} => queue[u] = <<>>
    /\ \E M \in Lives : Leads(life, out[u], M) /\ Hears(u, M)

PiInv == PiTypes /\ OneAtATime /\ \A u \in Turns : Talks(u)

-----------------------------------------------------------------------------
LEMMA LeadsNowhereElse ==
    ASSUME NEW L, NEW M, Leads(L, <<>>, M)
    PROVE  M = L
BY DEF Leads

LEMMA AllDisjoint ==
    ASSUME NEW u \in Turns, NEW w \in Turns, u # w
    PROVE  ItemsOf(u) \cap ItemsOf(w) = {}
<1> SUFFICES ASSUME NEW i \in ItemsOf(u), i \in ItemsOf(w) PROVE FALSE
  OBVIOUS
<1>1. i[2] \in IdsOf(u) /\ i[2] \in IdsOf(w)
  BY DEF ItemsOf
<1>2. PICK j \in DOMAIN Script[u], k \in DOMAIN Script[w] : Script[u][j].id = Script[w][k].id
  BY <1>1 DEF IdsOf
<1> QED
  BY <1>2, PiRunAssumption

LEMMA FreshFollows ==
    ASSUME NEW u \in Turns, NEW M, NEW S, NEW C, \A i \in ItemsOf(u) : M[i] = "none"
    PROVE  Follows(Pi!Fresh, M, u, 0, S, C)
<1> DEFINE s == Pi!Fresh
<1>1. /\ s \in State /\ s.message = None /\ ~s.started /\ ~s.saw /\ s.reasoning = None
      /\ s.tools = {} /\ s.compaction = None
  BY DEF Pi!Fresh, State
<1>2. \A m \in IdsOf(u) : /\ M[Msg(m)] = "none" /\ M[Rsn(m)] = "none"
                          /\ M[Tol(m)] = "none" /\ M[Cmp(m)] = "none"
  BY ItemsOfTurn
<1> HIDE DEF s
<1>3. Follows(s, M, u, 0, S, C)
  BY <1>1, <1>2 DEF Follows, Writing, Thinking, Calling, Compacting
<1> QED
  BY <1>3 DEF s

LEMMA InitTalks == Init => PiInv
<1> SUFFICES ASSUME Init PROVE PiInv
  OBVIOUS
<1>1. life \in Lives /\ \A i \in Items : life[i] = "none"
  BY DEF Init, Stream!Init, Lives, Stream!Lives
<1>2. PiTypes
  <2>1. Pi!Fresh \in State
    BY DEF Pi!Fresh, State
  <2>2. stage \in [Turns -> Stages] /\ translator \in [Turns -> State]
        /\ queue \in [Turns -> Seq(Event)]
    BY <2>1 DEF Init, Stages
  <2>3. held \in [Turns -> Event \cup {None}] /\ out = [u \in Turns |-> out[u]]
        /\ interrupt \in [Turns -> {"none", "checked", "sent"}]
    BY DEF Init
  <2> QED
    BY <1>1, <2>2, <2>3 DEF Init, PiTypes
<1>3. OneAtATime
  BY DEF Init, OneAtATime, Over
<1>4. ASSUME NEW u \in Turns PROVE Talks(u)
  <2>1. stage[u] = "new" /\ out[u] = <<>> /\ held[u] = None /\ queue[u] = <<>>
        /\ translator[u] = Pi!Fresh
    BY DEF Init
  <2>2. \A i \in ItemsOf(u) : life[i] = "none"
    BY <1>1, ScriptFacts
  <2>3. Hears(u, life)
    BY <2>1, <2>2 DEF Hears, Running, Ended
  <2>4. Leads(life, <<>>, life)
    BY <1>1, LeadsNowhere
  <2> QED
    BY <1>1, <2>1, <2>3, <2>4 DEF Talks, Running
<1> QED
  BY <1>2, <1>3, <1>4 DEF PiInv

-----------------------------------------------------------------------------
(* Turns a step leaves alone.                                              *)

Untouched(w) ==
    /\ stage'[w] = stage[w] /\ queue'[w] = queue[w] /\ held'[w] = held[w]
    /\ translator'[w] = translator[w] /\ out'[w] = out[w]
    /\ w \in skipped' <=> w \in skipped
    /\ w \in cut => w \in cut'

LEMMA UntouchedTalks ==
    ASSUME NEW w \in Turns, Talks(w), Untouched(w), life' = life,
           (working' = working /\ position' = position) \/ working' # w
    PROVE  Talks(w)'
<1>1. PICK M \in Lives : Leads(life, out[w], M) /\ Hears(w, M)
  BY DEF Talks
<1>2. Hears(w, M)'
  <2>1. (stage[w] \in Before => translator[w] = Pi!Fresh /\ \A i \in ItemsOf(w) : M[i] = "none")'
    BY <1>1 DEF Hears, Untouched
  <2>2. ASSUME stage'[w] \in Running
        PROVE  \E p \in 0 .. Len(Script[w]) :
                   (Follows(translator[w], M, w, p, skipped, cut) /\ Placed(w, p))'
    <3>1. PICK p \in 0 .. Len(Script[w]) :
            Follows(translator[w], M, w, p, skipped, cut) /\ Placed(w, p)
      BY <1>1, <2>2 DEF Hears, Untouched
    <3>2. Follows(translator[w], M, w, p, skipped, cut)'
      BY <3>1, FollowsLess DEF Untouched
    <3>3. Placed(w, p)'
      <4> DEFINE o == IF held[w] = None THEN p ELSE p + 1
      <4>1. Lined(w, o, queue[w], skipped, cut, working, position)
        BY <3>1 DEF Placed
      <4> HIDE DEF o
      <4>2. Lined(w, o, queue[w], skipped', cut', working', position')
        BY <4>1, LinedLess DEF Untouched
      <4> QED
        BY <3>1, <4>2 DEF Placed, Untouched, o
    <3> QED
      BY <3>2, <3>3
  <2>3. (stage[w] \in Ended /\ w \notin skipped => ClosedOff(w, M))'
    BY <1>1 DEF Hears, Untouched, ClosedOff
  <2> QED
    BY <2>1, <2>2, <2>3 DEF Hears
<1>3. Leads(life', out'[w], M)
  BY <1>1 DEF Untouched
<1> QED
  BY <1>2, <1>3 DEF Talks, Untouched

\* A turn that is over, while another's items change.
LEMMA OverTalks ==
    ASSUME NEW w \in Turns, Talks(w), Untouched(w), Over(w), life' \in Lives,
           \A i \in ItemsOf(w) : life'[i] = life[i]
    PROVE  Talks(w)'
<1>1. stage[w] \in {"new", "emitted", "cleared", "done", "abandoned"}
  BY DEF Over
<1>2. out[w] = <<>> /\ out'[w] = <<>>
  BY <1>1 DEF Talks, Untouched
<1>3. Hears(w, life)
  BY <1>2, LeadsNowhereElse DEF Talks
<1>4. \A m \in IdsOf(w) : life'[Msg(m)] = life[Msg(m)] /\ life'[Rsn(m)] = life[Rsn(m)]
                          /\ life'[Tol(m)] = life[Tol(m)]
  BY ItemsOfTurn
<1>5. Hears(w, life)'
  <2>1. (stage[w] \in Before =>
           translator[w] = Pi!Fresh /\ \A i \in ItemsOf(w) : life[i] = "none")'
    BY <1>3 DEF Hears, Untouched
  <2>2. stage'[w] \notin Running
    BY <1>1 DEF Untouched, Running
  <2>3. (stage[w] \in Ended /\ w \notin skipped => ClosedOff(w, life))'
    BY <1>3, <1>4 DEF Hears, Untouched, ClosedOff
  <2> QED
    BY <2>1, <2>2, <2>3 DEF Hears
<1>6. Leads(life', out'[w], life')
  BY <1>2, LeadsNowhere
<1> QED
  BY <1>5, <1>6 DEF Talks, Untouched

\* A turn that goes on from one stage to the next, with nothing else changed.
GoesOn(t, n) ==
    \/ t \in Before /\ n \in (Before \cup Ended \cup {"abandoned", "stuck"}) \ {"finishing"}
    \/ t = "accepted" /\ n = "pumping"
    \/ t \in {"emitted", "cleared"} /\ n \in {"cleared", "done"}

LEMMA GoingOnTalks ==
    ASSUME PiTypes, NEW u \in Turns, Talks(u), stage'[u] \in Stages, GoesOn(stage[u], stage'[u]),
           UNCHANGED <<queue, held, translator, out, skipped, cut, life, working, position>>
    PROVE  Talks(u)'
<1> USE DEF Before, Ended, Running, GoesOn
<1>1. PICK M \in Lives : Leads(life, out[u], M) /\ Hears(u, M)
  BY DEF Talks
<1>2. Hears(u, M)'
  <2>1. CASE stage[u] \in Before
    <3>1. translator'[u] = Pi!Fresh /\ \A i \in ItemsOf(u) : M[i] = "none"
      BY <1>1, <2>1 DEF Hears
    <3>2. \A m \in IdsOf(u) : M[Msg(m)] = "none" /\ M[Rsn(m)] = "none" /\ M[Tol(m)] = "none"
      BY <3>1, ItemsOfTurn
    <3>3. ClosedOff(u, M)'
      BY <3>2 DEF ClosedOff
    <3>4. stage'[u] \notin Running
      BY <2>1
    <3> QED
      BY <3>1, <3>3, <3>4 DEF Hears
  <2>2. CASE stage[u] = "accepted"
    <3>1. PICK p \in 0 .. Len(Script[u]) :
            Follows(translator[u], M, u, p, skipped, cut) /\ Placed(u, p)
      BY <1>1, <2>2 DEF Hears
    <3>2. (Follows(translator[u], M, u, p, skipped, cut) /\ Placed(u, p))'
      BY <3>1 DEF Placed
    <3>3. stage'[u] = "pumping"
      BY <2>2
    <3> QED
      BY <3>2, <3>3 DEF Hears
  <2>3. CASE stage[u] \in {"emitted", "cleared"}
    <3>1. u \notin skipped => ClosedOff(u, M)
      BY <1>1, <2>3 DEF Hears
    <3>2. (u \notin skipped => ClosedOff(u, M))'
      BY <3>1 DEF ClosedOff
    <3> QED
      BY <2>3, <3>2 DEF Hears
  <2> QED
    BY <2>1, <2>2, <2>3
<1>3. Leads(life', out'[u], M)
  BY <1>1
<1>4. /\ out'[u] \in Seq(NoteOf(u))
      /\ stage'[u] \notin {"pumping", "finishing"} => out'[u] = <<>>
      /\ held'[u] # None <=> stage'[u] \in {"asking", "aborting"}
      /\ stage'[u] \notin Running \cup {"finishing", "stuck"} => queue'[u] = <<>>
  BY DEF Talks
<1> QED
  BY <1>2, <1>3, <1>4 DEF Talks

-----------------------------------------------------------------------------
(* Steps that only move a turn on.                                         *)

LEMMA OthersAreOver ==
    ASSUME OneAtATime, NEW u \in Turns, ~Over(u), NEW w \in Turns, w # u
    PROVE  Over(w) /\ working # w
<1>1. Over(w)
  BY DEF OneAtATime
<1>2. working = w => FALSE
  BY <1>1, PiTurnAssumption DEF OneAtATime, Over, Running
<1> QED
  BY <1>1, <1>2

\* A turn that is over stays over; one that starts is the only one that is not.
LEMMA StageKeepsOne ==
    ASSUME PiTypes, OneAtATime, NEW u \in Turns, NEW n \in Stages, StageTo(u, n),
           \/ ~Over(u)
           \/ \A w \in Turns : Over(w)
           \/ n \in {"emitted", "cleared", "done"},
           \/ UNCHANGED <<working, alive, position>> /\ (working = u => n \in Running)
           \/ UNCHANGED <<alive, position>> /\ working = None /\ working' = u /\ alive
              /\ n \in Running
    PROVE  OneAtATime'
<1>1. stage'[u] = n /\ \A w \in Turns : w # u => stage'[w] = stage[w]
  BY DEF StageTo, PiTypes
<1>2. \A w \in Turns : w # u => (Over(w)' <=> Over(w))
  BY <1>1 DEF Over
<1>3. \A w, v \in Turns : ~Over(w)' /\ ~Over(v)' => w = v
  <2>1. CASE n \in {"emitted", "cleared", "done"}
    <3>1. Over(u)'
      BY <1>1, <2>1 DEF Over
    <3> QED
      BY <1>2, <3>1 DEF OneAtATime
  <2>2. CASE \A w \in Turns : w # u => Over(w)
    BY <1>2, <2>2
  <2> QED
    BY <2>1, <2>2 DEF OneAtATime
<1>4. IF working' = None THEN position' = 1
      ELSE stage'[working'] \in Running /\ alive' /\ position' \in DOMAIN Script[working']
  <2>1. CASE UNCHANGED <<working, alive, position>> /\ (working = u => n \in Running)
    BY <1>1, <2>1 DEF OneAtATime, PiTypes
  <2>2. CASE /\ UNCHANGED <<alive, position>> /\ working = None /\ working' = u
             /\ alive /\ n \in Running
    <3>1. position' = 1 /\ 1 \in DOMAIN Script[u]
      BY <2>2, ScriptFacts DEF OneAtATime
    <3> QED
      BY <1>1, <2>2, <3>1
  <2> QED
    BY <2>1, <2>2
<1> QED
  BY <1>3, <1>4 DEF OneAtATime

LEMMA StageKeepsTypes ==
    ASSUME PiTypes, NEW u \in Turns, NEW n \in Stages, StageTo(u, n)
    PROVE  stage' \in [Turns -> Stages] /\ stage'[u] = n
           /\ \A w \in Turns : w # u => stage'[w] = stage[w]
BY DEF StageTo, PiTypes

\* One lemma for the handler's steps, the end of a pump and what follows it.
LEMMA GoingOnKeepsInv ==
    ASSUME PiInv, NEW u \in Turns, NEW n \in Stages, StageTo(u, n), GoesOn(stage[u], n),
           \/ ~Over(u)
           \/ \A w \in Turns : Over(w)
           \/ n \in {"emitted", "cleared", "done"},
           slot' \in {slot, u, None}, busy' \in BOOLEAN,
           UNCHANGED <<piVars, pumpVars, interrupt, life>>
    PROVE  PiInv'
<1> USE DEF piVars, pumpVars
<1>1. stage' \in [Turns -> Stages] /\ stage'[u] = n
      /\ \A w \in Turns : w # u => stage'[w] = stage[w]
  BY StageKeepsTypes DEF PiInv
<1>2. PiTypes'
  BY <1>1 DEF PiInv, PiTypes
<1>3. OneAtATime'
  <2>1. working = u => n \in Running
    <3>1. working = u => stage[u] \in Running
      BY PiTurnAssumption DEF PiInv, OneAtATime
    <3> QED
      BY <3>1 DEF Running, GoesOn, Before
  <2> QED
    BY <2>1, StageKeepsOne DEF PiInv
<1>4. Talks(u)'
  BY <1>1, GoingOnTalks DEF PiInv
<1>5. ASSUME NEW w \in Turns, w # u PROVE Talks(w)'
  <2>1. Untouched(w)
    BY <1>1, <1>5 DEF Untouched
  <2> QED
    BY <2>1, UntouchedTalks DEF PiInv
<1> QED
  BY <1>2, <1>3, <1>4, <1>5 DEF PiInv

LEMMA HandlerKeepsInv ==
    ASSUME PiInv, NEW u \in Turns,
           \/ Start(u) \/ Index(u) \/ Register(u) \/ MarkActive(u) \/ SendPrompt(u)
           \/ PromptLost(u) \/ SpawnPump(u) \/ Unregister(u) \/ MarkIdle(u)
    PROVE  PiInv'
<1> USE DEF piVars, pumpVars, clientVars
<1>0. slot \in Turns \cup {None} /\ busy \in BOOLEAN
  BY DEF PiInv, PiTypes
<1>1. CASE Start(u)
  BY <1>0, <1>1, GoingOnKeepsInv DEF Start, Stages, GoesOn, Before
<1>2. CASE Index(u)
  <2>1. PICK n \in {"indexed", "done", "stuck"} : StageTo(u, n)
    BY <1>2 DEF Index, NeverAnswered, StageTo
  <2> QED
    BY <1>0, <1>2, <2>1, GoingOnKeepsInv DEF Index, Stages, GoesOn, Before, Ended, Over
<1>3. CASE Register(u)
  BY <1>0, <1>3, GoingOnKeepsInv DEF Register, Stages, GoesOn, Before, Over
<1>4. CASE MarkActive(u)
  BY <1>0, <1>4, GoingOnKeepsInv DEF MarkActive, Stages, GoesOn, Before, Over
<1>5. CASE SendPrompt(u)
  BY <1>0, <1>5, GoingOnKeepsInv DEF SendPrompt, Stages, GoesOn, Before, Over
<1>6. CASE PromptLost(u)
  <2>1. PICK n \in {"abandoned", "stuck"} : StageTo(u, n)
    BY <1>6 DEF PromptLost, NeverAnswered, StageTo
  <2> QED
    BY <1>0, <1>6, <2>1, GoingOnKeepsInv DEF PromptLost, Stages, GoesOn, Before, Over
<1>7. CASE SpawnPump(u)
  BY <1>0, <1>7, GoingOnKeepsInv DEF SpawnPump, Stages, Pumping, GoesOn, Over
<1>8. CASE Unregister(u)
  <2>1. CASE stage[u] = "refused"
    BY <1>0, <1>8, <2>1, GoingOnKeepsInv DEF Unregister, Stages, GoesOn, Before, Over
  <2>2. CASE stage[u] = "emitted"
    BY <1>0, <1>8, <2>2, GoingOnKeepsInv DEF Unregister, Stages, GoesOn
  <2> QED
    BY <1>8, <2>1, <2>2 DEF Unregister
<1>9. CASE MarkIdle(u)
  BY <1>0, <1>9, GoingOnKeepsInv DEF MarkIdle, Stages, GoesOn, Before, Ended
<1> QED
  BY <1>1, <1>2, <1>3, <1>4, <1>5, <1>6, <1>7, <1>8, <1>9

\* Pi takes a prompt, or refuses it.
LEMMA PromptedKeepsInv ==
    ASSUME PiInv, NEW u \in Turns, PiPrompted(u)
    PROVE  PiInv'
<1> USE DEF piVars, pumpVars, clientVars
<1>1. CASE StageTo(u, "refused") /\ UNCHANGED working
  BY <1>1, GoingOnKeepsInv DEF PiPrompted, Stages, GoesOn, Before, Over, PiInv, PiTypes
<1>2. CASE working = None /\ working' = u /\ StageTo(u, "accepted")
  <2>1. stage' \in [Turns -> Stages] /\ stage'[u] = "accepted"
        /\ \A w \in Turns : w # u => stage'[w] = stage[w]
    BY <1>2, StageKeepsTypes DEF PiInv, Stages
  <2>2. PiTypes'
    BY <1>2, <2>1 DEF PiPrompted, PiInv, PiTypes
  <2>3. OneAtATime'
    BY <1>2, StageKeepsOne DEF PiInv, PiPrompted, Stages, Over, Running
  <2>4. ASSUME NEW w \in Turns, w # u PROVE Talks(w)'
    <3>1. Untouched(w)
      BY <2>1, <2>4 DEF PiPrompted, Untouched
    <3>2. life' = life /\ working' # w
      BY <1>2, <2>4 DEF PiPrompted
    <3> QED
      BY <3>1, <3>2, UntouchedTalks DEF PiInv
  <2>5. Talks(u)'
    <3>1. stage[u] = "prompting" /\ Talks(u) /\ life \in Lives
      BY DEF PiPrompted, PiInv, PiTypes
    <3>2. out[u] = <<>> /\ held[u] = None /\ queue[u] = <<>>
      BY <3>1 DEF Talks, Running
    <3>3. Hears(u, life)
      BY <3>1, <3>2, LeadsNowhereElse DEF Talks
    <3>4. translator[u] = Pi!Fresh /\ \A i \in ItemsOf(u) : life[i] = "none"
      BY <3>1, <3>3 DEF Hears, Before
    <3>5. /\ out'[u] = <<>> /\ held'[u] = None /\ queue'[u] = <<>> /\ life' = life
          /\ translator'[u] = Pi!Fresh /\ skipped' = skipped /\ cut' = cut
          /\ working' = u /\ position' = 1
      BY <1>2, <3>2, <3>4 DEF PiPrompted, PiInv, OneAtATime
    <3>6. Follows(translator'[u], life', u, 0, skipped', cut')
      BY <3>4, <3>5, FreshFollows
    <3>7. Placed(u, 0)'
      BY <3>5, LinedAtStart DEF Placed
    <3>8. 0 \in 0 .. Len(Script[u])
      BY ScriptFacts
    <3>9. Hears(u, life)'
      BY <2>1, <3>6, <3>7, <3>8 DEF Hears, Before, Ended
    <3>10. Leads(life', out'[u], life')
      BY <3>1, <3>5, LeadsNowhere
    <3> QED
      BY <2>1, <3>1, <3>5, <3>9, <3>10 DEF Talks, Running
  <2> QED
    BY <2>2, <2>3, <2>4, <2>5 DEF PiInv
<1> QED
  BY <1>1, <1>2 DEF PiPrompted

-----------------------------------------------------------------------------
(* Pi.                                                                     *)

LEMMA EmitsKeepsInv ==
    ASSUME PiInv, PiEmits
    PROVE  PiInv'
<1> USE DEF clientVars
<1>1. PICK k \in position .. Len(Script[working]) :
        /\ k = position \/ (working \in cut /\ k = Len(Script[working]))
        /\ queue' = [u \in Turns |->
               IF stage[u] \in Subscribed THEN Append(queue[u], Script[working][k]) ELSE queue[u]]
        /\ IF k = Len(Script[working])
           THEN working' = None /\ position' = 1
           ELSE working' = working /\ position' = k + 1
  BY DEF PiEmits
<1> DEFINE u == working
           e == Script[u][k]
<1>2. /\ u \in Turns /\ u # None /\ stage[u] \in Running /\ position \in DOMAIN Script[u]
      /\ PiTypes /\ OneAtATime
      /\ UNCHANGED <<stage, slot, busy, alive, cut, skipped, held, translator, out,
                     interrupt, life>>
  BY PiTurnAssumption DEF PiEmits, PiInv, PiTypes, OneAtATime
<1>3. /\ position \in Nat /\ k \in Nat /\ Len(Script[u]) \in Nat \ {0}
      /\ k \in 1 .. Len(Script[u]) /\ k \in DOMAIN Script[u] /\ e \in Event
  BY <1>2, ScriptFacts DEF PiTypes
<1>4. stage[u] \in Subscribed /\ ~Over(u)
  BY <1>2 DEF Running, Subscribed, Pumping, Over
<1>5. /\ queue' \in [Turns -> Seq(Event)]
      /\ queue'[u] = Append(queue[u], e)
      /\ \A w \in Turns : w # u => queue'[w] = queue[w]
  <2>1. \A w \in Turns : w # u => stage[w] \notin Subscribed
    BY <1>2, <1>4, OthersAreOver DEF Over, Subscribed, Pumping
  <2>2. \A w \in Turns : Append(queue[w], e) \in Seq(Event) /\ queue[w] \in Seq(Event)
    BY <1>2, <1>3 DEF PiTypes
  <2> QED
    BY <1>1, <1>2, <1>4, <2>1, <2>2
<1>6. PiTypes'
  <2>1. working' \in Turns \cup {None} /\ position' \in Nat
    BY <1>1, <1>2, <1>3
  <2> QED
    BY <1>2, <1>5, <2>1 DEF PiTypes
<1>7. OneAtATime'
  <2>1. \A w, v \in Turns : ~Over(w)' /\ ~Over(v)' => w = v
    BY <1>2 DEF OneAtATime, Over
  <2>2. IF working' = None THEN position' = 1
        ELSE stage'[working'] \in Running /\ alive' /\ position' \in DOMAIN Script[working']
    <3>1. CASE k = Len(Script[u])
      BY <1>1, <3>1
    <3>2. CASE k # Len(Script[u])
      <4>1. k + 1 \in DOMAIN Script[u]
        BY <1>2, <1>3, <3>2, ScriptFacts
      <4> QED
        BY <1>1, <1>2, <3>2, <4>1 DEF OneAtATime
    <3> QED
      BY <3>1, <3>2
  <2> QED
    BY <2>1, <2>2 DEF OneAtATime
<1>8. ASSUME NEW w \in Turns, w # u PROVE Talks(w)'
  <2>1. Untouched(w)
    BY <1>2, <1>5, <1>8 DEF Untouched
  <2>2. working' # w
    BY <1>1, <1>8, PiTurnAssumption
  <2> QED
    BY <1>2, <2>1, <2>2, UntouchedTalks DEF PiInv
<1>9. ASSUME NEW w \in Turns, w = working PROVE Talks(w)'
  <2>1. PICK M \in Lives : Leads(life, out[w], M) /\ Hears(w, M)
    BY <1>9 DEF PiInv, Talks
  <2>2. PICK p \in 0 .. Len(Script[w]) :
          Follows(translator[w], M, w, p, skipped, cut) /\ Placed(w, p)
    BY <1>2, <1>9, <2>1 DEF Hears
  <2> DEFINE o == IF held[w] = None THEN p ELSE p + 1
  <2>3. Lined(w, o, queue[w], skipped, cut, w, position) /\ o \in Nat
    BY <1>9, <2>2, ScriptFacts DEF Placed
  <2> HIDE DEF o
  <2>4. Lined(w, o, queue'[w], skipped, cut, working', position')
    <3>1. /\ k < Len(Script[w]) =>
                Lined(w, o, Append(queue[w], Script[w][k]), skipped, cut, w, k + 1)
          /\ \A v, i : v # w => Lined(w, o, Append(queue[w], Script[w][k]), skipped, cut, v, i)
      BY <1>1, <1>2, <1>9, <2>3, LinedEmitted DEF PiTypes
    <3>2. CASE k = Len(Script[w])
      BY <1>1, <1>2, <1>5, <1>9, <3>1, <3>2
    <3>3. CASE k # Len(Script[w])
      <4>1. k < Len(Script[w])
        BY <1>3, <1>9, <3>3
      <4> QED
        BY <1>1, <1>5, <1>9, <3>1, <3>3, <4>1
    <3> QED
      BY <3>2, <3>3
  <2>5. Placed(w, p)'
    BY <1>2, <2>2, <2>4 DEF Placed, o
  <2>6. Follows(translator[w], M, w, p, skipped, cut)'
    BY <1>2, <2>2
  <2>7. Hears(w, M)'
    BY <1>2, <1>9, <2>5, <2>6 DEF Hears, Running, Before, Ended
  <2>8. Leads(life', out'[w], M)
    BY <1>2, <2>1
  <2> QED
    BY <1>2, <1>9, <2>7, <2>8 DEF PiInv, Talks
<1> QED
  BY <1>6, <1>7, <1>8, <1>9 DEF PiInv

LEMMA ExitsKeepsInv ==
    ASSUME PiInv, PiExits
    PROVE  PiInv'
<1> USE DEF PiExits, pumpVars, clientVars
<1>1. PiTypes'
  BY DEF PiInv, PiTypes
<1>2. OneAtATime'
  BY DEF PiInv, OneAtATime, Over
<1>3. ASSUME NEW w \in Turns PROVE Talks(w)'
  <2>1. Untouched(w)
    BY DEF Untouched
  <2>2. working' # w
    BY PiTurnAssumption
  <2> QED
    BY <2>1, <2>2, UntouchedTalks DEF PiInv
<1> QED
  BY <1>1, <1>2, <1>3 DEF PiInv

LEMMA InterruptKeepsInv ==
    ASSUME PiInv, NEW u \in Turns, InterruptChecks(u) \/ InterruptLands(u)
    PROVE  PiInv'
<1> USE DEF InterruptChecks, InterruptLands, Aborted, piVars, pumpVars, clientVars
<1>1. cut \subseteq cut' /\ cut' \subseteq Turns
  BY DEF PiInv, PiTypes
<1>2. PiTypes'
  BY <1>1 DEF PiInv, PiTypes
<1>3. OneAtATime'
  BY DEF PiInv, OneAtATime, Over
<1>4. ASSUME NEW w \in Turns PROVE Talks(w)'
  <2>1. Untouched(w)
    BY <1>1 DEF Untouched
  <2> QED
    BY <2>1, UntouchedTalks DEF PiInv
<1> QED
  BY <1>2, <1>3, <1>4 DEF PiInv

-----------------------------------------------------------------------------
(* The pump.                                                               *)

LEMMA HandleKeepsTypes ==
    ASSUME PiTypes, NEW u \in Turns, NEW e, Handle(u, e),
           Pi!Translate(translator[u], e).state \in State
    PROVE  /\ translator' \in [Turns -> State] /\ out' = [w \in Turns |-> out'[w]]
           /\ translator'[u] = Pi!Translate(translator[u], e).state
           /\ out'[u] = Pi!Translate(translator[u], e).notes
           /\ \A w \in Turns : w # u => translator'[w] = translator[w] /\ out'[w] = out[w]
BY DEF Handle, PiTypes

\* A pump with nothing left to send, which is to show the next event.
LEMMA ShowsNext ==
    ASSUME PiTypes, NEW u \in Turns, NEW p \in Nat, p + 1 \in DOMAIN Script[u],
           p + 1 # Len(Script[u]), Follows(translator[u], life, u, p, skipped, cut),
           NEW e, e = Script[u][p + 1], Handle(u, e)
    PROVE  /\ translator' \in [Turns -> State] /\ out' = [w \in Turns |-> out'[w]]
           /\ \A w \in Turns : w # u => translator'[w] = translator[w] /\ out'[w] = out[w]
           /\ out'[u] \in Seq(NoteOf(u))
           /\ \E M \in Lives :
                 Leads(life, out'[u], M) /\ Follows(translator'[u], M, u, p + 1, skipped, cut)
<1>1. Answers(u, Pi!Translate(translator[u], e), life, p + 1, skipped, cut)
  BY TranslateAnswers DEF PiTypes
<1>2. Pi!Translate(translator[u], e).state \in State
  BY <1>1 DEF Answers, Follows
<1> QED
  BY <1>1, <1>2, HandleKeepsTypes DEF Answers

\* A pump knows no more than it has told, if it has nothing left to send.
LEMMA SilentHears ==
    ASSUME NEW u \in Turns, Talks(u), out[u] = <<>>
    PROVE  Hears(u, life)
BY LeadsNowhereElse DEF Talks

LEMMA LagKeepsInv ==
    ASSUME PiInv, NEW u \in Turns, Lag(u)
    PROVE  PiInv'
<1> USE DEF piVars, clientVars
<1>1. /\ stage[u] = "pumping" /\ out[u] = <<>> /\ queue[u] \in Seq(Event) /\ life \in Lives
      /\ Talks(u) /\ PiTypes /\ OneAtATime
      /\ UNCHANGED <<stage, slot, busy, alive, working, position, cut, held, translator, out,
                     interrupt, life>>
  BY DEF Lag, PiInv, PiTypes
<1> DEFINE d == Len(queue[u]) - Capacity + 1
<1>2. d \in 1 .. Len(queue[u])
  BY <1>1, PiTurnAssumption DEF Lag
<1>3. /\ queue' \in [Turns -> Seq(Event)]
      /\ queue'[u] = SubSeq(queue[u], d, Len(queue[u]))
      /\ \A w \in Turns : w # u => queue'[w] = queue[w]
  <2>1. SubSeq(queue[u], d, Len(queue[u])) \in Seq(Event)
    BY <1>1, <1>2
  <2> QED
    BY <2>1 DEF Lag, Remaining, PiInv, PiTypes
<1>4. skipped' = skipped \cup {u}
  BY DEF Lag
<1>5. PiTypes'
  BY <1>1, <1>3, <1>4 DEF PiTypes
<1>6. OneAtATime'
  BY <1>1 DEF OneAtATime, Over
<1>7. ASSUME NEW w \in Turns, w # u PROVE Talks(w)'
  <2>1. Untouched(w)
    BY <1>1, <1>3, <1>4, <1>7 DEF Untouched
  <2> QED
    BY <1>1, <2>1, UntouchedTalks DEF PiInv
<1>8. Talks(u)'
  <2>1. held[u] = None
    BY <1>1 DEF Talks
  <2>2. PICK p \in 0 .. Len(Script[u]) :
          Follows(translator[u], life, u, p, skipped, cut) /\ Placed(u, p)
    BY <1>1, SilentHears DEF Hears, Running
  <2>3. Follows(translator'[u], life', u, p, skipped', cut')
    BY <1>1, <1>4, <2>2, FollowsLess
  <2>4. Lined(u, p, queue[u], skipped, cut, working, position) /\ p \in Nat
    BY <2>1, <2>2, ScriptFacts DEF Placed
  <2>5. Lined(u, p, queue'[u], skipped', cut', working', position')
    BY <1>1, <1>2, <1>3, <1>4, <2>4, LinedLagged
  <2>6. Placed(u, p)'
    BY <1>1, <2>1, <2>5 DEF Placed
  <2>7. Hears(u, life)'
    BY <1>1, <2>3, <2>6 DEF Hears, Before, Ended
  <2>8. Leads(life', out'[u], life')
    BY <1>1, LeadsNowhere
  <2> QED
    BY <1>1, <2>7, <2>8 DEF Talks, Running
<1> QED
  BY <1>5, <1>6, <1>7, <1>8 DEF PiInv

LEMMA ReceiveKeepsInv ==
    ASSUME PiInv, NEW u \in Turns, Receive(u)
    PROVE  PiInv'
<1> USE DEF piVars, clientVars
<1>1. /\ stage[u] = "pumping" /\ out[u] = <<>> /\ queue[u] \in Seq(Event) /\ life \in Lives
      /\ queue[u] # <<>> /\ ~Over(u)
      /\ Talks(u) /\ PiTypes /\ OneAtATime /\ held[u] = None
      /\ UNCHANGED <<slot, busy, alive, working, position, cut, skipped, interrupt, life>>
  <2>1. /\ stage[u] = "pumping" /\ out[u] = <<>> /\ Talks(u) /\ PiTypes /\ OneAtATime
        /\ UNCHANGED <<slot, busy, alive, working, position, cut, skipped, interrupt, life>>
    BY DEF Receive, PiInv
  <2>2. queue[u] \in Seq(Event) /\ life \in Lives
    BY <2>1 DEF PiTypes
  <2>3. Len(queue[u]) # 0
    BY PiTurnAssumption DEF Receive
  <2>4. ~Over(u) /\ held[u] = None
    BY <2>1 DEF Over, Talks
  <2> QED
    BY <2>1, <2>2, <2>3, <2>4
<1>2. /\ queue' \in [Turns -> Seq(Event)]
      /\ queue'[u] = Tail(queue[u])
      /\ \A w \in Turns : w # u => queue'[w] = queue[w]
  <2>1. Tail(queue[u]) \in Seq(Event)
    BY <1>1
  <2> QED
    BY <2>1 DEF Receive, PiInv, PiTypes
<1>3. PICK p \in 0 .. Len(Script[u]) :
        Follows(translator[u], life, u, p, skipped, cut) /\ Placed(u, p)
  BY <1>1, SilentHears DEF Hears, Running
<1>4. Lined(u, p, queue[u], skipped, cut, working, position) /\ p \in Nat
  BY <1>1, <1>3, ScriptFacts DEF Placed
<1>5. working = u => position \in DOMAIN Script[u]
  BY <1>1, PiTurnAssumption DEF OneAtATime
<1>6. PICK k \in p + 1 .. Len(Script[u]) :
        /\ Script[u][k] = Head(queue[u])
        /\ u \notin skipped => k = p + 1 \/ (u \in cut /\ k = Len(Script[u]))
        /\ Lined(u, k, Tail(queue[u]), skipped, cut, working, position)
        /\ k = Len(Script[u]) => working # u /\ Tail(queue[u]) = <<>>
  BY <1>1, <1>4, <1>5, LinedReceived
<1> DEFINE e == Script[u][k]
<1>7. /\ k \in DOMAIN Script[u] /\ k \in Nat \ {0} /\ e \in Event /\ e = Head(queue[u])
      /\ e.kind = "agent_end" <=> k = Len(Script[u])
  BY <1>4, <1>6, ScriptFacts
<1>8. Lined(u, k, queue'[u], skipped', cut', working', position')
  BY <1>1, <1>2, <1>6
\* Up to the event that has come.
<1>9. CASE k # Len(Script[u])
  <2>1. Follows(translator[u], life, u, k - 1, skipped, cut) /\ k - 1 \in Nat
        /\ k = (k - 1) + 1
    <3>1. CASE k = p + 1
      BY <1>3, <1>4, <3>1
    <3>2. CASE u \in skipped
      <4>1. k - 1 \in Nat /\ p <= k - 1 /\ k = (k - 1) + 1
        BY <1>4, <1>6, <1>7
      <4> QED
        BY <1>3, <1>4, <3>2, <4>1, FollowsLater
    <3> QED
      BY <1>6, <1>9, <3>1, <3>2
  <2>2. PICK j \in Nat : j = k - 1
    BY <2>1
  <2>3. k = j + 1 /\ j \in 0 .. Len(Script[u]) /\ k \in 0 .. Len(Script[u])
        /\ Follows(translator[u], life, u, j, skipped, cut)
    BY <1>7, <2>1, <2>2, ScriptFacts
\* The pump waits for the client: the event is held.
  <2>4. CASE e.kind = "bash_start"
    <3>1. /\ StageTo(u, "asking") /\ held' = [held EXCEPT ![u] = e]
          /\ UNCHANGED <<translator, out>>
      BY <1>7, <2>4 DEF Receive
    <3>2. stage' \in [Turns -> Stages] /\ stage'[u] = "asking"
          /\ \A w \in Turns : w # u => stage'[w] = stage[w]
      BY <1>1, <3>1, StageKeepsTypes DEF Stages, Pumping
    <3>3. /\ held' \in [Turns -> Event \cup {None}] /\ held'[u] = e /\ e # None
          /\ \A w \in Turns : w # u => held'[w] = held[w]
      BY <1>1, <1>7, <3>1, PiRunAssumption DEF PiTypes
    <3>4. PiTypes'
      BY <1>1, <1>2, <3>1, <3>2, <3>3 DEF PiTypes
    <3>5. OneAtATime'
      BY <1>1, <3>1, StageKeepsOne DEF Stages, Pumping, Running
    <3>6. ASSUME NEW w \in Turns, w # u PROVE Talks(w)'
      <4>1. Untouched(w)
        BY <1>1, <1>2, <3>1, <3>2, <3>3, <3>6 DEF Untouched
      <4> QED
        BY <1>1, <4>1, UntouchedTalks DEF PiInv
    <3>7. Talks(u)'
      <4>1. Follows(translator'[u], life', u, j, skipped', cut')
        BY <1>1, <2>3, <3>1
      <4>2. Placed(u, j)'
        BY <1>7, <1>8, <2>3, <2>4, <3>3 DEF Placed
      <4>3. Hears(u, life)'
        BY <2>3, <3>2, <4>1, <4>2 DEF Hears, Before, Ended
      <4>4. Leads(life', out'[u], life')
        BY <1>1, <3>1, LeadsNowhere
      <4> QED
        BY <1>1, <3>1, <3>2, <3>3, <4>3, <4>4 DEF Talks, Running
    <3> QED
      BY <3>4, <3>5, <3>6, <3>7 DEF PiInv
\* The event is shown.
  <2>5. CASE e.kind # "bash_start"
    <3>1. Handle(u, e) /\ UNCHANGED stage /\ UNCHANGED held
      BY <1>7, <1>9, <2>5 DEF Receive
    <3>2. /\ translator' \in [Turns -> State] /\ out' = [w \in Turns |-> out'[w]]
          /\ \A w \in Turns : w # u => translator'[w] = translator[w] /\ out'[w] = out[w]
          /\ out'[u] \in Seq(NoteOf(u))
          /\ \E M \in Lives :
                Leads(life, out'[u], M) /\ Follows(translator'[u], M, u, j + 1, skipped, cut)
      BY <1>1, <1>7, <1>9, <2>3, <3>1, ShowsNext
    <3>3. PICK M \in Lives :
            Leads(life, out'[u], M) /\ Follows(translator'[u], M, u, k, skipped, cut)
      BY <2>3, <3>2
    <3>4. PiTypes'
      BY <1>1, <1>2, <3>1, <3>2 DEF PiTypes
    <3>5. OneAtATime'
      BY <1>1, <3>1 DEF OneAtATime, Over
    <3>6. ASSUME NEW w \in Turns, w # u PROVE Talks(w)'
      <4>1. Untouched(w)
        BY <1>1, <1>2, <3>1, <3>2, <3>6 DEF Untouched
      <4> QED
        BY <1>1, <4>1, UntouchedTalks DEF PiInv
    <3>7. Talks(u)'
      <4>1. (Follows(translator[u], M, u, k, skipped, cut))'
        BY <1>1, <3>3
      <4>2. Placed(u, k)'
        BY <1>1, <1>8, <3>1 DEF Placed
      <4>3. Hears(u, M)'
        BY <1>1, <2>3, <3>1, <4>1, <4>2 DEF Hears, Before, Ended
      <4>4. Leads(life', out'[u], M)
        BY <1>1, <3>3
      <4> QED
        BY <1>1, <3>1, <3>2, <4>3, <4>4 DEF Talks, Running
    <3> QED
      BY <3>4, <3>5, <3>6, <3>7 DEF PiInv
  <2> QED
    BY <2>4, <2>5
\* The run is over.
<1>10. CASE k = Len(Script[u])
  <2>1. /\ Handle(u, e) /\ StageTo(u, "finishing") /\ UNCHANGED held
    BY <1>7, <1>10 DEF Receive
  <2>2. working # u /\ queue'[u] = <<>>
    BY <1>2, <1>6, <1>10
  <2>3. Pi!Translate(translator[u], e) = Pi!AgentEnd(translator[u])
    BY <1>7, <1>10 DEF Pi!Translate
  <2>4. PICK r : r = Pi!AgentEnd(translator[u])
    OBVIOUS
  <2>5. /\ r.state \in State /\ r.notes \in Seq(NoteOf(u))
        /\ \E M \in Lives :
              /\ Leads(life, r.notes, M)
              /\ u \notin skipped => \A m \in IdsOf(u) :
                    M[Msg(m)] # "open" /\ (ThinkingEnds => M[Rsn(m)] # "open")
              /\ u \notin skipped \cup cut /\ p + 1 = Len(Script[u]) =>
                    \A t \in IdsOf(u) : M[Tol(t)] # "open"
    BY <1>1, <1>3, <1>4, <2>4, AgentEndCloses
  <2>6. PICK M \in Lives :
          /\ Leads(life, r.notes, M)
          /\ u \notin skipped => \A m \in IdsOf(u) :
                M[Msg(m)] # "open" /\ (ThinkingEnds => M[Rsn(m)] # "open")
          /\ u \notin skipped \cup cut /\ p + 1 = Len(Script[u]) =>
                \A t \in IdsOf(u) : M[Tol(t)] # "open"
    BY <2>5
  <2>7. /\ translator' \in [Turns -> State] /\ out' = [w \in Turns |-> out'[w]]
        /\ out'[u] = r.notes
        /\ \A w \in Turns : w # u => translator'[w] = translator[w] /\ out'[w] = out[w]
    BY <1>1, <2>1, <2>3, <2>4, <2>5, HandleKeepsTypes
  <2>8. stage' \in [Turns -> Stages] /\ stage'[u] = "finishing"
        /\ \A w \in Turns : w # u => stage'[w] = stage[w]
    BY <1>1, <2>1, StageKeepsTypes DEF Stages, Pumping
  <2>9. PiTypes'
    BY <1>1, <1>2, <2>1, <2>7, <2>8 DEF PiTypes
  <2>10. OneAtATime'
    BY <1>1, <2>1, <2>2, StageKeepsOne DEF Stages, Pumping
  <2>11. ASSUME NEW w \in Turns, w # u PROVE Talks(w)'
    <3>1. Untouched(w)
      BY <1>1, <1>2, <2>1, <2>7, <2>8, <2>11 DEF Untouched
    <3> QED
      BY <1>1, <3>1, UntouchedTalks DEF PiInv
  <2>12. Talks(u)'
    <3>1. u \notin skipped => ClosedOff(u, M)
      BY <1>6, <1>10, <2>6 DEF ClosedOff
    <3>2. (u \notin skipped => ClosedOff(u, M))'
      BY <1>1, <3>1 DEF ClosedOff
    <3>3. Hears(u, M)'
      BY <2>8, <3>2 DEF Hears, Before, Running
    <3>4. Leads(life', out'[u], M)
      BY <1>1, <2>6, <2>7
    <3> QED
      BY <1>1, <2>1, <2>5, <2>7, <2>8, <3>3, <3>4 DEF Talks, Running
  <2> QED
    BY <2>9, <2>10, <2>11, <2>12 DEF PiInv
<1> QED
  BY <1>9, <1>10

\* The command a pump held is shown, while its run may be cut.
LEMMA ShowKeepsInv ==
    ASSUME PiInv, NEW u \in Turns, stage[u] \in {"asking", "aborting"}, Show(u),
           cut \subseteq cut', cut' \subseteq Turns,
           UNCHANGED <<slot, busy, alive, working, position, queue, skipped, interrupt, life>>
    PROVE  PiInv'
<1>1. /\ out[u] = <<>> /\ life \in Lives /\ ~Over(u) /\ Talks(u) /\ PiTypes /\ OneAtATime
      /\ held[u] # None
  BY DEF PiInv, PiTypes, Over, Talks
<1>2. PICK p \in 0 .. Len(Script[u]) :
        Follows(translator[u], life, u, p, skipped, cut) /\ Placed(u, p)
  BY <1>1, SilentHears DEF Hears, Running
<1>3. /\ p + 1 \in DOMAIN Script[u] /\ held[u] = Script[u][p + 1]
      /\ held[u].kind = "bash_start"
      /\ Lined(u, p + 1, queue[u], skipped, cut, working, position)
  BY <1>1, <1>2 DEF Placed
<1>4. p \in Nat /\ p + 1 # Len(Script[u]) /\ p + 1 \in 0 .. Len(Script[u])
  BY <1>3, ScriptFacts
<1>5. Handle(u, held[u]) /\ held' = [held EXCEPT ![u] = None] /\ StageTo(u, "pumping")
  BY DEF Show
<1>6. /\ translator' \in [Turns -> State] /\ out' = [w \in Turns |-> out'[w]]
      /\ \A w \in Turns : w # u => translator'[w] = translator[w] /\ out'[w] = out[w]
      /\ out'[u] \in Seq(NoteOf(u))
      /\ \E M \in Lives :
            Leads(life, out'[u], M) /\ Follows(translator'[u], M, u, p + 1, skipped, cut)
  BY <1>1, <1>2, <1>3, <1>4, <1>5, ShowsNext
<1>7. PICK M \in Lives :
        Leads(life, out'[u], M) /\ Follows(translator'[u], M, u, p + 1, skipped, cut)
  BY <1>6
<1>8. stage' \in [Turns -> Stages] /\ stage'[u] = "pumping"
      /\ \A w \in Turns : w # u => stage'[w] = stage[w]
  BY <1>1, <1>5, StageKeepsTypes DEF Stages, Pumping
<1>9. /\ held' \in [Turns -> Event \cup {None}] /\ held'[u] = None
      /\ \A w \in Turns : w # u => held'[w] = held[w]
  BY <1>1, <1>5 DEF PiTypes
<1>10. PiTypes'
  BY <1>1, <1>6, <1>8, <1>9 DEF PiTypes
<1>11. OneAtATime'
  BY <1>1, <1>5, StageKeepsOne DEF Stages, Pumping, Running
<1>12. ASSUME NEW w \in Turns, w # u PROVE Talks(w)'
  <2>1. Untouched(w)
    BY <1>6, <1>8, <1>9, <1>12 DEF Untouched
  <2> QED
    BY <2>1, UntouchedTalks DEF PiInv
<1>13. Talks(u)'
  <2>1. Follows(translator'[u], M, u, p + 1, skipped', cut')
    BY <1>7, FollowsLess
  <2>2. Lined(u, p + 1, queue'[u], skipped', cut', working', position')
    BY <1>3, LinedLess
  <2>3. Placed(u, p + 1)'
    BY <1>9, <2>2 DEF Placed
  <2>4. Hears(u, M)'
    BY <1>4, <1>8, <2>1, <2>3 DEF Hears, Before, Ended
  <2>5. Leads(life', out'[u], M)
    BY <1>7
  <2> QED
    BY <1>6, <1>8, <1>9, <2>4, <2>5 DEF Talks, Running
<1> QED
  BY <1>10, <1>11, <1>12, <1>13 DEF PiInv

LEMMA VerdictKeepsInv ==
    ASSUME PiInv, NEW u \in Turns, Verdict(u)
    PROVE  PiInv'
<1> USE DEF piVars, clientVars
<1>1. CASE Show(u)
  <2>1. cut' = cut /\ cut' \subseteq Turns
    BY DEF Verdict, PiInv, PiTypes
  <2> QED
    BY <1>1, <2>1, ShowKeepsInv DEF Verdict
<1>2. CASE StageTo(u, "aborting") /\ UNCHANGED <<held, translator, out>>
  <2>1. /\ stage[u] = "asking" /\ ~Over(u) /\ Talks(u) /\ PiTypes /\ OneAtATime
        /\ UNCHANGED <<slot, busy, alive, working, position, cut, queue, skipped, held,
                       translator, out, interrupt, life>>
    BY <1>2 DEF Verdict, PiInv, Over
  <2>2. stage' \in [Turns -> Stages] /\ stage'[u] = "aborting"
        /\ \A w \in Turns : w # u => stage'[w] = stage[w]
    BY <1>2, <2>1, StageKeepsTypes DEF Stages, Pumping
  <2>3. PiTypes'
    BY <2>1, <2>2 DEF PiTypes
  <2>4. OneAtATime'
    BY <1>2, <2>1, StageKeepsOne DEF Stages, Pumping, Running
  <2>5. ASSUME NEW w \in Turns, w # u PROVE Talks(w)'
    <3>1. Untouched(w)
      BY <2>1, <2>2, <2>5 DEF Untouched
    <3> QED
      BY <2>1, <3>1, UntouchedTalks DEF PiInv
  <2>6. Talks(u)'
    <3>1. PICK M \in Lives : Leads(life, out[u], M) /\ Hears(u, M)
      BY <2>1 DEF Talks
    <3>2. PICK p \in 0 .. Len(Script[u]) :
            Follows(translator[u], M, u, p, skipped, cut) /\ Placed(u, p)
      BY <2>1, <3>1 DEF Hears, Running
    <3>3. (Follows(translator[u], M, u, p, skipped, cut) /\ Placed(u, p))'
      BY <2>1, <3>2 DEF Placed
    <3>4. Hears(u, M)'
      BY <2>2, <3>3 DEF Hears, Before, Ended
    <3>5. Leads(life', out'[u], M)
      BY <2>1, <3>1
    <3> QED
      BY <2>1, <2>2, <3>4, <3>5 DEF Talks, Running
  <2> QED
    BY <2>3, <2>4, <2>5, <2>6 DEF PiInv
<1> QED
  BY <1>1, <1>2 DEF Verdict

LEMMA AbortKeepsInv ==
    ASSUME PiInv, NEW u \in Turns, AbortRun(u)
    PROVE  PiInv'
<1> USE DEF piVars, clientVars
<1>1. cut \subseteq cut' /\ cut' \subseteq Turns
  BY DEF AbortRun, Aborted, PiInv, PiTypes
<1>2. CASE Show(u)
  BY <1>1, <1>2, ShowKeepsInv DEF AbortRun
<1>3. CASE /\ ~alive /\ NeverAnswered(u) /\ held' = [held EXCEPT ![u] = None]
           /\ UNCHANGED <<translator, out>>
  <2>1. /\ stage[u] = "aborting" /\ ~Over(u) /\ Talks(u) /\ PiTypes /\ OneAtATime
        /\ working = None /\ StageTo(u, "stuck") /\ out[u] = <<>>
        /\ UNCHANGED <<slot, busy, alive, working, position, queue, skipped,
                       translator, out, interrupt, life>>
    BY <1>3 DEF AbortRun, PiInv, Over, OneAtATime, NeverAnswered, StageTo, Talks
  <2>2. stage' \in [Turns -> Stages] /\ stage'[u] = "stuck"
        /\ \A w \in Turns : w # u => stage'[w] = stage[w]
    BY <2>1, StageKeepsTypes DEF Stages
  <2>3. /\ held' \in [Turns -> Event \cup {None}] /\ held'[u] = None
        /\ \A w \in Turns : w # u => held'[w] = held[w]
    BY <1>3, <2>1 DEF PiTypes
  <2>4. PiTypes'
    BY <1>1, <2>1, <2>2, <2>3 DEF PiTypes
  <2>5. OneAtATime'
    BY <2>1, PiTurnAssumption, StageKeepsOne DEF Stages
  <2>6. ASSUME NEW w \in Turns, w # u PROVE Talks(w)'
    <3>1. Untouched(w)
      BY <1>1, <2>1, <2>2, <2>3, <2>6 DEF Untouched
    <3> QED
      BY <2>1, <3>1, UntouchedTalks DEF PiInv
  <2>7. Talks(u)'
    <3>1. Hears(u, life)'
      BY <2>2 DEF Hears, Before, Running, Ended
    <3>2. Leads(life', out'[u], life') /\ life' \in Lives
      BY <2>1, LeadsNowhere DEF PiTypes
    <3> QED
      BY <2>1, <2>2, <2>3, <3>1, <3>2 DEF Talks, Running
  <2> QED
    BY <2>4, <2>5, <2>6, <2>7 DEF PiInv
<1> QED
  BY <1>2, <1>3 DEF AbortRun

\* One note goes out, one the client expects.
LEMMA DeliverTells ==
    ASSUME PiInv, NEW u \in Turns, Deliver(u)
    PROVE  /\ Head(out[u]) \in NoteOf(u) /\ last' = Head(out[u])
           /\ life' \in Lives /\ Says(life, Head(out[u]), life')
           /\ \A M \in Lives : Leads(life, out[u], M) => Leads(life', Tail(out[u]), M)
<1> DEFINE n == Head(out[u])
<1>1. out[u] \in Seq(NoteOf(u)) /\ out[u] # <<>> /\ life \in Lives
  BY DEF PiInv, Talks, Deliver, PiTypes
<1>2. n \in NoteOf(u) /\ n.note \in {"started", "delta", "completed"} /\ n.item \in Items
  <2>1. n \in NoteOf(u)
    BY <1>1
  <2>2. n.note \in {"started", "delta", "completed"} /\ n.item \in ItemsOf(u)
    BY <2>1 DEF NoteOf
  <2> QED
    BY <2>1, <2>2, ScriptFacts
<1>3. \A N : Says(life, n, N) => N = life'
  BY <1>2 DEF Says, Deliver
<1>4. \A M \in Lives : Leads(life, out[u], M) =>
          \E N \in Lives : Says(life, n, N) /\ Leads(N, Tail(out[u]), M)
  BY <1>1, LeadsFirst
<1>5. \E M \in Lives : Leads(life, out[u], M)
  BY DEF PiInv, Talks
<1>6. life' \in Lives /\ Says(life, n, life')
  BY <1>3, <1>4, <1>5
<1> QED
  BY <1>2, <1>3, <1>4, <1>6 DEF Deliver

LEMMA DeliverKeepsInv ==
    ASSUME PiInv, NEW u \in Turns, Deliver(u)
    PROVE  PiInv'
<1> USE DEF piVars
<1> DEFINE n == Head(out[u])
<1>1. /\ stage[u] \in {"pumping", "finishing"} /\ ~Over(u) /\ Talks(u) /\ PiTypes /\ OneAtATime
      /\ out[u] \in Seq(NoteOf(u)) /\ out[u] # <<>>
      /\ UNCHANGED <<stage, slot, busy, alive, working, position, cut, queue, skipped, held,
                     translator, interrupt>>
  BY DEF Deliver, PiInv, Talks, Over
<1>2. /\ n \in NoteOf(u) /\ life' \in Lives /\ Says(life, n, life')
      /\ \A M \in Lives : Leads(life, out[u], M) => Leads(life', Tail(out[u]), M)
  BY DeliverTells
<1>3. /\ out' = [w \in Turns |-> out'[w]] /\ out'[u] = Tail(out[u])
      /\ \A w \in Turns : w # u => out'[w] = out[w]
  BY <1>1 DEF Deliver, PiTypes
<1>4. PiTypes'
  BY <1>1, <1>2, <1>3 DEF PiTypes
<1>5. OneAtATime'
  BY <1>1 DEF OneAtATime, Over
<1>6. ASSUME NEW w \in Turns, w # u PROVE Talks(w)'
  <2>1. Untouched(w)
    BY <1>1, <1>3, <1>6 DEF Untouched
  <2>2. \A i \in ItemsOf(w) : life'[i] = life[i]
    <3>1. n.item \in ItemsOf(u) /\ n.note \in {"started", "delta", "completed"}
      BY <1>2 DEF NoteOf
    <3>2. \A i \in ItemsOf(w) : i # n.item
      BY <1>6, <3>1, AllDisjoint
    <3>3. \A i \in ItemsOf(w) : i \in Items
      BY ScriptFacts
    <3>4. life' = life \/ \E t \in {"open", "done"} : life' = [life EXCEPT ![n.item] = t]
      BY <1>2, <3>1 DEF Says
    <3>5. life \in Lives
      BY <1>1 DEF PiTypes
    <3> HIDE DEF n
    <3> QED
      BY <3>2, <3>3, <3>4, <3>5 DEF Lives
  <2>3. Over(w)
    BY <1>1, <1>6, OthersAreOver
  <2> QED
    BY <1>2, <2>1, <2>2, <2>3, OverTalks DEF PiInv
<1>7. Talks(u)'
  <2>1. PICK M \in Lives : Leads(life, out[u], M) /\ Hears(u, M)
    BY <1>1 DEF Talks
  <2>2. Leads(life', out'[u], M)
    BY <1>2, <1>3, <2>1
  <2>3. Hears(u, M)'
    BY <1>1, <2>1 DEF Hears, Placed, ClosedOff
  <2>4. out'[u] \in Seq(NoteOf(u))
    BY <1>1, <1>3
  <2> QED
    BY <1>1, <2>2, <2>3, <2>4 DEF Talks
<1> QED
  BY <1>4, <1>5, <1>6, <1>7 DEF PiInv

LEMMA CompleteKeepsInv ==
    ASSUME PiInv, NEW u \in Turns, Complete(u)
    PROVE  PiInv'
<1> USE DEF piVars, clientVars
<1>1. /\ stage[u] = "finishing" /\ out[u] = <<>> /\ ~Over(u) /\ Talks(u) /\ PiTypes
      /\ OneAtATime /\ held[u] = None
      /\ UNCHANGED <<slot, busy, alive, working, position, cut, skipped, held, out,
                     interrupt, life>>
  BY DEF Complete, PiInv, Over, Talks
<1>2. stage' \in [Turns -> Stages] /\ stage'[u] = "emitted"
      /\ \A w \in Turns : w # u => stage'[w] = stage[w]
  BY <1>1, StageKeepsTypes DEF Complete, Stages
<1>3. /\ queue' \in [Turns -> Seq(Event)] /\ queue'[u] = <<>>
      /\ \A w \in Turns : w # u => queue'[w] = queue[w]
  BY <1>1 DEF Complete, PiTypes
<1>4. /\ translator' \in [Turns -> State]
      /\ \A w \in Turns : w # u => translator'[w] = translator[w]
  <2>1. Pi!Fresh \in State
    BY DEF Pi!Fresh, State
  <2> QED
    BY <1>1, <2>1 DEF Complete, PiTypes
<1>5. PiTypes'
  BY <1>1, <1>2, <1>3, <1>4 DEF PiTypes
<1>6. OneAtATime'
  <2>1. working # u
    BY <1>1, PiTurnAssumption DEF OneAtATime, Running
  <2> QED
    BY <1>1, <2>1, StageKeepsOne DEF Complete, Stages
<1>7. ASSUME NEW w \in Turns, w # u PROVE Talks(w)'
  <2>1. Untouched(w)
    BY <1>1, <1>2, <1>3, <1>4, <1>7 DEF Untouched
  <2> QED
    BY <1>1, <2>1, UntouchedTalks DEF PiInv
<1>8. Talks(u)'
  <2>1. u \notin skipped => ClosedOff(u, life)
    BY <1>1, SilentHears DEF Hears, Ended
  <2>2. (u \notin skipped => ClosedOff(u, life))'
    BY <1>1, <2>1 DEF ClosedOff
  <2>3. Hears(u, life)'
    BY <1>2, <2>2 DEF Hears, Before, Running
  <2>4. Leads(life', out'[u], life') /\ life' \in Lives
    BY <1>1, LeadsNowhere DEF PiTypes
  <2> QED
    BY <1>1, <1>2, <1>3, <2>3, <2>4 DEF Talks, Running
<1> QED
  BY <1>5, <1>6, <1>7, <1>8 DEF PiInv

LEMMA PiInvStep == PiInv /\ [Next]_vars => PiInv'
<1> SUFFICES ASSUME PiInv, [Next]_vars PROVE PiInv'
  OBVIOUS
<1>1. CASE PiEmits
  BY <1>1, EmitsKeepsInv
<1>2. CASE PiExits
  BY <1>2, ExitsKeepsInv
<1>3. ASSUME NEW u \in Turns,
             Start(u) \/ Handler(u) \/ Pump(u) \/ InterruptChecks(u) \/ InterruptLands(u)
      PROVE  PiInv'
  <2>1. CASE \/ Start(u) \/ Index(u) \/ Register(u) \/ MarkActive(u) \/ SendPrompt(u)
             \/ PromptLost(u) \/ SpawnPump(u) \/ Unregister(u) \/ MarkIdle(u)
    BY <2>1, HandlerKeepsInv
  <2>2. CASE PiPrompted(u)
    BY <2>2, PromptedKeepsInv
  <2>3. CASE Receive(u)
    BY <2>3, ReceiveKeepsInv
  <2>4. CASE Lag(u)
    BY <2>4, LagKeepsInv
  <2>5. CASE Verdict(u)
    BY <2>5, VerdictKeepsInv
  <2>6. CASE AbortRun(u)
    BY <2>6, AbortKeepsInv
  <2>7. CASE Deliver(u)
    BY <2>7, DeliverKeepsInv
  <2>8. CASE Complete(u)
    BY <2>8, CompleteKeepsInv
  <2>9. CASE InterruptChecks(u) \/ InterruptLands(u)
    BY <2>9, InterruptKeepsInv
  <2> QED
    BY <1>3, <2>1, <2>2, <2>3, <2>4, <2>5, <2>6, <2>7, <2>8, <2>9 DEF Handler, Pump
<1>4. CASE UNCHANGED vars
  <2>1. PiTypes' /\ OneAtATime'
    BY <1>4 DEF vars, piVars, pumpVars, clientVars, PiInv, PiTypes, OneAtATime, Over
  <2>2. ASSUME NEW w \in Turns PROVE Talks(w)'
    <3>1. Untouched(w)
      BY <1>4 DEF vars, piVars, pumpVars, Untouched
    <3>2. life' = life /\ working' = working /\ position' = position
      BY <1>4 DEF vars, piVars, clientVars
    <3> QED
      BY <3>1, <3>2, UntouchedTalks DEF PiInv
  <2> QED
    BY <2>1, <2>2 DEF PiInv
<1> QED
  BY <1>1, <1>2, <1>3, <1>4 DEF Next

-----------------------------------------------------------------------------
\* A pump that got every event leaves no message and no reasoning of its turn
\* open, and no tool either unless the run was cut, for every run in which what pi
\* thinks comes to its end before it thinks again.
THEOREM PiClosedAtEnd == ThinkingEnds => (Spec => []ClosedAtEnd)
<1> SUFFICES ASSUME ThinkingEnds PROVE Spec => []ClosedAtEnd
  OBVIOUS
<1>1. PiInv => ClosedAtEnd
  <2> SUFFICES ASSUME PiInv, NEW u \in Turns, stage[u] \in {"emitted", "cleared", "done"},
                      u \notin skipped, NEW k \in DOMAIN Script[u],
                      NEW type \in {"message", "reasoning", "tool"},
                      type = "tool" => u \notin cut
               PROVE  life[<<type, Script[u][k].id>>] # "open"
    BY DEF ClosedAtEnd
  <2>1. Talks(u) /\ out[u] = <<>>
    BY DEF PiInv, Talks
  <2>2. ClosedOff(u, life)
    BY <2>1, SilentHears DEF Hears, Ended
  <2>3. Script[u][k].id \in IdsOf(u)
    BY DEF IdsOf
  <2> QED
    BY <2>2, <2>3
       DEF ClosedOff, Msg, Rsn, Tol, Pi!MessageItem, Pi!ReasoningItem, Pi!ToolItem
<1> QED
  BY <1>1, InitTalks, PiInvStep, PTL DEF Spec

\* The types of PiTurn: what is queued is queued for a turn that listens, and a
\* pump holds an event exactly while it waits for the client.
THEOREM PiTypeCorrect == Spec => []TypeOK
<1>1. PiInv => TypeOK
  <2> SUFFICES ASSUME PiInv PROVE TypeOK
    OBVIOUS
  <2>1. \A u \in Turns : queue[u] # <<>> => stage[u] \in Subscribed \cup {"refused", "stuck"}
    BY DEF PiInv, Talks, Running, Subscribed, Pumping
  <2>2. \A u \in Turns : held[u] # None <=> stage[u] \in {"asking", "aborting"}
    BY DEF PiInv, Talks
  <2> QED
    BY <2>1, <2>2 DEF PiInv, PiTypes, TypeOK
<1> QED
  BY <1>1, InitTalks, PiInvStep, PTL DEF Spec

\* However far a pump lags and wherever a run is cut: what the client is told of
\* the items of the thread is a stream, if no message thinks twice.
THEOREM PiItemsStream == ThinksOnce => (Spec => ItemsStream)
<1> SUFFICES ASSUME ThinksOnce PROVE Spec => ItemsStream
  OBVIOUS
<1>1. Init => Stream!Init
  BY DEF Init
<1>2. PiInv /\ [Next]_vars => [Stream!Next]_<<life, last>>
  <2> SUFFICES ASSUME PiInv, [Next]_vars, ~UNCHANGED <<life, last>> PROVE Stream!Next
    OBVIOUS
  <2>1. PICK u \in Turns : Deliver(u)
    BY DEF Next, Handler, Pump, PiEmits, PiExits, Start, Index, Register, MarkActive,
           SendPrompt, PiPrompted, PromptLost, SpawnPump, Receive, Lag, Verdict, AbortRun,
           Complete, Unregister, MarkIdle, InterruptChecks, InterruptLands, vars, clientVars
  <2> DEFINE n == Head(out[u])
  <2>2. /\ n \in NoteOf(u) /\ last' = n /\ life' \in Lives /\ Says(life, n, life')
    BY <2>1, DeliverTells
  <2>3. /\ n.note \in {"started", "delta", "completed"} /\ n.item \in Items
        /\ last' = [note |-> n.note, item |-> n.item]
    BY <2>2, ScriptFacts DEF NoteOf
  <2>4. CASE n.note = "started"
    <3>1. Stream!Started(n.item)
      BY <2>2, <2>3, <2>4 DEF Says, Stream!Started, Stream!Tell
    <3> QED
      BY <2>3, <3>1 DEF Stream!Next
  <2>5. CASE n.note = "delta"
    <3>1. Stream!Added(n.item)
      BY <2>2, <2>3, <2>5 DEF Says, Stream!Added, Stream!Tell
    <3> QED
      BY <2>3, <3>1 DEF Stream!Next
  <2>6. CASE n.note = "completed"
    <3>1. Stream!Completed(n.item)
      BY <2>2, <2>3, <2>6 DEF Says, Stream!Completed, Stream!Tell
    <3> QED
      BY <2>3, <3>1 DEF Stream!Next
  <2> QED
    BY <2>3, <2>4, <2>5, <2>6
<1> QED
  BY <1>1, <1>2, InitTalks, PiInvStep, PTL DEF Spec, ItemsStream, Stream!Spec
=============================================================================
