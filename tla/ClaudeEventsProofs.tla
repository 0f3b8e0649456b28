-------------------------- MODULE ClaudeEventsProofs --------------------------
(***************************************************************************)
(* The translation of a turn's events, for every set of blocks, kinds,     *)
(* streams and indices, every number of lost events and every buffer cap:  *)
(*   - what the client is told of its items is a stream (ItemsStream);     *)
(*   - a question is asked once (AskedOnce).                               *)
(* And, unless a subagent that may write before its Task is known runs     *)
(* Tasks of its own (NotOvertaken):                                        *)
(*   - a block's events are translated in order (InOrder);                 *)
(*   - what is over is done for the client (SettledIsDone).                *)
(***************************************************************************)
EXTENDS ClaudeEvents, SequenceTheorems, TLAPS

\* What the client will have been told of an item when the pump has sent all.
Told(b) ==
    IF out = <<>> \/ out[1].item # b \/ out[1].note = "delta" THEN life[b]
    ELSE IF out[1].note = "started" THEN "open" ELSE "done"

\* An event makes one notification at most, and one the client expects.
Expected ==
    /\ out \in Seq(Stream!Note) /\ Len(out) <= 1
    /\ out # <<>> =>
          LET b == out[1].item IN
          CASE out[1].note = "started" ->
                   life[b] = "none" \/ (Kind[b] \in Deferred /\ life[b] = "open")
            [] out[1].note = "delta" -> life[b] = "open"
            [] out[1].note = "completed" ->
                   life[b] = "open" \/ (Kind[b] \in Deferred /\ life[b] = "none")

\* A table names open items only, each once.
OpenIn(table, kind) ==
    /\ table \in [Indices -> Blocks \cup {None}]
    /\ \A i \in Indices : table[i] # None => Kind[table[i]] = kind /\ Told(table[i]) = "open"
    /\ \A i, j \in Indices : table[i] = table[j] /\ table[i] # None => i = j

OpenCalls ==
    /\ toolAt \in [Indices -> Blocks \cup {None}]
    /\ \A i \in Indices : toolAt[i] # None => Kind[toolAt[i]] \notin Streamed
    /\ calls \subseteq Blocks /\ parents = calls
    /\ \A b \in calls :
          /\ Kind[b] \notin Streamed
          /\ Kind[b] \in Immediate => Told(b) = "open"
          /\ Kind[b] \in Deferred => Told(b) # "done"

Tables ==
    /\ life \in [Visible -> Stream!Lives]
    /\ Expected
    /\ OpenIn(texts, "text") /\ OpenIn(thinkings, "thinking")
    /\ OpenCalls
    /\ echoed \subseteq Blocks /\ asked \in Seq(Blocks)

\* No event of the block that starts it was translated.
Unheard(b) ==
    /\ b \in Visible => Told(b) = "none"
    /\ b \notin calls
    /\ \A i \in Indices : b \notin {texts[i], thinkings[i], toolAt[i]}
    /\ \A k \in DOMAIN asked : asked[k] # b

\* An event that waits is of the stream it waits for, and a block's start is
\* not there once the block was heard of.
Proper(p, e) ==
    /\ StreamOf[e.block] = p /\ e.index = index[e.block] /\ phase[e.block] # "new"
    /\ e.step = "answer" => Kind[e.block] \notin Streamed
    /\ e.step = "start" => Unheard(e.block)

StartsOnce(q) ==
    \A i, j \in DOMAIN q :
        q[i].step = "start" /\ q[j].step = "start" /\ q[i].block = q[j].block => i = j

Queue(p, q) ==
    /\ q \in Seq(Event)
    /\ \A i \in DOMAIN q : Proper(p, q[i])
    /\ StartsOnce(q)

Queues ==
    /\ buffer \in [Blocks -> Seq(Event)] /\ replay \in [Blocks -> Seq(Event)]
    /\ \A p \in Blocks :
          /\ \A q \in {buffer[p], replay[p]} : Queue(p, q)
          /\ buffer[p] = <<>> \/ replay[p] = <<>>
          /\ Len(buffer[p]) <= BufferCap

NewIsUnheard == \A b \in Blocks : phase[b] = "new" => Unheard(b) /\ translated[b] = "new"

Child ==
    /\ phase \in [Blocks -> Phases]
    /\ index \in [Blocks -> Indices]
    /\ next \in [Blocks \cup {Main} -> 0 .. MaxIndex + 1]

History ==
    /\ draining \in Blocks \cup {None}
    /\ translated \in [Blocks -> Phases]
    /\ lost \subseteq Blocks
    /\ crossed \in BOOLEAN

Heard == Child /\ Tables /\ Queues /\ NewIsUnheard /\ History

\* The inductive invariant of the stream.
StreamInv == Heard /\ last \in Stream!Note \cup {Stream!Nothing}

-----------------------------------------------------------------------------
(* What translating one event does to the tables.                          *)

LEMMA KindsOfBlocks ==
    /\ None \notin Blocks
    /\ \A b \in Blocks :
          /\ Kind[b] \in {"text", "thinking", "command", "dynamic", "task", "search", "todo", "question"}
          /\ b \in Visible <=> Kind[b] \notin Silent
    /\ Visible \subseteq Blocks
BY ClaudeEventsAssumption DEF Kinds, Streamed, Immediate, Deferred, Silent, Visible

LEMMA SayTells ==
    ASSUME out = <<>>, NEW n \in {"started", "delta", "completed"}, NEW b \in Visible,
           Say(n, b), life' = life
    PROVE  /\ out' \in Seq(Stream!Note) /\ Len(out') = 1 /\ out' # <<>>
           /\ out'[1].item = b /\ out'[1].note = n
           /\ \A w : w # b => Told(w)' = Told(w)
           /\ n = "delta" => Told(b)' = Told(b)
           /\ n = "started" => Told(b)' = "open"
           /\ n = "completed" => Told(b)' = "done"
<1>1. out' = <<[note |-> n, item |-> b]>>
  BY DEF Say
<1> QED
  BY <1>1 DEF Told, Stream!Note

LEMMA SilenceTells ==
    ASSUME out = <<>>, SayNothing, life' = life
    PROVE  out' = <<>> /\ \A w : Told(w)' = Told(w)
BY DEF SayNothing, Told

LEMMA StartKeepsTables ==
    ASSUME Tables, out = <<>>, life' = life, NEW b \in Blocks, NEW i \in Indices,
           Unheard(b), StartBlock(b, i)
    PROVE  Tables' /\ \A w \in Blocks : w # b /\ Unheard(w) => Unheard(w)'
<1> USE KindsOfBlocks DEF Streamed, Immediate, Deferred, Silent
<1>1. CASE Kind[b] \in Streamed \cup Immediate
  <2>1. Say("started", b) /\ b \in Visible /\ b \in Visible
    BY <1>1 DEF StartBlock
  <2>2. /\ out' \in Seq(Stream!Note) /\ Len(out') = 1 /\ out' # <<>>
        /\ out'[1].item = b /\ out'[1].note = "started"
        /\ \A w : w # b => Told(w)' = Told(w)
        /\ Told(b)' = "open"
    BY <2>1, SayTells
  <2>3. life[b] = "none"
    BY <2>1 DEF Unheard, Told
  <2>4. Expected'
    BY <2>2, <2>3 DEF Expected
  <2>5. OpenIn(texts, "text")'
    BY <1>1, <2>2 DEF Tables, StartBlock, OpenIn, Unheard
  <2>6. OpenIn(thinkings, "thinking")'
    BY <1>1, <2>2 DEF Tables, StartBlock, OpenIn, Unheard
  <2>7. OpenCalls'
    <3>1. CASE Kind[b] \in Streamed
      BY <3>1, <2>2 DEF Tables, StartBlock, OpenCalls, Unheard
    <3>2. CASE Kind[b] \in Immediate
      <4>1. toolAt' = [toolAt EXCEPT ![i] = b] /\ calls' = calls \cup {b} /\ parents' = calls'
        BY <3>2 DEF Tables, StartBlock, OpenCalls
      <4> QED
        BY <3>2, <2>2, <4>1 DEF Tables, OpenCalls
    <3> QED
      BY <1>1, <3>1, <3>2
  <2>8. \A w \in Blocks : w # b /\ Unheard(w) => Unheard(w)'
    BY <1>1, <2>2 DEF Tables, StartBlock, OpenCalls, OpenIn, Unheard, Visible
  <2> QED
    BY <2>4, <2>5, <2>6, <2>7, <2>8 DEF Tables, StartBlock
<1>2. CASE Kind[b] \notin Streamed \cup Immediate
  <2>2. out' = <<>> /\ \A w : Told(w)' = Told(w)
    BY <1>2, SilenceTells DEF StartBlock
  <2>4. Expected'
    BY <2>2 DEF Expected, Tables
  <2>5. OpenIn(texts, "text")' /\ OpenIn(thinkings, "thinking")'
    BY <1>2, <2>2 DEF Tables, StartBlock, OpenIn
  <2>7. OpenCalls'
    <3>1. toolAt' = [toolAt EXCEPT ![i] = b] /\ calls' = calls \cup {b} /\ parents' = calls'
      BY <1>2 DEF Tables, StartBlock, OpenCalls
    <3>2. /\ toolAt' \in [Indices -> Blocks \cup {None}]
          /\ \A j \in Indices : toolAt'[j] # None => Kind[toolAt'[j]] \notin Streamed
      BY <1>2, <3>1 DEF Tables, OpenCalls
    <3>3. Kind[b] \in Deferred => Told(b)' # "done"
      BY <2>2 DEF Unheard
    <3>4. ASSUME NEW w \in calls'
          PROVE  /\ w \in Blocks /\ Kind[w] \notin Streamed
                 /\ Kind[w] \in Immediate => Told(w)' = "open"
                 /\ Kind[w] \in Deferred => Told(w)' # "done"
      <4>1. CASE w = b
        BY <1>2, <3>3, <4>1
      <4>2. CASE w # b
        BY <2>2, <3>1, <4>2 DEF Tables, OpenCalls
      <4> QED
        BY <4>1, <4>2
    <3> QED
      BY <3>1, <3>2, <3>4 DEF OpenCalls
  <2>8. \A w \in Blocks : w # b /\ Unheard(w) => Unheard(w)'
    BY <1>2, <2>2 DEF Tables, StartBlock, OpenCalls, OpenIn, Unheard, Visible
  <2> QED
    BY <2>4, <2>5, <2>7, <2>8 DEF Tables, StartBlock
<1> QED
  BY <1>1, <1>2

LEMMA DeltaKeepsTables ==
    ASSUME Tables, out = <<>>, life' = life, NEW b \in Blocks, NEW i \in Indices,
           AddDelta(b, i)
    PROVE  Tables' /\ \A w \in Blocks : Unheard(w) => Unheard(w)'
<1> USE KindsOfBlocks DEF Streamed, Immediate, Deferred, Silent
<1>1. CASE Target(b, i) # None
  <2>1. PICK t \in Visible : t = Target(b, i) /\ Told(t) = "open"
    BY <1>1 DEF Target, Tables, OpenIn, OpenCalls
  <2>2. Say("delta", t)
    BY <1>1, <2>1 DEF AddDelta
  <2>3. life[t] = "open"
    BY <2>1 DEF Told
  <2>4. /\ out' \in Seq(Stream!Note) /\ Len(out') = 1 /\ out' # <<>>
        /\ out'[1].item = t /\ out'[1].note = "delta"
        /\ \A w : Told(w)' = Told(w)
    BY <2>1, <2>2, SayTells
  <2>5. Expected'
    BY <2>3, <2>4 DEF Expected
  <2> QED
    BY <2>4, <2>5 DEF Tables, AddDelta, tables, OpenIn, OpenCalls, Unheard
<1>2. CASE Target(b, i) = None
  <2>1. out' = <<>> /\ \A w : Told(w)' = Told(w)
    BY <1>2, SilenceTells DEF AddDelta
  <2> QED
    BY <2>1 DEF Tables, AddDelta, tables, OpenIn, OpenCalls, Unheard, Expected
<1> QED
  BY <1>1, <1>2

LEMMA CloseKeepsTables ==
    ASSUME Tables, out = <<>>, life' = life, NEW i \in Indices,
           \/ Has(texts, i) /\ CloseText(i)
           \/ Has(thinkings, i) /\ CloseThinking(i)
    PROVE  Tables' /\ \A w \in Blocks : Unheard(w) => Unheard(w)'
<1> USE KindsOfBlocks DEF Streamed, Immediate, Deferred, Silent
<1>1. CASE Has(texts, i) /\ CloseText(i)
  <2>1. PICK t \in Visible : t = texts[i] /\ Told(t) = "open" /\ Kind[t] = "text"
    BY <1>1 DEF Has, Tables, OpenIn
  <2>2. Say("completed", t)
    BY <1>1, <2>1 DEF CloseText
  <2>3. life[t] = "open"
    BY <2>1 DEF Told
  <2>4. /\ out' \in Seq(Stream!Note) /\ Len(out') = 1 /\ out' # <<>>
        /\ out'[1].item = t /\ out'[1].note = "completed"
        /\ \A w : w # t => Told(w)' = Told(w)
        /\ Told(t)' = "done"
    BY <2>1, <2>2, SayTells
  <2>5. Expected'
    BY <2>3, <2>4 DEF Expected
  <2>6. OpenIn(texts, "text")'
    BY <1>1, <2>1, <2>4 DEF Tables, CloseText, Without, OpenIn
  <2>7. OpenIn(thinkings, "thinking")'
    BY <1>1, <2>1, <2>4 DEF Tables, CloseText, OpenIn
  <2>8. OpenCalls'
    BY <1>1, <2>1, <2>4 DEF Tables, CloseText, OpenCalls
  <2>9. \A w \in Blocks : Unheard(w) => Unheard(w)'
    BY <1>1, <2>1, <2>4 DEF Tables, CloseText, Without, OpenIn, Unheard, Visible
  <2> QED
    BY <1>1, <2>5, <2>6, <2>7, <2>8, <2>9 DEF Tables, CloseText
<1>2. CASE Has(thinkings, i) /\ CloseThinking(i)
  <2>1. PICK t \in Visible : t = thinkings[i] /\ Told(t) = "open" /\ Kind[t] = "thinking"
    BY <1>2 DEF Has, Tables, OpenIn
  <2>2. Say("completed", t)
    BY <1>2, <2>1 DEF CloseThinking
  <2>3. life[t] = "open"
    BY <2>1 DEF Told
  <2>4. /\ out' \in Seq(Stream!Note) /\ Len(out') = 1 /\ out' # <<>>
        /\ out'[1].item = t /\ out'[1].note = "completed"
        /\ \A w : w # t => Told(w)' = Told(w)
        /\ Told(t)' = "done"
    BY <2>1, <2>2, SayTells
  <2>5. Expected'
    BY <2>3, <2>4 DEF Expected
  <2>6. OpenIn(thinkings, "thinking")'
    BY <1>2, <2>1, <2>4 DEF Tables, CloseThinking, Without, OpenIn
  <2>7. OpenIn(texts, "text")'
    BY <1>2, <2>1, <2>4 DEF Tables, CloseThinking, OpenIn
  <2>8. OpenCalls'
    BY <1>2, <2>1, <2>4 DEF Tables, CloseThinking, OpenCalls
  <2>9. \A w \in Blocks : Unheard(w) => Unheard(w)'
    BY <1>2, <2>1, <2>4 DEF Tables, CloseThinking, Without, OpenIn, Unheard, Visible
  <2> QED
    BY <1>2, <2>5, <2>6, <2>7, <2>8, <2>9 DEF Tables, CloseThinking
<1> QED
  BY <1>1, <1>2

LEMMA StopToolKeepsTables ==
    ASSUME Tables, out = <<>>, life' = life, NEW i \in Indices, StopTool(i)
    PROVE  Tables' /\ \A w \in Blocks : Unheard(w) => Unheard(w)'
<1> USE KindsOfBlocks DEF Streamed, Immediate, Deferred, Silent
<1>1. /\ UNCHANGED <<texts, thinkings, toolAt, calls, parents>>
      /\ asked' \in Seq(Blocks) /\ echoed' \subseteq Blocks
      /\ \A w \in Blocks : Unheard(w) => \A k \in DOMAIN asked' : asked'[k] # w
  <2>1. CASE asked' = asked
    BY <2>1 DEF StopTool, Tables, OpenCalls, Unheard
  <2>2. CASE toolAt[i] \in calls /\ asked' = Append(asked, toolAt[i])
    BY <2>2, AppendProperties DEF StopTool, Tables, OpenCalls, Unheard
  <2> QED
    BY <2>1, <2>2 DEF StopTool
<1> SUFFICES /\ Expected'
             /\ \A w : Told(w)' = Told(w) \/ (w \in calls /\ Kind[w] \in Deferred /\ Told(w)' = "open")
  BY <1>1 DEF Tables, OpenIn, OpenCalls, Unheard, Visible
<1>2. CASE SayNothing
  BY <1>2, SilenceTells DEF Expected, Tables
<1>3. CASE toolAt[i] \in calls /\ Kind[toolAt[i]] \in Deferred /\ Say("started", toolAt[i])
  <2>1. PICK t \in Visible : t = toolAt[i] /\ life[t] \in {"none", "open"}
    BY <1>3 DEF Tables, OpenCalls, Told, Stream!Lives
  <2>2. /\ t \in calls /\ Kind[t] \in Deferred /\ Say("started", t)
    BY <1>3, <2>1
  <2>3. /\ out' \in Seq(Stream!Note) /\ Len(out') = 1 /\ out' # <<>>
        /\ out'[1].item = t /\ out'[1].note = "started"
        /\ \A w : w # t => Told(w)' = Told(w)
        /\ Told(t)' = "open"
    BY <2>1, <2>2, SayTells
  <2> QED
    BY <2>1, <2>2, <2>3 DEF Expected
<1>4. CASE toolAt[i] \in calls /\ Kind[toolAt[i]] = "command" /\ Say("delta", toolAt[i])
  <2>1. PICK t \in Visible : t = toolAt[i] /\ life[t] = "open"
    BY <1>4 DEF Tables, OpenCalls, Told
  <2>2. Say("delta", t)
    BY <1>4, <2>1
  <2>3. /\ out' \in Seq(Stream!Note) /\ Len(out') = 1 /\ out' # <<>>
        /\ out'[1].item = t /\ out'[1].note = "delta"
        /\ \A w : Told(w)' = Told(w)
    BY <2>1, <2>2, SayTells
  <2> QED
    BY <2>1, <2>3 DEF Expected
<1> QED
  BY <1>2, <1>3, <1>4 DEF StopTool

LEMMA AnswerKeepsTables ==
    ASSUME Tables, out = <<>>, life' = life, NEW b \in Blocks, Kind[b] \notin Streamed,
           Answer(b)
    PROVE  Tables' /\ \A w \in Blocks : Unheard(w) => Unheard(w)'
<1> USE KindsOfBlocks DEF Streamed, Immediate, Deferred, Silent
<1>1. CASE b \in calls /\ Kind[b] \notin Silent
  <2>1. b \in Visible /\ Told(b) = life[b] /\ life[b] # "done"
        /\ (Kind[b] \in Immediate => life[b] = "open")
        /\ life[b] \in Stream!Lives
    BY <1>1 DEF Tables, OpenCalls, Told
  <2>2. /\ out' \in Seq(Stream!Note) /\ Len(out') = 1 /\ out' # <<>>
        /\ out'[1].item = b /\ out'[1].note = "completed"
        /\ \A w : w # b => Told(w)' = Told(w)
    BY <1>1, <2>1, SayTells DEF Answer
  <2>3. Expected'
    BY <1>1, <2>1, <2>2 DEF Expected, Stream!Lives
  <2>4. OpenIn(texts, "text")' /\ OpenIn(thinkings, "thinking")'
    BY <1>1, <2>2 DEF Tables, Answer, OpenIn
  <2>5. OpenCalls'
    BY <1>1, <2>2 DEF Tables, Answer, OpenCalls
  <2>6. \A w \in Blocks : Unheard(w) => Unheard(w)'
    BY <1>1, <2>2 DEF Tables, Answer, Unheard, Visible
  <2> QED
    BY <2>3, <2>4, <2>5, <2>6 DEF Tables, Answer
<1>2. CASE ~(b \in calls /\ Kind[b] \notin Silent)
  <2>1. out' = <<>> /\ \A w : Told(w)' = Told(w)
    BY <1>2, SilenceTells DEF Answer
  <2>2. OpenCalls'
    BY <2>1 DEF Tables, Answer, OpenCalls
  <2>3. \A w \in Blocks : Unheard(w) => Unheard(w)'
    BY <2>1 DEF Tables, Answer, Unheard, Visible
  <2> QED
    BY <2>1, <2>2, <2>3 DEF Tables, Answer, OpenIn, Expected
<1> QED
  BY <1>1, <1>2

\* Every handler keeps the tables, if a block is started once.
LEMMA TranslateKeepsTables ==
    ASSUME Tables, out = <<>>, life' = life, NEW e \in Event, TranslateOne(e),
           e.step = "start" => Unheard(e.block),
           e.step = "answer" => Kind[e.block] \notin Streamed
    PROVE  /\ Tables'
           /\ \A w \in Blocks : Unheard(w) /\ ~(e.step = "start" /\ w = e.block) => Unheard(w)'
<1>0. e.block \in Blocks /\ e.index \in Indices /\ e.step \in Steps
  BY DEF Event
<1>1. CASE e.step = "start"
  BY <1>0, <1>1, StartKeepsTables DEF TranslateOne
<1>2. CASE e.step = "delta"
  BY <1>0, <1>2, DeltaKeepsTables DEF TranslateOne
<1>3. CASE e.step = "stop"
  <2>1. StopBlock(e.index)
    BY <1>3 DEF TranslateOne
  <2>2. CASE StopTool(e.index)
    BY <1>0, <1>3, <2>2, StopToolKeepsTables
  <2>3. CASE ~StopTool(e.index)
    BY <1>0, <1>3, <2>1, <2>3, CloseKeepsTables DEF StopBlock
  <2> QED
    BY <2>2, <2>3
<1>4. CASE e.step = "answer"
  BY <1>0, <1>4, AnswerKeepsTables DEF TranslateOne
<1> QED
  BY <1>0, <1>1, <1>2, <1>3, <1>4 DEF Steps

-----------------------------------------------------------------------------
(* The queues.                                                             *)

LEMMA OneOfSeq ==
    ASSUME NEW S, NEW q \in Seq(S), Len(q) <= 1, q # <<>>
    PROVE  q = <<q[1]>> /\ q[1] \in S
<1>1. Len(q) \in Nat /\ (Len(q) = 0 => q = <<>>)
  BY EmptySeq, LenProperties, SeqEqual
<1>2. Len(q) = 1
  BY <1>1
<1>3. q[1] \in S
  BY <1>2, ElementOfSeq
<1>4. <<q[1]>> \in Seq(S) /\ Len(<<q[1]>>) = 1 /\ <<q[1]>>[1] = q[1]
  BY <1>3
<1> QED
  BY <1>2, <1>3, <1>4, SeqEqual

LEMMA TailOfQueue ==
    ASSUME NEW q \in Seq(Event), q # <<>>
    PROVE  /\ Head(q) = q[1] /\ 1 \in DOMAIN q /\ Tail(q) \in Seq(Event)
           /\ \A i \in DOMAIN Tail(q) : i + 1 \in DOMAIN q /\ i + 1 # 1 /\ Tail(q)[i] = q[i + 1]
           /\ Len(q) \in Nat /\ Len(Tail(q)) = Len(q) - 1
OBVIOUS

LEMMA AppendToQueue ==
    ASSUME NEW q \in Seq(Event), NEW e \in Event
    PROVE  /\ Append(q, e) \in Seq(Event) /\ Len(Append(q, e)) = Len(q) + 1 /\ Len(q) \in Nat
           /\ \A i \in DOMAIN Append(q, e) :
                 \/ i \in DOMAIN q /\ Append(q, e)[i] = q[i]
                 \/ i = Len(q) + 1 /\ Append(q, e)[i] = e
OBVIOUS

\* What a queue shows of its events stays so when they stay proper.
LEMMA TailIsQueue ==
    ASSUME NEW p \in Blocks, NEW q, Queue(p, q), q # <<>>
    PROVE  /\ Queue(p, Tail(q)) /\ Head(q) \in Event /\ Proper(p, Head(q))
           /\ Head(q).step = "start" =>
                 \A i \in DOMAIN Tail(q) :
                     ~(Tail(q)[i].step = "start" /\ Tail(q)[i].block = Head(q).block)
<1>1. q \in Seq(Event)
  BY DEF Queue
<1>2. /\ Head(q) = q[1] /\ 1 \in DOMAIN q /\ Tail(q) \in Seq(Event)
      /\ \A i \in DOMAIN Tail(q) : i + 1 \in DOMAIN q /\ i + 1 # 1 /\ Tail(q)[i] = q[i + 1]
  BY <1>1, TailOfQueue
<1>3. \A i \in DOMAIN Tail(q) : i \in Int
  BY <1>2
<1>4. StartsOnce(Tail(q))
  BY <1>2, <1>3 DEF Queue, StartsOnce
<1>5. Head(q) \in Event
  BY <1>1, <1>2
<1> QED
  BY <1>2, <1>4, <1>5 DEF Queue, StartsOnce

LEMMA StartsOnceAfterTail ==
    ASSUME NEW q \in Seq(Event), q # <<>>, StartsOnce(q)
    PROVE  StartsOnce(Tail(q))
<1>1. \A i \in DOMAIN Tail(q) : i + 1 \in DOMAIN q /\ Tail(q)[i] = q[i + 1] /\ i \in Int
  BY TailOfQueue
<1> QED
  BY <1>1 DEF StartsOnce

LEMMA StartsOnceAfterAppend ==
    ASSUME NEW q \in Seq(Event), StartsOnce(q), NEW e \in Event,
           e.step = "start" => \A i \in DOMAIN q : q[i].block # e.block
    PROVE  StartsOnce(Append(q, e))
<1>1. \A i \in DOMAIN Append(q, e) :
            \/ i \in DOMAIN q /\ Append(q, e)[i] = q[i]
            \/ i = Len(q) + 1 /\ Append(q, e)[i] = e
  BY AppendToQueue
<1> QED
  BY <1>1 DEF StartsOnce

LEMMA InQueue ==
    ASSUME NEW p, NEW q, Queue(p, q), NEW i \in DOMAIN q
    PROVE  /\ q[i] \in Event /\ q[i].block \in Blocks /\ q[i].step \in Steps
           /\ q[i].index \in Indices
           /\ StreamOf[q[i].block] = p /\ phase[q[i].block] # "new"
           /\ q[i].step = "start" => Unheard(q[i].block)
<1>1. q[i] \in Event /\ Proper(p, q[i])
  BY DEF Queue
<1> QED
  BY <1>1 DEF Event, Proper

LEMMA EmptyIsQueue == \A p : Queue(p, <<>>)
BY DEF Queue, StartsOnce

\* A step that leaves a queue's blocks as they are, unless it translates the
\* start of one, leaves the queue proper.
LEMMA QueueStays ==
    ASSUME NEW p \in Blocks, NEW q, Queue(p, q),
           \A i \in DOMAIN q :
              /\ index'[q[i].block] = index[q[i].block] /\ phase'[q[i].block] # "new"
              /\ q[i].step = "start" => Unheard(q[i].block)'
    PROVE  Queue(p, q)'
BY DEF Queue, Proper

-----------------------------------------------------------------------------
(* The actions.                                                            *)

LEMMA ReplayKeepsHeard ==
    ASSUME Heard, NEW p \in Blocks, Replay(p)
    PROVE  Heard'
<1>1. PICK q : q = replay[p] /\ Queue(p, q) /\ q # <<>> /\ buffer[p] = <<>>
  BY DEF Replay, Heard, Queues
<1>2. PICK e : e = Head(q)
  OBVIOUS
<1>3. PICK r : r = Tail(q)
  OBVIOUS
<1>4. /\ e \in Event /\ Proper(p, e) /\ Queue(p, r) /\ r \in Seq(Event)
      /\ e.step = "start" =>
            \A i \in DOMAIN r : ~(r[i].step = "start" /\ r[i].block = e.block)
  BY <1>1, <1>2, <1>3, TailIsQueue DEF Queue
<1>5. /\ out = <<>> /\ TranslateOne(e) /\ Record(e)
      /\ replay' = [replay EXCEPT ![p] = r]
      /\ UNCHANGED <<phase, index, next, buffer, life, last, lost>>
      /\ draining' \in {None, p}
  BY <1>1, <1>2, <1>3 DEF Replay, childVars
<1>6. /\ Tables'
      /\ \A w \in Blocks : Unheard(w) /\ ~(e.step = "start" /\ w = e.block) => Unheard(w)'
  BY <1>4, <1>5, TranslateKeepsTables DEF Heard, Proper
<1>7. e.block \in Blocks /\ StreamOf[e.block] = p /\ phase[e.block] # "new" /\ e.step \in Steps
  BY <1>4 DEF Event, Proper
<1>8. Queues'
  <2>1. replay' \in [Blocks -> Seq(Event)] /\ buffer' \in [Blocks -> Seq(Event)]
    BY <1>4, <1>5 DEF Heard, Queues
  <2> SUFFICES ASSUME NEW w \in Blocks
               PROVE  /\ \A x \in {buffer'[w], replay'[w]} : Queue(w, x)'
                      /\ buffer'[w] = <<>> \/ replay'[w] = <<>>
                      /\ Len(buffer'[w]) <= BufferCap
    BY <2>1 DEF Queues
  <2>2. CASE w = p
    <3>1. Queue(p, r)'
      <4> SUFFICES ASSUME NEW i \in DOMAIN r, r[i].step = "start" PROVE Unheard(r[i].block)'
        BY <1>4, <1>5, QueueStays DEF Queue, Proper
      <4>1. r[i].block \in Blocks /\ Unheard(r[i].block)
        BY <1>4, InQueue
      <4> QED
        BY <1>4, <1>6, <4>1
    <3>2. Queue(p, <<>>)'
      BY DEF Queue, StartsOnce
    <3>3. replay'[w] = r /\ buffer'[w] = <<>>
      BY <1>1, <1>5, <2>2 DEF Heard, Queues
    <3> QED
      BY <3>1, <3>2, <3>3, <2>2, ClaudeEventsAssumption
  <2>3. CASE w # p
    <3>1. replay'[w] = replay[w] /\ buffer'[w] = buffer[w]
      BY <1>5, <2>3 DEF Heard, Queues
    <3> SUFFICES ASSUME NEW x \in {buffer[w], replay[w]} PROVE Queue(w, x)'
      BY <3>1 DEF Heard, Queues
    <3>2. Queue(w, x)
      BY DEF Heard, Queues
    <3>3. ASSUME NEW i \in DOMAIN x, x[i].step = "start" PROVE Unheard(x[i].block)'
      <4>1. x[i].block \in Blocks /\ StreamOf[x[i].block] = w /\ Unheard(x[i].block)
        BY <3>2, <3>3, InQueue
      <4> QED
        BY <1>6, <1>7, <2>3, <4>1
    <3> QED
      BY <1>5, <3>2, <3>3, QueueStays DEF Queue, Proper
  <2> QED
    BY <2>2, <2>3
<1>9. NewIsUnheard'
  <2>1. \A b \in Blocks : b # e.block => translated'[b] = translated[b]
    BY <1>5, <1>7 DEF Record, Heard, History
  <2> QED
    BY <1>5, <1>6, <1>7, <2>1 DEF Heard, NewIsUnheard
<1>10. Child' /\ History'
  BY <1>5, <1>7 DEF Heard, Child, History, Record, PhaseAfter, Steps, Phases
<1> QED
  BY <1>6, <1>8, <1>9, <1>10 DEF Heard

\* Sending a notification changes nothing of what the client will know.
LEMMA DeliverTells ==
    ASSUME Heard, Deliver
    PROVE  /\ Stream!Next
           /\ \A b \in Visible : Told(b)' = Told(b)
           /\ life' \in [Visible -> Stream!Lives] /\ out' = <<>>
<1>1. PICK n \in Stream!Note : out = <<n>>
  <2>0. out \in Seq(Stream!Note) /\ Len(out) <= 1 /\ out # <<>>
    BY DEF Heard, Tables, Expected, Deliver
  <2>1. out = <<out[1]>> /\ out[1] \in Stream!Note
    BY <2>0, OneOfSeq
  <2> QED
    BY <2>1
<1>2. /\ n.item \in Visible /\ n = [note |-> n.note, item |-> n.item]
      /\ n.note \in {"started", "delta", "completed"}
  BY <1>1 DEF Stream!Note
<1>3. /\ last' = n /\ out' = <<>>
      /\ life' = CASE n.note = "started" -> [life EXCEPT ![n.item] = "open"]
                   [] n.note = "completed" -> [life EXCEPT ![n.item] = "done"]
                   [] OTHER -> life
  BY <1>1 DEF Deliver
<1>4. life \in [Visible -> Stream!Lives] /\ out # <<>> /\ out[1] = n
  BY <1>1 DEF Heard, Tables
<1>5. CASE n.note = "started"
  <2>1. life' = [life EXCEPT ![n.item] = "open"]
    BY <1>3, <1>5
  <2>2. life[n.item] \in (IF Kind[n.item] \in Deferred THEN {"none", "open"} ELSE {"none"})
    BY <1>4, <1>5 DEF Heard, Tables, Expected
  <2>3. Stream!Started(n.item)
    BY <1>2, <1>3, <1>5, <2>1, <2>2, KindsOfBlocks DEF Stream!Started, Stream!Tell
  <2> QED
    BY <1>2, <1>3, <1>4, <1>5, <2>1, <2>3 DEF Stream!Next, Told, Stream!Lives
<1>6. CASE n.note = "delta"
  <2>1. life' = life
    BY <1>3, <1>6
  <2>2. life[n.item] = "open"
    BY <1>4, <1>6 DEF Heard, Tables, Expected
  <2>3. Stream!Added(n.item)
    BY <1>2, <1>3, <1>6, <2>1, <2>2 DEF Stream!Added, Stream!Tell
  <2> QED
    BY <1>2, <1>3, <1>4, <1>6, <2>1, <2>3 DEF Stream!Next, Told
<1>7. CASE n.note = "completed"
  <2>1. life' = [life EXCEPT ![n.item] = "done"]
    BY <1>3, <1>7
  <2>2. life[n.item] \in (IF Kind[n.item] \in Deferred THEN {"none", "open"} ELSE {"open"})
    BY <1>4, <1>7 DEF Heard, Tables, Expected
  <2>3. Stream!Completed(n.item)
    BY <1>2, <1>3, <1>7, <2>1, <2>2, KindsOfBlocks DEF Stream!Completed, Stream!Tell
  <2> QED
    BY <1>2, <1>3, <1>4, <1>7, <2>1, <2>3 DEF Stream!Next, Told, Stream!Lives
<1> QED
  BY <1>2, <1>5, <1>6, <1>7

LEMMA DeliverKeepsHeard ==
    ASSUME Heard, Deliver
    PROVE  Heard' /\ last' \in Stream!Note
<1>1. /\ \A b \in Visible : Told(b)' = Told(b)
      /\ life' \in [Visible -> Stream!Lives] /\ out' = <<>>
  BY DeliverTells
<1>2. /\ UNCHANGED <<phase, index, next, texts, thinkings, toolAt, calls, echoed, parents,
                     asked, buffer, replay, draining, translated, lost, crossed>>
      /\ last' \in Stream!Note
  BY DEF Deliver, childVars, tables, history, Heard, Tables, Expected
<1>3. Tables'
  <2>1. OpenIn(texts, "text")' /\ OpenIn(thinkings, "thinking")'
    BY <1>1, <1>2, KindsOfBlocks DEF Heard, Tables, OpenIn, Silent
  <2>2. OpenCalls'
    BY <1>1, <1>2, KindsOfBlocks DEF Heard, Tables, OpenCalls, Silent, Immediate, Deferred
  <2> QED
    BY <1>1, <1>2, <2>1, <2>2 DEF Heard, Tables, Expected
<1>4. \A b \in Blocks : Unheard(b) => Unheard(b)'
  BY <1>1, <1>2 DEF Unheard
<1>5. NewIsUnheard'
  BY <1>2, <1>4 DEF Heard, NewIsUnheard
<1>6. Queues'
  <2> SUFFICES ASSUME NEW w \in Blocks, NEW x \in {buffer[w], replay[w]} PROVE Queue(w, x)'
    BY <1>2 DEF Heard, Queues
  <2>1. Queue(w, x)
    BY DEF Heard, Queues
  <2>2. ASSUME NEW i \in DOMAIN x, x[i].step = "start" PROVE Unheard(x[i].block)'
    BY <2>1, <2>2, <1>4, InQueue
  <2> QED
    BY <1>2, <2>1, <2>2, QueueStays DEF Queue, Proper
<1> QED
  BY <1>2, <1>3, <1>5, <1>6 DEF Heard, Child, History

\* An event of the child: what it does to the block, and that it is received.
Before(step) ==
    CASE step = "start" -> "new"
      [] step \in {"delta", "stop"} -> "writing"
      [] step = "answer" -> "written"

Advances(step, b, i) ==
    /\ Child'
    /\ phase[b] = Before(step) /\ phase'[b] = PhaseAfter(step)
    /\ index'[b] = i /\ (step # "start" => index[b] = i)
    /\ \A w \in Blocks : w # b => index'[w] = index[w] /\ phase'[w] = phase[w]
    /\ step = "answer" => Kind[b] \notin Streamed

LEMMA StepsAdvance ==
    ASSUME Child, NEW b \in Blocks,
           BlockStarts(b) \/ BlockGrows(b) \/ BlockStops(b) \/ ToolAnswered(b)
    PROVE  \E step \in Steps, i \in Indices : Advances(step, b, i) /\ Receive(step, b, i)
<1>1. CASE BlockStarts(b)
  <2>1. PICK i \in Indices :
           /\ index' = [index EXCEPT ![b] = i]
           /\ next' = [next EXCEPT ![StreamOf[b]] = i + 1]
           /\ Receive("start", b, i)
    BY <1>1 DEF BlockStarts
  <2>2. /\ StreamOf[b] \in Blocks \cup {Main} /\ i + 1 \in 0 .. MaxIndex + 1
        /\ phase' \in [Blocks -> Phases]
    <3>1. StreamOf[b] \in Blocks \cup {Main}
      BY ClaudeEventsAssumption
    <3>2. i + 1 \in 0 .. MaxIndex + 1
      BY ClaudeEventsAssumption DEF Indices
    <3>3. phase' = [phase EXCEPT ![b] = "writing"]
      BY <1>1 DEF BlockStarts
    <3> QED
      BY <3>1, <3>2, <3>3 DEF Child, Phases
  <2>3. Child'
    BY <2>1, <2>2 DEF Child
  <2>4. Advances("start", b, i)
    BY <1>1, <2>1, <2>3 DEF BlockStarts, Child, Advances, Before, PhaseAfter
  <2> QED
    BY <2>1, <2>4 DEF Steps
<1>2. CASE BlockGrows(b)
  <2>1. Advances("delta", b, index[b]) /\ index[b] \in Indices
    BY <1>2 DEF BlockGrows, Child, childVars, Advances, Before, PhaseAfter
  <2> QED
    BY <1>2, <2>1 DEF BlockGrows, Steps
<1>3. CASE BlockStops(b)
  <2>1. Advances("stop", b, index[b]) /\ index[b] \in Indices
    BY <1>3 DEF BlockStops, Child, Advances, Before, PhaseAfter, Phases
  <2> QED
    BY <1>3, <2>1 DEF BlockStops, Steps
<1>4. CASE ToolAnswered(b)
  <2>1. Advances("answer", b, index[b]) /\ index[b] \in Indices
    BY <1>4 DEF ToolAnswered, Child, Advances, Before, PhaseAfter, Phases
  <2> QED
    BY <1>4, <2>1 DEF ToolAnswered, Steps
<1> QED
  BY <1>1, <1>2, <1>3, <1>4

\* The queues stay proper along an event of b, if what was unheard of stays so.
LEMMA AdvanceKeepsQueue ==
    ASSUME Heard, NEW b \in Blocks, NEW step \in Steps, NEW i \in Indices, Advances(step, b, i),
           \A w \in Blocks : Unheard(w) /\ ~(step = "start" /\ w = b) => Unheard(w)',
           NEW p \in Blocks, NEW q \in {buffer[p], replay[p]}
    PROVE  /\ Queue(p, q) /\ Queue(p, q)'
           /\ step = "start" => \A k \in DOMAIN q : q[k].block # b
<1>1. Queue(p, q)
  BY DEF Heard, Queues
<1>2. step = "start" => \A k \in DOMAIN q : q[k].block # b
  BY <1>1, InQueue DEF Advances, Before
<1>3. phase'[b] # "new"
  BY DEF Advances, PhaseAfter, Steps
<1>4. ASSUME NEW k \in DOMAIN q
      PROVE  /\ index'[q[k].block] = index[q[k].block] /\ phase'[q[k].block] # "new"
             /\ q[k].step = "start" => Unheard(q[k].block)'
  <2>1. /\ q[k].block \in Blocks /\ phase[q[k].block] # "new"
        /\ q[k].step = "start" => Unheard(q[k].block)
        /\ q[k].block = b => step # "start"
    BY <1>1, <1>2, InQueue
  <2> QED
    BY <1>3, <2>1 DEF Advances
<1> QED
  BY <1>1, <1>2, <1>4, QueueStays

LEMMA AdvanceKeepsNew ==
    ASSUME Heard, NEW b \in Blocks, NEW step \in Steps, NEW i \in Indices, Advances(step, b, i),
           \A w \in Blocks : Unheard(w) /\ ~(step = "start" /\ w = b) => Unheard(w)',
           \A w \in Blocks : w # b => translated'[w] = translated[w]
    PROVE  NewIsUnheard'
<1>1. phase'[b] # "new"
  BY DEF Advances, PhaseAfter, Steps
<1> QED
  BY <1>1 DEF Heard, NewIsUnheard, Advances

LEMMA UnheardOnlyOfTables ==
    ASSUME UNCHANGED <<texts, thinkings, toolAt, calls, asked, out, life>>
    PROVE  \A w \in Blocks : Unheard(w) => Unheard(w)'
BY DEF Unheard, Told

LEMMA TablesOnlyOfTables ==
    ASSUME Tables, UNCHANGED <<tables, out, life>>
    PROVE  Tables'
<1>1. \A w : Told(w)' = Told(w)
  BY DEF Told
<1>2. Expected'
  BY DEF Tables, Expected
<1>3. OpenIn(texts, "text")' /\ OpenIn(thinkings, "thinking")'
  BY <1>1 DEF Tables, OpenIn, tables
<1>4. OpenCalls'
  BY <1>1 DEF Tables, OpenCalls, tables
<1> QED
  BY <1>2, <1>3, <1>4 DEF Tables, tables

LEMMA KeepKeepsHeard ==
    ASSUME Heard, NEW b \in Blocks, NEW step \in Steps, NEW i \in Indices, Advances(step, b, i),
           Idle, UNCHANGED <<draining, life>>,
           StreamOf[b] # Main, Keep([step |-> step, block |-> b, index |-> i])
    PROVE  Heard'
<1> DEFINE p == StreamOf[b]
           e == [step |-> step, block |-> b, index |-> i]
<1>1. /\ p \in Blocks /\ e \in Event
      /\ e.step = step /\ e.block = b /\ e.index = i
  BY ClaudeEventsAssumption DEF Event
<1>2. /\ buffer' = [buffer EXCEPT ![p] = Buffered(p, e)]
      /\ UNCHANGED <<tables, replay, out, translated, crossed, life, draining>>
      /\ lost' = IF Len(buffer[p]) >= BufferCap THEN lost \cup {buffer[p][1].block} ELSE lost
  BY <1>1 DEF Keep
<1>3. \A w \in Blocks : Unheard(w) => Unheard(w)'
  <2>1. UNCHANGED <<texts, thinkings, toolAt, calls, asked, out, life>>
    BY <1>2 DEF tables
  <2> QED
    BY <2>1, UnheardOnlyOfTables
<1>4. \A w \in Blocks : \A q \in {buffer[w], replay[w]} :
         /\ Queue(w, q) /\ Queue(w, q)'
         /\ step = "start" => \A k \in DOMAIN q : q[k].block # b
  BY <1>3, AdvanceKeepsQueue
<1> HIDE DEF e, p
<1>5. Proper(p, e)'
  <2>1. step = "start" => Unheard(b)'
    BY <1>3 DEF Advances, Before, Heard, NewIsUnheard
  <2> QED
    BY <1>1, <2>1 DEF Proper, Advances, PhaseAfter, Steps, p
<1>6. PICK q : q = buffer[p] /\ q \in Seq(Event) /\ Queue(p, q)' /\ Len(q) <= BufferCap
               /\ (step = "start" => \A k \in DOMAIN q : q[k].block # b)
  BY <1>1, <1>4 DEF Heard, Queues
<1>7. PICK r : r = IF Len(q) >= BufferCap THEN Tail(q) ELSE q
  OBVIOUS
<1>8. /\ Queue(p, r)' /\ r \in Seq(Event) /\ Len(r) < BufferCap
      /\ step = "start" => \A k \in DOMAIN r : r[k].block # b
      /\ lost' \subseteq Blocks
  <2>1. CASE Len(q) >= BufferCap
    <3>1. q # <<>>
      BY <1>6, <2>1, ClaudeEventsAssumption, EmptySeq
    <3>2. /\ Tail(q) \in Seq(Event) /\ Len(Tail(q)) = Len(q) - 1 /\ Len(q) \in Nat
          /\ \A k \in DOMAIN Tail(q) : k + 1 \in DOMAIN q /\ Tail(q)[k] = q[k + 1]
          /\ q[1] \in Event
      BY <1>6, <3>1, TailOfQueue
    <3>3. StartsOnce(Tail(q))
      BY <1>6, <3>1, StartsOnceAfterTail DEF Queue, StartsOnce
    <3>4. Queue(p, Tail(q))'
      BY <1>6, <3>2, <3>3 DEF Queue, StartsOnce
    <3>5. lost' \subseteq Blocks
      BY <1>2, <1>6, <3>2 DEF Heard, History, Event
    <3>6. Len(Tail(q)) < BufferCap
      BY <1>6, <3>2, ClaudeEventsAssumption
    <3> QED
      BY <1>6, <1>7, <2>1, <3>2, <3>4, <3>5, <3>6
  <2>2. CASE ~(Len(q) >= BufferCap)
    BY <1>2, <1>6, <1>7, <2>2, ClaudeEventsAssumption, LenProperties DEF Heard, History
  <2> QED
    BY <2>1, <2>2
<1>9. Queue(p, Append(r, e))' /\ Append(r, e) \in Seq(Event) /\ Len(Append(r, e)) <= BufferCap
  <2>1. StartsOnce(Append(r, e))
    BY <1>1, <1>8, StartsOnceAfterAppend DEF Queue, StartsOnce
  <2>2. /\ Append(r, e) \in Seq(Event) /\ Len(Append(r, e)) = Len(r) + 1 /\ Len(r) \in Nat
        /\ \A k \in DOMAIN Append(r, e) :
              \/ k \in DOMAIN r /\ Append(r, e)[k] = r[k]
              \/ k = Len(r) + 1 /\ Append(r, e)[k] = e
    BY <1>1, <1>8, AppendToQueue
  <2>3. Queue(p, Append(r, e))'
    BY <1>5, <1>8, <2>1, <2>2 DEF Queue, StartsOnce
  <2> QED
    BY <1>8, <2>2, <2>3, ClaudeEventsAssumption
<1>10. buffer' = [buffer EXCEPT ![p] = Append(r, e)]
  BY <1>2, <1>6, <1>7 DEF Buffered
<1>11. Queues'
  <2>1. PICK x : x = Append(r, e)
    OBVIOUS
  <2>2. buffer' = [buffer EXCEPT ![p] = x] /\ x \in Seq(Event) /\ Queue(p, x)' /\ Len(x) <= BufferCap
    BY <1>9, <1>10, <2>1
  <2>3. buffer' \in [Blocks -> Seq(Event)] /\ replay' = replay /\ \A w \in Blocks : replay[w] = <<>>
    BY <1>1, <1>2, <2>2 DEF Heard, Queues, Idle
  <2> SUFFICES ASSUME NEW w \in Blocks, NEW y \in {buffer'[w], replay'[w]}
               PROVE  Queue(w, y)' /\ Len(buffer'[w]) <= BufferCap
    BY <2>3 DEF Heard, Queues
  <2>4. w # p => buffer'[w] = buffer[w]
    BY <2>2 DEF Heard, Queues
  <2>5. w = p => buffer'[w] = x
    BY <1>1, <2>2 DEF Heard, Queues
  <2> QED
    BY <1>4, <2>2, <2>3, <2>4, <2>5 DEF Heard, Queues
<1> QED
  BY <1>2, <1>3, <1>8, <1>11, AdvanceKeepsNew, TablesOnlyOfTables DEF Heard, Advances, History

LEMMA TranslateKeepsHeard ==
    ASSUME Heard, NEW b \in Blocks, NEW step \in Steps, NEW i \in Indices, Advances(step, b, i),
           Idle, UNCHANGED <<draining, life>>,
           TranslateOne([step |-> step, block |-> b, index |-> i]),
           Record([step |-> step, block |-> b, index |-> i]), DrainAndCollect
    PROVE  Heard'
<1> DEFINE e == [step |-> step, block |-> b, index |-> i]
<1>1. /\ e \in Event /\ e.step = step /\ e.block = b /\ e.index = i
      /\ TranslateOne(e) /\ Record(e) /\ out = <<>> /\ life' = life /\ draining' = draining
  BY DEF Event, Idle
<1> HIDE DEF e
<1>2. step = "start" => Unheard(b)
  BY DEF Advances, Before, Heard, NewIsUnheard
<1>3. /\ Tables'
      /\ \A w \in Blocks : Unheard(w) /\ ~(step = "start" /\ w = b) => Unheard(w)'
  BY <1>1, <1>2, TranslateKeepsTables DEF Heard, Advances
<1>4. \A w \in Blocks : \A q \in {buffer[w], replay[w]} : Queue(w, q)'
  BY <1>3, AdvanceKeepsQueue
<1>5. PICK known \in SUBSET Blocks, stale \in SUBSET Blocks :
         /\ buffer' = [p \in Blocks |-> IF p \in known \cup stale THEN <<>> ELSE buffer[p]]
         /\ replay' = [p \in Blocks |-> IF p \in known THEN buffer[p] ELSE <<>>]
         /\ \E forgotten \in SUBSET Blocks : lost' = lost \cup forgotten
  <2> DEFINE held == {p \in Blocks : buffer[p] # <<>>}
             known == held \cap parents'
  <2>2. PICK stale \in SUBSET (held \ known) :
           /\ buffer' = [p \in Blocks |-> IF p \in known \cup stale THEN <<>> ELSE buffer[p]]
           /\ replay' = [p \in Blocks |-> IF p \in known THEN buffer[p] ELSE <<>>]
           /\ lost' = lost \cup {w \in Blocks : \E p \in stale : \E k \in DOMAIN buffer[p] :
                                                  buffer[p][k].block = w}
    BY DEF DrainAndCollect
  <2>3. known \in SUBSET Blocks /\ stale \in SUBSET Blocks
    OBVIOUS
  <2> HIDE DEF known, held
  <2> QED
    BY <2>2, <2>3
<1>6. Queue(b, <<>>)' /\ \A w \in Blocks : Queue(w, <<>>)'
  BY DEF Queue, StartsOnce
<1>7. Queues'
  <2>1. buffer' \in [Blocks -> Seq(Event)] /\ replay' \in [Blocks -> Seq(Event)]
    BY <1>5, <1>6 DEF Heard, Queues
  <2> SUFFICES ASSUME NEW w \in Blocks, NEW y \in {buffer'[w], replay'[w]}
               PROVE  /\ Queue(w, y)' /\ Len(buffer'[w]) <= BufferCap
                      /\ buffer'[w] = <<>> \/ replay'[w] = <<>>
    BY <2>1 DEF Queues
  <2>2. /\ buffer'[w] \in {<<>>, buffer[w]} /\ replay'[w] \in {<<>>, buffer[w]}
        /\ buffer'[w] = <<>> \/ replay'[w] = <<>>
    BY <1>5
  <2>3. Len(<<>>) <= BufferCap
    BY ClaudeEventsAssumption
  <2> QED
    BY <1>4, <1>6, <2>2, <2>3 DEF Heard, Queues
<1>8. NewIsUnheard'
  <2>1. \A w \in Blocks : w # b => translated'[w] = translated[w]
    BY <1>1 DEF Record, Heard, History
  <2> QED
    BY <1>3, <2>1, AdvanceKeepsNew
<1>9. History'
  <2>1. lost' \subseteq Blocks
    BY <1>5 DEF Heard, History
  <2>2. translated' \in [Blocks -> Phases] /\ crossed' \in BOOLEAN
    BY <1>1 DEF Record, Heard, History, PhaseAfter, Steps, Phases, Crosses
  <2> QED
    BY <1>1, <2>1, <2>2 DEF Heard, History
<1> QED
  BY <1>3, <1>7, <1>8, <1>9 DEF Heard, Advances

LEMMA ReceiveKeepsHeard ==
    ASSUME Heard, NEW b \in Blocks, NEW step \in Steps, NEW i \in Indices, Advances(step, b, i),
           Receive(step, b, i)
    PROVE  Heard'
<1>1. Idle /\ UNCHANGED <<draining, life>>
  BY DEF Receive
<1>2. CASE Translate([step |-> step, block |-> b, index |-> i])
  <2> DEFINE e == [step |-> step, block |-> b, index |-> i]
  <2>1. \/ StreamOf[b] # Main /\ Keep(e)
        \/ TranslateOne(e) /\ Record(e) /\ DrainAndCollect
    BY <1>2 DEF Translate
  <2> QED
    BY <1>1, <2>1, KeepKeepsHeard, TranslateKeepsHeard
<1>3. CASE /\ lost' = lost \cup {b}
           /\ UNCHANGED <<tables, buffer, replay, out, translated, crossed>>
  <2>1. UNCHANGED <<texts, thinkings, toolAt, calls, asked, out, life>>
    BY <1>1, <1>3 DEF tables
  <2>2. \A w \in Blocks : Unheard(w) => Unheard(w)'
    BY <2>1, UnheardOnlyOfTables
  <2>3. \A w \in Blocks : \A q \in {buffer[w], replay[w]} : Queue(w, q)'
    BY <2>2, AdvanceKeepsQueue
  <2>4. Queues'
    BY <1>3, <2>3 DEF Heard, Queues
  <2>5. NewIsUnheard'
    BY <1>3, <2>2, AdvanceKeepsNew
  <2> QED
    BY <1>1, <1>3, <2>4, <2>5, TablesOnlyOfTables DEF Heard, Advances, History
<1> QED
  BY <1>1, <1>2, <1>3 DEF Receive

LEMMA StreamInit == Init => StreamInv /\ Stream!Init
<1> SUFFICES ASSUME Init PROVE StreamInv /\ Stream!Init
  OBVIOUS
<1>1. Child /\ History /\ last = Stream!Nothing /\ life = [b \in Visible |-> "none"] /\ Stream!Init
  <2>1. Child
    <3>1. 0 \in Indices /\ 0 \in 0 .. MaxIndex + 1
      BY ClaudeEventsAssumption DEF Indices
    <3> QED
      BY <3>1 DEF Init, Child, Phases
  <2>2. History
    BY DEF Init, History, Phases
  <2>3. Stream!Init
    BY DEF Init
  <2> QED
    BY <2>1, <2>2, <2>3 DEF Stream!Init
<1>2. \A b \in Blocks : Unheard(b)
  BY <1>1, ClaudeEventsAssumption DEF Init, Unheard, Told
<1>3. Queues
  <2>1. \A w \in Blocks : buffer[w] = <<>> /\ replay[w] = <<>>
    BY DEF Init
  <2>2. Len(<<>>) <= BufferCap /\ <<>> \in Seq(Event)
    BY ClaudeEventsAssumption
  <2> QED
    BY <2>1, <2>2, EmptyIsQueue DEF Init, Queues
<1>4. Tables
  <2>1. out = <<>> /\ asked = <<>> /\ texts = [i \in Indices |-> None] /\ thinkings = texts /\ toolAt = texts
        /\ calls = {} /\ echoed = {} /\ parents = {}
    BY DEF Init
  <2>2. OpenIn(texts, "text") /\ OpenIn(thinkings, "thinking") /\ OpenCalls
    BY <2>1 DEF OpenIn, OpenCalls
  <2>3. Expected
    BY <2>1 DEF Expected
  <2> QED
    BY <1>1, <2>1, <2>2, <2>3 DEF Tables, Stream!Lives
<1>5. NewIsUnheard
  BY <1>2 DEF Init, NewIsUnheard
<1> QED
  BY <1>1, <1>3, <1>4, <1>5 DEF StreamInv, Heard

LEMMA StreamStep ==
    StreamInv /\ [Next]_vars => StreamInv' /\ [Stream!Next]_<<life, last>>
<1> SUFFICES ASSUME StreamInv, [Next]_vars PROVE StreamInv' /\ [Stream!Next]_<<life, last>>
  OBVIOUS
<1>1. Heard
  BY DEF StreamInv
<1>2. ASSUME NEW b \in Blocks,
             BlockStarts(b) \/ BlockGrows(b) \/ BlockStops(b) \/ ToolAnswered(b)
      PROVE  StreamInv' /\ UNCHANGED <<life, last>>
  <2>1. PICK step \in Steps, i \in Indices : Advances(step, b, i) /\ Receive(step, b, i)
    BY <1>1, <1>2, StepsAdvance DEF Heard
  <2>2. Heard'
    BY <1>1, <2>1, ReceiveKeepsHeard
  <2> QED
    BY <2>1, <2>2 DEF Receive, StreamInv
<1>3. ASSUME NEW p \in Blocks, Replay(p) PROVE StreamInv' /\ UNCHANGED <<life, last>>
  BY <1>1, <1>3, ReplayKeepsHeard DEF Replay, StreamInv
<1>4. CASE Deliver
  BY <1>1, <1>4, DeliverTells, DeliverKeepsHeard DEF StreamInv
<1>5. CASE UNCHANGED vars
  <2>1. UNCHANGED <<texts, thinkings, toolAt, calls, asked, out, life>>
        /\ UNCHANGED <<tables, childVars, history, buffer, replay, draining, last>>
    BY <1>5 DEF vars, tables
  <2>2. Tables'
    BY <1>1, <2>1, TablesOnlyOfTables DEF Heard
  <2>3. \A w \in Blocks : Unheard(w) => Unheard(w)'
    BY <2>1, UnheardOnlyOfTables
  <2>4. Queues'
    <3> SUFFICES ASSUME NEW w \in Blocks, NEW x \in {buffer[w], replay[w]} PROVE Queue(w, x)'
      BY <1>1, <2>1 DEF Heard, Queues
    <3>1. Queue(w, x)
      BY <1>1 DEF Heard, Queues
    <3>2. ASSUME NEW k \in DOMAIN x
          PROVE  /\ index'[x[k].block] = index[x[k].block] /\ phase'[x[k].block] # "new"
                 /\ x[k].step = "start" => Unheard(x[k].block)'
      BY <2>1, <2>3, <3>1, <3>2, InQueue DEF childVars
    <3> QED
      BY <3>1, <3>2, QueueStays
  <2> QED
    BY <1>1, <2>1, <2>2, <2>3, <2>4
    DEF StreamInv, Heard, Child, History, childVars, history, NewIsUnheard
<1> QED
  BY <1>2, <1>3, <1>4, <1>5 DEF Next

\* Whatever is lost, delayed or interleaved, a client never sees an item started
\* again once it is over, added to before it started or after it is over, or
\* completed twice.
THEOREM ClaudeItemsStream == Spec => ItemsStream
<1> QED
  BY StreamInit, StreamStep, PTL DEF Spec, ItemsStream, Stream!Spec

\* The translator's tables keep their types.
THEOREM EventsTypeCorrect == Spec => []TypeOK
<1>1. StreamInv => TypeOK
  BY DEF StreamInv, Heard, Child, Tables, Queues, History, OpenIn, OpenCalls, Expected, TypeOK
<1> QED
  BY <1>1, StreamInit, StreamStep, PTL DEF Spec

-----------------------------------------------------------------------------
(* As long as no two blocks of one index are open at once.                 *)

\* The blocks being written have an index each, and the table of their kind
\* has them there; the tables of texts and thoughts have nothing else.
Apart ==
    \A b, w \in Blocks :
        translated[b] = "writing" /\ translated[w] = "writing" /\ index[b] = index[w] => b = w

Placed ==
    \A b \in Blocks : translated[b] = "writing" =>
        /\ Kind[b] = "text" => texts[index[b]] = b
        /\ Kind[b] = "thinking" => thinkings[index[b]] = b
        /\ Kind[b] \notin Streamed => toolAt[index[b]] = b /\ b \in calls

StillWriting(table) ==
    \A i \in Indices : table[i] # None => translated[table[i]] = "writing" /\ index[table[i]] = i

\* What has stopped: a text is shown as done, a tool is still to be answered.
Stopped ==
    \A b \in Blocks :
        IF Kind[b] \in Streamed
        THEN translated[b] # "answered" /\ (translated[b] = "written" => Told(b) = "done")
        ELSE translated[b] = "written" => b \in calls

AskedWhenStopped ==
    /\ \A k \in DOMAIN asked : translated[asked[k]] \in {"written", "answered"}
    /\ \A j, k \in DOMAIN asked : asked[j] = asked[k] => j = k

Uncrossed ==
    Apart /\ Placed /\ StillWriting(texts) /\ StillWriting(thinkings) /\ Stopped /\ AskedWhenStopped

Indexed == crossed \/ Uncrossed

\* The event and the place its block has.
Located(e) ==
    /\ index' \in [Blocks -> Indices]
    /\ index'[e.block] = e.index
    /\ index[e.block] = e.index \/ translated[e.block] = "new"
    /\ \A w \in Blocks : w # e.block => index'[w] = index[w]
    /\ translated' = [translated EXCEPT ![e.block] = PhaseAfter(e.step)]
    /\ ~Crosses(e)

LEMMA StartKeepsUncrossed ==
    ASSUME Tables, Child, History, Uncrossed, out = <<>>, life' = life, NEW e \in Event,
           e.step = "start", Unheard(e.block), Located(e), StartBlock(e.block, e.index)
    PROVE  Uncrossed'
<1> USE KindsOfBlocks DEF Streamed, Immediate
<1>1. PICK b \in Blocks, i \in Indices : b = e.block /\ i = e.index
  BY DEF Event
<1>2. /\ translated' = [translated EXCEPT ![b] = "writing"]
      /\ \A w \in Blocks : translated[w] = "writing" => index[w] # i
      /\ index'[b] = i /\ \A w \in Blocks : w # b => index'[w] = index[w]
      /\ translated \in [Blocks -> Phases] /\ index \in [Blocks -> Indices]
  BY <1>1 DEF Located, Crosses, PhaseAfter, History, Child
<1>3. StartBlock(b, i) /\ Unheard(b)
  BY <1>1
<1>4. \A w \in Blocks : w # b => Told(w)' = Told(w)
  <2>1. CASE Say("started", b) /\ b \in Visible
    BY <2>1, SayTells
  <2>2. CASE SayNothing
    BY <2>2, SilenceTells
  <2> QED
    BY <1>3, <2>1, <2>2 DEF StartBlock, Silent
<1>5. Apart'
  BY <1>2 DEF Uncrossed, Apart
<1>6. Placed'
  <2> SUFFICES ASSUME NEW w \in Blocks, translated'[w] = "writing"
               PROVE  /\ Kind[w] = "text" => texts'[index'[w]] = w
                      /\ Kind[w] = "thinking" => thinkings'[index'[w]] = w
                      /\ Kind[w] \notin Streamed => toolAt'[index'[w]] = w /\ w \in calls'
    BY DEF Placed
  <2>1. CASE w = b
    BY <1>2, <1>3, <2>1 DEF StartBlock, Tables, OpenIn, OpenCalls
  <2>2. CASE w # b
    <3>1. /\ index'[w] = index[w] /\ index[w] # i /\ index[w] \in Indices
          /\ Kind[w] = "text" => texts[index[w]] = w
          /\ Kind[w] = "thinking" => thinkings[index[w]] = w
          /\ Kind[w] \notin Streamed => toolAt[index[w]] = w /\ w \in calls
      BY <1>2, <2>2 DEF Uncrossed, Placed
    <3> QED
      BY <1>3, <3>1 DEF StartBlock, Tables, OpenIn, OpenCalls
  <2> QED
    BY <2>1, <2>2
<1>7. StillWriting(texts)'
  BY <1>2, <1>3 DEF Uncrossed, StillWriting, StartBlock, Tables, OpenIn, Unheard
<1>8. StillWriting(thinkings)'
  BY <1>2, <1>3 DEF Uncrossed, StillWriting, StartBlock, Tables, OpenIn, Unheard
<1>9. Stopped'
  BY <1>2, <1>3, <1>4 DEF Uncrossed, Stopped, StartBlock
<1>10. AskedWhenStopped'
  BY <1>2, <1>3 DEF Uncrossed, AskedWhenStopped, StartBlock, Unheard, Tables
<1> QED
  BY <1>5, <1>6, <1>7, <1>8, <1>9, <1>10 DEF Uncrossed

LEMMA DeltaKeepsUncrossed ==
    ASSUME Tables, Child, History, Uncrossed, out = <<>>, life' = life, NEW e \in Event,
           e.step = "delta", Located(e), AddDelta(e.block, e.index)
    PROVE  Uncrossed'
<1> USE KindsOfBlocks DEF Streamed, Immediate
<1>1. PICK b \in Blocks, i \in Indices : b = e.block /\ i = e.index
  BY DEF Event
<1>2. /\ translated[b] = "writing" /\ translated' = translated
      /\ \A w \in Blocks : index'[w] = index[w]
  BY <1>1 DEF Located, Crosses, PhaseAfter, History
<1>3. \A w \in Blocks : Told(w)' = Told(w)
  <2>1. CASE Target(b, i) = None
    BY <1>1, <2>1, SilenceTells DEF AddDelta
  <2>2. CASE Target(b, i) # None
    <3>1. PICK t \in Visible : t = Target(b, i)
      BY <2>2 DEF Target, Tables, OpenIn, OpenCalls, Silent
    <3>2. Say("delta", t)
      BY <1>1, <2>2, <3>1 DEF AddDelta
    <3> QED
      BY <3>2, SayTells
  <2> QED
    BY <2>1, <2>2
<1>4. UNCHANGED <<texts, thinkings, toolAt, calls, asked>>
  BY DEF AddDelta, tables
<1>5. Apart' /\ Placed' /\ Stopped' /\ AskedWhenStopped'
  BY <1>2, <1>3, <1>4 DEF Uncrossed, Apart, Placed, Stopped, AskedWhenStopped
<1>6. \A t \in {texts, thinkings} : \A j \in Indices : t[j] # None => t[j] \in Blocks
  BY DEF Tables, OpenIn
<1>7. StillWriting(texts)' /\ StillWriting(thinkings)'
  BY <1>2, <1>4, <1>6 DEF Uncrossed, StillWriting
<1> QED
  BY <1>5, <1>7 DEF Uncrossed

\* The block that stops is the one its index names, in the order of the tables.
LEMMA StopFinds ==
    ASSUME Tables, Child, History, Uncrossed, NEW b \in Blocks, NEW i \in Indices,
           translated[b] = "writing", index[b] = i, StopBlock(i)
    PROVE  \/ Kind[b] = "text" /\ texts[i] = b /\ CloseText(i)
           \/ Kind[b] = "thinking" /\ thinkings[i] = b /\ CloseThinking(i)
           \/ Kind[b] \notin Streamed /\ toolAt[i] = b /\ b \in calls /\ StopTool(i)
<1> USE KindsOfBlocks DEF Streamed
<1>1. /\ texts[i] # None => texts[i] = b
      /\ thinkings[i] # None => thinkings[i] = b
  BY DEF Uncrossed, StillWriting, Apart, Tables, OpenIn
<1>2. /\ texts[i] # None => Kind[texts[i]] = "text"
      /\ thinkings[i] # None => Kind[thinkings[i]] = "thinking"
  BY DEF Tables, OpenIn
<1> QED
  BY <1>1, <1>2 DEF Uncrossed, Placed, StopBlock, Has

LEMMA StopKeepsUncrossed ==
    ASSUME Tables, Child, History, Uncrossed, out = <<>>, life' = life, NEW e \in Event,
           e.step = "stop", Located(e), StopBlock(e.index)
    PROVE  Uncrossed'
<1> USE KindsOfBlocks DEF Streamed, Immediate
<1>1. PICK b \in Blocks, i \in Indices : b = e.block /\ i = e.index
  BY DEF Event
<1>2. /\ translated[b] = "writing" /\ index[b] = i
      /\ translated' = [translated EXCEPT ![b] = "written"]
      /\ \A w \in Blocks : index'[w] = index[w]
      /\ translated \in [Blocks -> Phases]
      /\ \A w \in Blocks : index[w] \in Indices
  BY <1>1 DEF Located, Crosses, PhaseAfter, History, Child
<1>3. Apart'
  BY <1>2 DEF Uncrossed, Apart
<1>4. \A w \in Blocks : w # b /\ translated[w] = "writing" => index[w] # i
  BY <1>2 DEF Uncrossed, Apart
<1>5. CASE Kind[b] = "text" /\ texts[i] = b /\ CloseText(i)
  <2>1. Say("completed", b) /\ b \in Visible
    BY <1>5 DEF CloseText, Silent
  <2>2. Told(b)' = "done" /\ \A w : w # b => Told(w)' = Told(w)
    BY <2>1, SayTells
  <2>3. texts' = [texts EXCEPT ![i] = None] /\ UNCHANGED <<thinkings, toolAt, calls, asked>>
    BY <1>5 DEF CloseText, Without
  <2>4. Placed'
    BY <1>2, <1>4, <2>3 DEF Uncrossed, Placed, Tables, OpenIn
  <2>5. StillWriting(texts)'
    BY <1>2, <1>5, <2>3 DEF Uncrossed, StillWriting, Tables, OpenIn
  <2>6. StillWriting(thinkings)'
    BY <1>2, <1>5, <2>3 DEF Uncrossed, StillWriting, Tables, OpenIn
  <2>7. Stopped'
    BY <1>2, <1>5, <2>2, <2>3 DEF Uncrossed, Stopped
  <2>8. AskedWhenStopped'
    BY <1>2, <2>3 DEF Uncrossed, AskedWhenStopped, Tables
  <2> QED
    BY <1>3, <2>4, <2>5, <2>6, <2>7, <2>8 DEF Uncrossed
<1>6. CASE Kind[b] = "thinking" /\ thinkings[i] = b /\ CloseThinking(i)
  <2>1. Say("completed", b) /\ b \in Visible
    BY <1>6 DEF CloseThinking, Silent
  <2>2. Told(b)' = "done" /\ \A w : w # b => Told(w)' = Told(w)
    BY <2>1, SayTells
  <2>3. thinkings' = [thinkings EXCEPT ![i] = None] /\ UNCHANGED <<texts, toolAt, calls, asked>>
    BY <1>6 DEF CloseThinking, Without
  <2>4. Placed'
    BY <1>2, <1>4, <2>3 DEF Uncrossed, Placed, Tables, OpenIn
  <2>5. StillWriting(thinkings)'
    BY <1>2, <1>6, <2>3 DEF Uncrossed, StillWriting, Tables, OpenIn
  <2>6. StillWriting(texts)'
    BY <1>2, <1>6, <2>3 DEF Uncrossed, StillWriting, Tables, OpenIn
  <2>7. Stopped'
    BY <1>2, <1>6, <2>2, <2>3 DEF Uncrossed, Stopped
  <2>8. AskedWhenStopped'
    BY <1>2, <2>3 DEF Uncrossed, AskedWhenStopped, Tables
  <2> QED
    BY <1>3, <2>4, <2>5, <2>6, <2>7, <2>8 DEF Uncrossed
<1>7. CASE Kind[b] \notin Streamed /\ toolAt[i] = b /\ b \in calls /\ StopTool(i)
  <2>1. UNCHANGED <<texts, thinkings, toolAt, calls>> /\ (asked' = asked \/ asked' = Append(asked, b))
    BY <1>7 DEF StopTool
  <2>2. \A w : w # b => Told(w)' = Told(w)
    <3>1. CASE SayNothing
      BY <3>1, SilenceTells
    <3>2. CASE b \in Visible /\ Say("started", b)
      BY <3>2, SayTells
    <3>3. CASE b \in Visible /\ Say("delta", b)
      BY <3>3, SayTells
    <3> QED
      BY <1>7, <3>1, <3>2, <3>3 DEF StopTool, Deferred, Silent
  <2>3. Placed'
    BY <1>2, <2>1 DEF Uncrossed, Placed
  <2>4. StillWriting(texts)' /\ StillWriting(thinkings)'
    BY <1>2, <1>7, <2>1 DEF Uncrossed, StillWriting, Tables, OpenIn
  <2>5. Stopped'
    BY <1>2, <1>7, <2>1, <2>2 DEF Uncrossed, Stopped
  <2>6. AskedWhenStopped'
    <3>1. asked \in Seq(Blocks) /\ \A k \in DOMAIN asked : asked[k] \in Blocks /\ asked[k] # b
      BY <1>2 DEF Tables, Uncrossed, AskedWhenStopped
    <3>2. \A k \in DOMAIN asked : translated'[asked[k]] \in {"written", "answered"}
      BY <1>2, <3>1 DEF Uncrossed, AskedWhenStopped
    <3>3. CASE asked' = asked
      BY <3>2, <3>3 DEF Uncrossed, AskedWhenStopped
    <3>4. CASE asked' = Append(asked, b)
      <4>1. \A k \in DOMAIN asked' :
               \/ k \in DOMAIN asked /\ asked'[k] = asked[k]
               \/ k = Len(asked) + 1 /\ asked'[k] = b
        BY <3>1, <3>4, AppendProperties
      <4>2. translated'[b] = "written"
        BY <1>2
      <4> QED
        BY <3>1, <3>2, <4>1, <4>2 DEF Uncrossed, AskedWhenStopped
    <3> QED
      BY <2>1, <3>3, <3>4
  <2> QED
    BY <1>3, <2>3, <2>4, <2>5, <2>6 DEF Uncrossed
<1> QED
  BY <1>1, <1>2, <1>5, <1>6, <1>7, StopFinds

LEMMA AnswerKeepsUncrossed ==
    ASSUME Tables, Child, History, Uncrossed, out = <<>>, life' = life, NEW e \in Event,
           e.step = "answer", Kind[e.block] \notin Streamed, Located(e), Answer(e.block)
    PROVE  Uncrossed'
<1> USE KindsOfBlocks DEF Streamed, Immediate
<1>1. PICK b \in Blocks, i \in Indices : b = e.block /\ i = e.index
  BY DEF Event
<1>2. /\ translated' = [translated EXCEPT ![b] = "answered"] /\ Kind[b] \notin Streamed
      /\ \A w \in Blocks : w # b => index'[w] = index[w]
      /\ translated \in [Blocks -> Phases]
      /\ \A w \in Blocks : index[w] \in Indices
  BY <1>1 DEF Located, PhaseAfter, History, Child
<1>3. \A w : w # b => Told(w)' = Told(w)
  <2>1. CASE SayNothing
    BY <2>1, SilenceTells
  <2>2. CASE b \in Visible /\ Say("completed", b)
    BY <2>2, SayTells
  <2> QED
    BY <1>1, <2>1, <2>2 DEF Answer
<1>4. /\ UNCHANGED <<texts, thinkings, asked>> /\ calls' = calls \ {b}
      /\ \A j \in Indices : toolAt'[j] = toolAt[j] \/ toolAt[j] = b
  BY <1>1 DEF Answer
<1>5. Apart'
  BY <1>2 DEF Uncrossed, Apart
<1>6. Placed'
  BY <1>2, <1>4 DEF Uncrossed, Placed
<1>7. StillWriting(texts)' /\ StillWriting(thinkings)'
  BY <1>2, <1>4 DEF Uncrossed, StillWriting, Tables, OpenIn
<1>8. Stopped'
  BY <1>2, <1>3, <1>4 DEF Uncrossed, Stopped
<1>9. AskedWhenStopped'
  BY <1>2, <1>4 DEF Uncrossed, AskedWhenStopped, Tables
<1> QED
  BY <1>5, <1>6, <1>7, <1>8, <1>9 DEF Uncrossed

LEMMA TranslateKeepsUncrossed ==
    ASSUME Tables, Child, History, Uncrossed, out = <<>>, life' = life, NEW e \in Event,
           e.step = "start" => Unheard(e.block),
           e.step = "answer" => Kind[e.block] \notin Streamed,
           Located(e), TranslateOne(e)
    PROVE  Uncrossed'
<1>1. e.step \in Steps
  BY DEF Event
<1> QED
  BY <1>1, StartKeepsUncrossed, DeltaKeepsUncrossed, StopKeepsUncrossed, AnswerKeepsUncrossed
  DEF TranslateOne, Steps

\* Where nothing is translated.
LEMMA StillUncrossed ==
    ASSUME Heard, Uncrossed, UNCHANGED <<texts, thinkings, toolAt, calls, asked, translated>>,
           \A b \in Visible : Told(b)' = Told(b),
           \A b \in Blocks : translated[b] # "new" => index'[b] = index[b]
    PROVE  Uncrossed'
<1> USE KindsOfBlocks
<1>1. Apart' /\ Placed'
  BY DEF Uncrossed, Apart, Placed
<1>2. StillWriting(texts)' /\ StillWriting(thinkings)'
  BY DEF Uncrossed, StillWriting, Heard, Tables, OpenIn
<1>3. Stopped'
  BY DEF Uncrossed, Stopped, Streamed, Silent
<1>4. AskedWhenStopped'
  BY DEF Uncrossed, AskedWhenStopped
<1> QED
  BY <1>1, <1>2, <1>3, <1>4 DEF Uncrossed

LEMMA IndexedStep ==
    ASSUME Heard, Indexed, [Next]_vars
    PROVE  Indexed'
<1>1. ASSUME NEW b \in Blocks,
             BlockStarts(b) \/ BlockGrows(b) \/ BlockStops(b) \/ ToolAnswered(b)
      PROVE  Indexed'
  <2>1. PICK step \in Steps, i \in Indices : Advances(step, b, i) /\ Receive(step, b, i)
    BY <1>1, StepsAdvance DEF Heard
  <2>2. PICK e \in Event : e = [step |-> step, block |-> b, index |-> i]
    BY DEF Event
  <2>3. Idle /\ life' = life
    BY <2>1 DEF Receive
  <2>4. /\ index' \in [Blocks -> Indices] /\ index'[b] = i
        /\ index[b] = i \/ (translated[b] = "new" /\ Unheard(b))
        /\ step = "start" => Unheard(b)
        /\ step = "answer" => Kind[b] \notin Streamed
        /\ \A w \in Blocks : w # b => index'[w] = index[w]
    BY <2>1 DEF Advances, Before, Heard, NewIsUnheard, Child
  <2>5. CASE TranslateOne(e) /\ Record(e) /\ DrainAndCollect
    <3> SUFFICES ASSUME ~crossed' PROVE Uncrossed'
      BY DEF Indexed
    <3>1. ~Crosses(e) /\ ~crossed /\ translated' = [translated EXCEPT ![e.block] = PhaseAfter(e.step)]
      BY <2>5 DEF Record
    <3>2. Located(e)
      BY <2>2, <2>4, <3>1 DEF Located
    <3> QED
      BY <2>2, <2>3, <2>4, <2>5, <3>1, <3>2, TranslateKeepsUncrossed DEF Heard, Indexed, Idle
  <2>6. CASE UNCHANGED <<tables, out, translated, crossed>>
    <3> SUFFICES ASSUME ~crossed' PROVE Uncrossed'
      BY DEF Indexed
    <3>1. UNCHANGED <<texts, thinkings, toolAt, calls, asked, translated>> /\ ~crossed
      BY <2>6 DEF tables
    <3>2. \A w \in Visible : Told(w)' = Told(w)
      BY <2>3, <2>6 DEF Told
    <3> QED
      BY <2>4, <3>1, <3>2, StillUncrossed DEF Indexed
  <2> QED
    BY <2>1, <2>2, <2>5, <2>6 DEF Receive, Translate, Keep
<1>2. ASSUME NEW p \in Blocks, Replay(p) PROVE Indexed'
  <2> SUFFICES ASSUME ~crossed' PROVE Uncrossed'
    BY DEF Indexed
  <2>1. PICK e \in Event : e = Head(replay[p]) /\ Proper(p, e)
    BY <1>2, TailIsQueue DEF Replay, Heard, Queues
  <2>2. /\ out = <<>> /\ life' = life /\ TranslateOne(e) /\ Record(e) /\ index' = index
    BY <1>2, <2>1 DEF Replay, childVars
  <2>3. ~Crosses(e) /\ ~crossed /\ translated' = [translated EXCEPT ![e.block] = PhaseAfter(e.step)]
    BY <2>2 DEF Record
  <2>4. Located(e)
    BY <2>1, <2>2, <2>3 DEF Located, Proper, Heard, Child
  <2> QED
    BY <2>1, <2>2, <2>3, <2>4, TranslateKeepsUncrossed DEF Heard, Indexed, Proper
<1>3. CASE Deliver \/ UNCHANGED vars
  <2> SUFFICES ASSUME ~crossed' PROVE Uncrossed'
    BY DEF Indexed
  <2>1. UNCHANGED <<texts, thinkings, toolAt, calls, asked, translated, index, crossed>>
    BY <1>3 DEF Deliver, vars, tables, childVars, history
  <2>2. \A w \in Visible : Told(w)' = Told(w)
    <3>1. CASE Deliver
      BY <3>1, DeliverTells
    <3>2. CASE UNCHANGED vars
      BY <3>2 DEF vars, Told
    <3> QED
      BY <1>3, <3>1, <3>2
  <2> QED
    BY <2>1, <2>2, StillUncrossed DEF Indexed
<1> QED
  BY <1>1, <1>2, <1>3 DEF Next

LEMMA IndexedInit == Init => Indexed
<1> SUFFICES ASSUME Init PROVE Uncrossed
  BY DEF Indexed
<1>1. /\ \A b \in Blocks : translated[b] = "new"
      /\ asked = <<>> /\ \A i \in Indices : texts[i] = None /\ thinkings[i] = None
  BY DEF Init
<1> QED
  BY <1>1 DEF Uncrossed, Apart, Placed, StillWriting, Stopped, AskedWhenStopped

\* A question is put to the user once, as long as no two blocks of one index
\* were open together.
THEOREM QuestionsAskedOnce == Spec => []AskedOnce
<1>1. Indexed => AskedOnce
  BY DEF Indexed, Uncrossed, AskedWhenStopped, AskedOnce
<1>2. StreamInv => Heard
  BY DEF StreamInv
<1>3. StreamInv /\ Indexed /\ [Next]_vars => Indexed'
  BY <1>2, IndexedStep
<1> QED
  BY <1>1, <1>3, StreamInit, StreamStep, IndexedInit, PTL DEF Spec

-----------------------------------------------------------------------------
(* The order of a block's events, those that wait included.  Where a       *)
(* subagent runs Tasks of its own and their subagents may write before the *)
(* Task is known, the start of such a Task can itself be among the events  *)
(* that waited.  What waits for it is then left waiting when it has been   *)
(* translated, and the next event of its subagent overtakes it.            *)

NoNesting == \A b \in Blocks : StreamOf[b] # Main => StreamOf[StreamOf[b]] = Main
NotOvertaken == Unruly => NoNesting

\* If no subagent is ahead of its Task, what waits is of a Task that will not be
\* known again, and nothing is translated late.
NothingLate ==
    Unruly \/ \A p \in Blocks :
        /\ replay[p] = <<>>
        /\ buffer[p] # <<>> => p \notin parents /\ phase[p] # "new"
        /\ phase[p] # "new" /\ StreamOf[p] # Main => phase[StreamOf[p]] # "new"

Waiting(p) == IF replay[p] # <<>> THEN replay[p] ELSE buffer[p]

Rank(e) == Order[PhaseAfter(e.step)]

\* The events of b in q lead from stage t to stage f, one stage at a time.
Orderly(q, b, t, f) ==
    /\ t <= f
    /\ \A i \in DOMAIN q : q[i].block = b => t <= Rank(q[i]) /\ Rank(q[i]) <= f
    /\ \A i, j \in DOMAIN q :
          q[i].block = b /\ q[j].block = b /\ i < j => Rank(q[i]) <= Rank(q[j])
    /\ \A r \in t + 1 .. f : \E i \in DOMAIN q : q[i].block = b /\ Rank(q[i]) = r

InTurn ==
    /\ \A p \in parents : buffer[p] = <<>>
    /\ \A b \in Blocks \ lost :
          /\ StreamOf[b] = Main => translated[b] = phase[b]
          /\ StreamOf[b] # Main => \A q, t, f :
                q = Waiting(StreamOf[b]) /\ t = Order[translated[b]] /\ f = Order[phase[b]]
                    => Orderly(q, b, t, f)

OneStage == \A b \in Blocks : b \in lost' \/ Order[translated'[b]] - Order[translated[b]] \in {0, 1}

LEMMA Ranks ==
    /\ \A x \in Phases : Order[x] \in 0 .. 3
    /\ \A x, y \in Phases : Order[x] = Order[y] => x = y
    /\ \A e \in Event : Rank(e) \in 0 .. 3
    /\ \A step \in Steps :
          /\ Before(step) \in Phases /\ PhaseAfter(step) \in Phases
          /\ Order[PhaseAfter(step)] - Order[Before(step)] \in {0, 1}
BY DEF Order, Phases, Event, Steps, Rank, PhaseAfter, Before

LEMMA OrderlyTail ==
    ASSUME NEW q \in Seq(Event), q # <<>>, NEW b, NEW t \in 0 .. 3, NEW f \in 0 .. 3,
           Orderly(q, b, t, f)
    PROVE  IF Head(q).block = b
           THEN Rank(Head(q)) - t \in {0, 1} /\ Orderly(Tail(q), b, Rank(Head(q)), f)
           ELSE Orderly(Tail(q), b, t, f)
<1>1. /\ Head(q) = q[1] /\ 1 \in DOMAIN q /\ Tail(q) \in Seq(Event) /\ DOMAIN q = 1 .. Len(q)
      /\ DOMAIN Tail(q) = 1 .. Len(q) - 1 /\ Len(q) \in Nat
      /\ \A i \in DOMAIN Tail(q) : i + 1 \in DOMAIN q /\ Tail(q)[i] = q[i + 1]
  BY TailOfQueue
<1>2. \A i \in DOMAIN q : i = 1 \/ (i - 1 \in DOMAIN Tail(q) /\ Tail(q)[i - 1] = q[i])
  BY <1>1
<1>3. \A i \in DOMAIN q : Rank(q[i]) \in 0 .. 3
  BY <1>1, Ranks
<1>4. PICK r : r = Tail(q)
  OBVIOUS
<1>5. /\ \A i \in DOMAIN r : i \in Int /\ i >= 1 /\ i + 1 \in DOMAIN q /\ r[i] = q[i + 1]
      /\ \A i \in DOMAIN q : i = 1 \/ (i - 1 \in DOMAIN r /\ r[i - 1] = q[i])
  BY <1>1, <1>2, <1>4
<1>6. \A i, j \in DOMAIN r : r[i].block = b /\ r[j].block = b /\ i < j => Rank(r[i]) <= Rank(r[j])
  BY <1>5 DEF Orderly
<1>7. CASE q[1].block = b
  <2>1. PICK h \in 0 .. 3 : h = Rank(q[1])
    BY <1>1, <1>3
  <2>2. t <= h /\ h <= f
    BY <1>1, <1>7, <2>1 DEF Orderly
  <2>3. \A i \in DOMAIN q : q[i].block = b => h <= Rank(q[i]) /\ Rank(q[i]) <= f
    <3> SUFFICES ASSUME NEW i \in DOMAIN q, q[i].block = b
                 PROVE  h <= Rank(q[i]) /\ Rank(q[i]) <= f
      OBVIOUS
    <3>1. i = 1 \/ 1 < i
      BY <1>1
    <3> QED
      BY <1>1, <1>7, <2>1, <2>2, <3>1 DEF Orderly
  <2>4. h - t \in {0, 1}
    <3> SUFFICES ASSUME h > t + 1 PROVE FALSE
      BY <2>1, <2>2
    <3>1. PICK i \in DOMAIN q : q[i].block = b /\ Rank(q[i]) = t + 1
      BY <2>1, <2>2 DEF Orderly
    <3> QED
      BY <2>3, <3>1
  <2>5. \A s \in h + 1 .. f : \E i \in DOMAIN r : r[i].block = b /\ Rank(r[i]) = s
    <3> SUFFICES ASSUME NEW s \in h + 1 .. f
                 PROVE  \E i \in DOMAIN r : r[i].block = b /\ Rank(r[i]) = s
      OBVIOUS
    <3>1. PICK i \in DOMAIN q : q[i].block = b /\ Rank(q[i]) = s
      BY <2>1, <2>2 DEF Orderly
    <3>2. i # 1
      BY <2>1, <3>1
    <3> QED
      BY <1>5, <3>1, <3>2
  <2>6. \A i \in DOMAIN r : r[i].block = b => h <= Rank(r[i]) /\ Rank(r[i]) <= f
    BY <1>5, <2>3
  <2>7. Orderly(r, b, h, f)
    BY <1>6, <2>2, <2>5, <2>6 DEF Orderly
  <2> QED
    BY <1>1, <1>4, <1>7, <2>1, <2>4, <2>7
<1>8. CASE q[1].block # b
  <2>1. \A s \in t + 1 .. f : \E i \in DOMAIN r : r[i].block = b /\ Rank(r[i]) = s
    <3> SUFFICES ASSUME NEW s \in t + 1 .. f
                 PROVE  \E i \in DOMAIN r : r[i].block = b /\ Rank(r[i]) = s
      OBVIOUS
    <3>1. PICK i \in DOMAIN q : q[i].block = b /\ Rank(q[i]) = s
      BY DEF Orderly
    <3> QED
      BY <1>5, <1>8, <3>1
  <2>2. \A i \in DOMAIN r : r[i].block = b => t <= Rank(r[i]) /\ Rank(r[i]) <= f
    BY <1>5 DEF Orderly
  <2>3. Orderly(r, b, t, f)
    BY <1>6, <2>1, <2>2 DEF Orderly
  <2> QED
    BY <1>1, <1>4, <1>8, <2>3
<1> QED
  BY <1>7, <1>8

LEMMA OrderlyAppend ==
    ASSUME NEW q \in Seq(Event), NEW e \in Event, NEW b, NEW t \in 0 .. 3, NEW f \in 0 .. 3,
           Orderly(q, b, t, f)
    PROVE  /\ e.block = b /\ Rank(e) - f \in {0, 1} => Orderly(Append(q, e), b, t, Rank(e))
           /\ e.block # b => Orderly(Append(q, e), b, t, f)
<1>1. PICK r : r = Append(q, e)
  OBVIOUS
<1>2. /\ \A i \in DOMAIN r : i \in Int /\ ((i \in DOMAIN q /\ r[i] = q[i]) \/ (i = Len(q) + 1 /\ r[i] = e))
      /\ \A i \in DOMAIN q : i \in DOMAIN r /\ r[i] = q[i] /\ i < Len(q) + 1
      /\ Len(q) + 1 \in DOMAIN r /\ r[Len(q) + 1] = e /\ Len(q) \in Nat
  <2>1. /\ Len(q) \in Nat /\ DOMAIN q = 1 .. Len(q) /\ DOMAIN r = 1 .. Len(q) + 1
        /\ r[Len(q) + 1] = e
        /\ \A i \in 1 .. Len(q) : r[i] = q[i]
    BY <1>1
  <2>2. PICK n \in Nat : n = Len(q)
    BY <2>1
  <2>3. ASSUME NEW i \in DOMAIN r
        PROVE  i \in Int /\ ((i \in DOMAIN q /\ r[i] = q[i]) \/ (i = n + 1 /\ r[i] = e))
    <3>1. i \in 1 .. n + 1
      BY <2>1, <2>2
    <3>2. i \in 1 .. n \/ i = n + 1
      BY <3>1
    <3>3. CASE i \in 1 .. n
      BY <2>1, <2>2, <3>3
    <3>4. CASE i = n + 1
      BY <2>1, <2>2, <3>4
    <3> QED
      BY <3>2, <3>3, <3>4
  <2>4. ASSUME NEW i \in DOMAIN q PROVE i \in DOMAIN r /\ r[i] = q[i] /\ i < n + 1
    <3>1. i \in 1 .. n
      BY <2>1, <2>2
    <3>2. i \in 1 .. n + 1 /\ i < n + 1
      BY <3>1
    <3> QED
      BY <2>1, <2>2, <3>1, <3>2
  <2>5. n + 1 \in DOMAIN r
    BY <2>1, <2>2
  <2> QED
    BY <2>1, <2>2, <2>3, <2>4, <2>5
<1>3. /\ \A i \in DOMAIN q : Rank(q[i]) \in 0 .. 3
      /\ Rank(e) \in 0 .. 3
  BY Ranks
<1>4. CASE e.block = b /\ Rank(e) - f \in {0, 1}
  <2>1. PICK g \in 0 .. 3 : g = Rank(e)
    BY <1>3
  <2>2. g = f \/ g = f + 1
    BY <1>4, <2>1
  <2>3. \A i \in DOMAIN r : r[i].block = b => t <= Rank(r[i]) /\ Rank(r[i]) <= g
    BY <1>2, <1>3, <2>1, <2>2 DEF Orderly
  <2>4. \A i, j \in DOMAIN r : r[i].block = b /\ r[j].block = b /\ i < j => Rank(r[i]) <= Rank(r[j])
    <3> SUFFICES ASSUME NEW i \in DOMAIN r, NEW j \in DOMAIN r, r[i].block = b, r[j].block = b, i < j
                 PROVE  Rank(r[i]) <= Rank(r[j])
      OBVIOUS
    <3>1. i \in DOMAIN q /\ r[i] = q[i]
      BY <1>2
    <3>2. CASE j \in DOMAIN q
      BY <1>2, <3>1, <3>2 DEF Orderly
    <3>3. CASE j = Len(q) + 1
      BY <1>2, <2>1, <2>3, <3>1, <3>3
    <3> QED
      BY <1>2, <3>2, <3>3
  <2>5. \A s \in t + 1 .. g : \E i \in DOMAIN r : r[i].block = b /\ Rank(r[i]) = s
    <3> SUFFICES ASSUME NEW s \in t + 1 .. g
                 PROVE  \E i \in DOMAIN r : r[i].block = b /\ Rank(r[i]) = s
      OBVIOUS
    <3>1. CASE s \in t + 1 .. f
      <4>1. PICK i \in DOMAIN q : q[i].block = b /\ Rank(q[i]) = s
        BY <3>1 DEF Orderly
      <4> QED
        BY <1>2, <4>1
    <3>2. CASE s = g
      BY <1>2, <1>4, <2>1, <3>2
    <3> QED
      BY <2>2, <3>1, <3>2
  <2>6. t <= g
    BY <2>2 DEF Orderly
  <2>7. Orderly(r, b, t, g)
    BY <2>3, <2>4, <2>5, <2>6 DEF Orderly
  <2> QED
    BY <1>1, <1>4, <2>1, <2>7
<1>5. CASE e.block # b
  <2>1. \A i \in DOMAIN r : r[i].block = b => i \in DOMAIN q /\ r[i] = q[i]
    BY <1>2, <1>5
  <2>2. Orderly(r, b, t, f)
    BY <1>2, <2>1 DEF Orderly
  <2> QED
    BY <1>1, <1>5, <2>2
<1> QED
  BY <1>4, <1>5

LEMMA OrderlyNone ==
    ASSUME NEW q, NEW b, NEW t \in 0 .. 3, NEW f \in 0 .. 3, Orderly(q, b, t, f),
           \A i \in DOMAIN q : q[i].block # b
    PROVE  t = f
<1>1. t <= f /\ \A r \in t + 1 .. f : FALSE
  BY DEF Orderly
<1> QED
  BY <1>1

LEMMA OrderlyEmpty == \A b : \A t \in 0 .. 3 : Orderly(<<>>, b, t, t)
BY DEF Orderly

\* Translating an event of b.
LEMMA ParentsGrow ==
    ASSUME NEW e \in Event, TranslateOne(e)
    PROVE  /\ parents' \subseteq parents \cup {e.block}
           /\ e.step # "start" => parents' \subseteq parents
BY DEF TranslateOne, StartBlock, AddDelta, StopBlock, CloseText, CloseThinking, StopTool, Answer,
       tables, Event, Steps

LEMMA ReplayInTurn ==
    ASSUME NoNesting, Heard, InTurn, NEW p \in Blocks, Replay(p)
    PROVE  InTurn' /\ OneStage
<1>1. PICK q : q = replay[p] /\ Queue(p, q) /\ q # <<>> /\ buffer[p] = <<>> /\ q \in Seq(Event)
  BY DEF Replay, Heard, Queues, Queue
<1>2. PICK e : e = Head(q)
  OBVIOUS
<1>3. PICK r : r = Tail(q)
  OBVIOUS
<1>4. e \in Event /\ Proper(p, e)
  BY <1>1, <1>2, TailIsQueue
<1>5. /\ TranslateOne(e) /\ Record(e) /\ replay' = [replay EXCEPT ![p] = r]
      /\ UNCHANGED <<phase, index, next, buffer, life, last, lost>>
      /\ translated' = [translated EXCEPT ![e.block] = PhaseAfter(e.step)]
  BY <1>1, <1>2, <1>3 DEF Replay, childVars, Record
<1>6. e.block \in Blocks /\ StreamOf[e.block] = p /\ p # Main
  BY <1>4, ClaudeEventsAssumption DEF Proper, Event
<1>7. /\ Waiting(p) = q
      /\ \A w \in Blocks : Waiting(w)' = IF w = p THEN r ELSE Waiting(w)
  BY <1>1, <1>5 DEF Waiting, Heard, Queues
<1>8. \A w \in Blocks : translated[w] \in Phases /\ phase[w] \in Phases
      /\ translated'[w] = IF w = e.block THEN PhaseAfter(e.step) ELSE translated[w]
  BY <1>5 DEF Heard, History, Child
<1>9. ASSUME NEW b \in Blocks \ lost, StreamOf[b] # Main, NEW t, NEW f,
             t = Order[translated[b]], f = Order[phase[b]]
      PROVE  /\ t \in 0 .. 3 /\ f \in 0 .. 3
             /\ Orderly(Waiting(StreamOf[b]), b, t, f)
  BY <1>8, <1>9, Ranks DEF InTurn
<1>10. OneStage
  <2> SUFFICES ASSUME NEW b \in Blocks, b \notin lost
               PROVE  Order[translated'[b]] - Order[translated[b]] \in {0, 1}
    BY <1>5 DEF OneStage
  <2>1. PICK t, f : t = Order[translated[b]] /\ f = Order[phase[b]] /\ t \in 0 .. 3 /\ f \in 0 .. 3
    BY <1>8, Ranks
  <2>2. CASE b = e.block
    <3>1. Orderly(q, b, t, f)
      BY <1>6, <1>7, <1>9, <2>1, <2>2
    <3>2. Rank(e) - t \in {0, 1}
      BY <1>1, <1>2, <2>1, <2>2, <3>1, OrderlyTail
    <3> QED
      BY <1>8, <2>1, <2>2, <3>2 DEF Rank
  <2>3. CASE b # e.block
    BY <1>8, <2>1, <2>3
  <2> QED
    BY <2>2, <2>3
<1>11. ASSUME NEW b \in Blocks \ lost', StreamOf[b] # Main, NEW x, NEW t, NEW f,
              x = Waiting(StreamOf[b])', t = Order[translated'[b]], f = Order[phase'[b]]
       PROVE  Orderly(x, b, t, f)
  <2>1. b \notin lost /\ f = Order[phase[b]] /\ StreamOf[b] \in Blocks
    BY <1>5, <1>11, ClaudeEventsAssumption
  <2>2. PICK old : old = Order[translated[b]]
    OBVIOUS
  <2>3. old \in 0 .. 3 /\ f \in 0 .. 3 /\ Orderly(Waiting(StreamOf[b]), b, old, f)
    BY <1>9, <1>11, <2>1, <2>2
  <2>4. CASE b = e.block
    <3>1. x = r /\ Orderly(q, b, old, f) /\ t = Rank(e)
      BY <1>6, <1>7, <1>8, <1>11, <2>3, <2>4 DEF Rank
    <3> QED
      BY <1>1, <1>2, <1>3, <2>3, <2>4, <3>1, OrderlyTail
  <2>5. CASE b # e.block /\ StreamOf[b] = p
    <3>1. x = r /\ Orderly(q, b, old, f) /\ t = old
      BY <1>6, <1>7, <1>8, <1>11, <2>2, <2>3, <2>5
    <3> QED
      BY <1>1, <1>2, <1>3, <2>3, <2>5, <3>1, OrderlyTail
  <2>6. CASE StreamOf[b] # p
    <3>1. x = Waiting(StreamOf[b]) /\ t = old
      BY <1>6, <1>7, <1>8, <1>11, <2>1, <2>2, <2>6
    <3> QED
      BY <2>3, <3>1
  <2> QED
    BY <2>4, <2>5, <2>6
<1>12. ASSUME NEW b \in Blocks \ lost', StreamOf[b] = Main PROVE translated'[b] = phase'[b]
  BY <1>5, <1>6, <1>8, <1>12 DEF InTurn
<1>13. ASSUME NEW w \in parents' PROVE buffer'[w] = <<>>
  <2>1. CASE w \in parents
    BY <1>5, <2>1 DEF InTurn
  <2>2. CASE w = e.block
    <3> SUFFICES ASSUME buffer[w] # <<>> PROVE FALSE
      BY <1>5
    <3>1. PICK x : x = buffer[w] /\ x \in Seq(Event) /\ Queue(w, x) /\ x # <<>>
      BY <1>6, <2>2 DEF Heard, Queues, Queue
    <3>2. 1 \in DOMAIN x
      BY <3>1, TailOfQueue
    <3>3. x[1].block \in Blocks /\ StreamOf[x[1].block] = w
      BY <3>1, <3>2, InQueue
    <3> QED
      BY <1>6, <2>2, <3>3, ClaudeEventsAssumption DEF NoNesting
  <2> QED
    BY <1>4, <1>5, <2>1, <2>2, ParentsGrow
<1>14. InTurn'
  BY <1>11, <1>12, <1>13 DEF InTurn
<1> QED
  BY <1>10, <1>14

LEMMA KeepInTurn ==
    ASSUME Heard, InTurn, NEW b \in Blocks, NEW step \in Steps, NEW i \in Indices,
           Advances(step, b, i), Idle,
           StreamOf[b] \notin parents \cup {Main}, Keep([step |-> step, block |-> b, index |-> i])
    PROVE  InTurn' /\ OneStage
<1>1. PICK e \in Event : e = [step |-> step, block |-> b, index |-> i]
  BY DEF Event
<1>2. PICK p \in Blocks : p = StreamOf[b] /\ p \notin parents
  BY ClaudeEventsAssumption
<1>3. PICK q : q = buffer[p] /\ q \in Seq(Event) /\ Len(q) <= BufferCap
  BY <1>2 DEF Heard, Queues
<1>4. PICK r : r = IF Len(q) >= BufferCap THEN Tail(q) ELSE q
  OBVIOUS
<1>5. /\ buffer' = [buffer EXCEPT ![p] = Append(r, e)]
      /\ UNCHANGED <<parents, replay, translated>>
      /\ lost' = IF Len(q) >= BufferCap THEN lost \cup {q[1].block} ELSE lost
  BY <1>1, <1>2, <1>3, <1>4 DEF Keep, Buffered, tables
<1>6. Len(q) >= BufferCap => q # <<>> /\ Head(q) = q[1]
  BY <1>3, ClaudeEventsAssumption, EmptySeq, TailOfQueue
<1>7. r \in Seq(Event)
  BY <1>3, <1>4, <1>6, TailOfQueue
<1>8. \A w \in Blocks : replay[w] = <<>> /\ replay'[w] = <<>>
  BY <1>5 DEF Idle
<1>9. /\ Waiting(p) = q
      /\ \A w \in Blocks : Waiting(w)' = IF w = p THEN Append(r, e) ELSE Waiting(w)
  BY <1>2, <1>3, <1>5, <1>8 DEF Waiting, Heard, Queues
<1>10. /\ \A w \in Blocks : translated[w] \in Phases /\ phase[w] \in Phases
       /\ \A w \in Blocks : w # b => phase'[w] = phase[w]
       /\ Order[phase'[b]] - Order[phase[b]] \in {0, 1} /\ Order[phase'[b]] = Rank(e)
  BY <1>1, Ranks DEF Heard, History, Child, Advances, Rank
<1>11. OneStage
  BY <1>5, <1>10, Ranks DEF OneStage
<1>12. ASSUME NEW w \in Blocks \ lost', StreamOf[w] # Main, NEW x, NEW t, NEW f,
              x = Waiting(StreamOf[w])', t = Order[translated'[w]], f = Order[phase'[w]]
       PROVE  Orderly(x, w, t, f)
  <2>1. /\ w \notin lost /\ StreamOf[w] \in Blocks /\ t = Order[translated[w]] /\ t \in 0 .. 3
        /\ Len(q) >= BufferCap => w # q[1].block
    BY <1>5, <1>10, <1>12, ClaudeEventsAssumption, Ranks
  <2>2. PICK old : old = Order[phase[w]] /\ old \in 0 .. 3
    BY <1>10, Ranks
  <2>3. Orderly(Waiting(StreamOf[w]), w, t, old)
    BY <1>12, <2>1, <2>2 DEF InTurn
  <2>4. CASE StreamOf[w] = p
    <3>1. Orderly(q, w, t, old) /\ x = Append(r, e)
      BY <1>9, <1>12, <2>3, <2>4
    <3>2. Orderly(r, w, t, old)
      <4>1. CASE Len(q) >= BufferCap
        <5>1. Head(q).block # w /\ r = Tail(q)
          BY <1>4, <1>6, <2>1, <4>1
        <5> QED
          BY <1>3, <1>6, <2>1, <2>2, <3>1, <4>1, <5>1, OrderlyTail
      <4>2. CASE ~(Len(q) >= BufferCap)
        BY <1>4, <3>1, <4>2
      <4> QED
        BY <4>1, <4>2
    <3>3. CASE w = b
      <4>1. e.block = w /\ e \in Event /\ f = Rank(e) /\ Rank(e) - old \in {0, 1}
        BY <1>1, <1>10, <1>12, <2>2, <3>3
      <4>2. f \in 0 .. 3
        BY <1>10, <1>12, Ranks
      <4> QED
        BY <1>7, <2>1, <2>2, <3>1, <3>2, <4>1, <4>2, OrderlyAppend
    <3>4. CASE w # b
      <4>1. f = old /\ e.block # w
        BY <1>1, <1>10, <1>12, <2>2, <3>4
      <4> QED
        BY <1>7, <2>1, <2>2, <3>1, <3>2, <4>1, OrderlyAppend
    <3> QED
      BY <3>3, <3>4
  <2>5. CASE StreamOf[w] # p
    <3>1. x = Waiting(StreamOf[w]) /\ f = old
      BY <1>2, <1>9, <1>10, <1>12, <2>1, <2>2, <2>5
    <3> QED
      BY <2>3, <3>1
  <2> QED
    BY <2>4, <2>5
<1>13. ASSUME NEW w \in Blocks \ lost', StreamOf[w] = Main PROVE translated'[w] = phase'[w]
  BY <1>2, <1>5, <1>10, <1>13 DEF InTurn
<1>14. ASSUME NEW w \in parents' PROVE buffer'[w] = <<>>
  BY <1>2, <1>5, <1>14 DEF InTurn, Heard, Queues, Tables, OpenCalls
<1> QED
  BY <1>11, <1>12, <1>13, <1>14 DEF InTurn

\* What drain and collection leave where.
LEMMA DrainStep ==
    ASSUME DrainAndCollect
    PROVE  \E stale \in SUBSET Blocks :
              /\ \A w \in Blocks : w \in stale => w \notin parents'
              /\ \A w \in Blocks :
                    IF w \in stale \/ w \in parents'
                    THEN buffer'[w] = <<>>
                    ELSE buffer'[w] = buffer[w]
              /\ \A w \in Blocks : replay'[w] = IF w \in parents' THEN buffer[w] ELSE <<>>
              /\ lost \subseteq lost'
              /\ \A w \in Blocks : \A k \in DOMAIN buffer[w] :
                    w \in stale /\ buffer[w][k].block \in Blocks => buffer[w][k].block \in lost'
<1> DEFINE full == {p \in Blocks : buffer[p] # <<>>}
<1>1. PICK stale \in SUBSET (full \ (full \cap parents')) :
         /\ buffer' = [p \in Blocks |-> IF p \in (full \cap parents') \cup stale THEN <<>> ELSE buffer[p]]
         /\ replay' = [p \in Blocks |-> IF p \in full \cap parents' THEN buffer[p] ELSE <<>>]
         /\ lost' = lost \cup {b \in Blocks : \E p \in stale : \E i \in DOMAIN buffer[p] :
                                                  buffer[p][i].block = b}
  BY DEF DrainAndCollect
<1>2. stale \in SUBSET Blocks /\ \A w \in stale : w \notin parents'
  BY <1>1
<1>3. \A w \in Blocks : w \in parents' /\ w \notin full => buffer[w] = <<>>
  OBVIOUS
<1> HIDE DEF full
<1>4. \A w \in Blocks : w \notin full => buffer[w] = <<>>
  BY DEF full
<1> QED
  BY <1>1, <1>2, <1>4

LEMMA TranslateInTurn ==
    ASSUME Heard, InTurn, Heard', NEW b \in Blocks, NEW step \in Steps, NEW i \in Indices,
           Advances(step, b, i), Idle, StreamOf[b] \in parents \cup {Main},
           Record([step |-> step, block |-> b, index |-> i]), DrainAndCollect
    PROVE  InTurn' /\ OneStage
<1>1. /\ \A w \in Blocks : translated'[w] = IF w = b THEN PhaseAfter(step) ELSE translated[w]
      /\ \A w \in Blocks : phase'[w] = IF w = b THEN PhaseAfter(step) ELSE phase[w]
      /\ \A w \in Blocks : translated[w] \in Phases /\ phase[w] \in Phases
      /\ PhaseAfter(step) \in Phases /\ Order[PhaseAfter(step)] - Order[phase[b]] \in {0, 1}
  BY Ranks DEF Record, Heard, History, Child, Advances
<1>2. PICK stale \in SUBSET Blocks :
         /\ \A w \in Blocks : w \in stale => w \notin parents'
         /\ \A w \in Blocks :
               IF w \in stale \/ w \in parents'
               THEN buffer'[w] = <<>>
               ELSE buffer'[w] = buffer[w]
         /\ \A w \in Blocks : replay'[w] = IF w \in parents' THEN buffer[w] ELSE <<>>
         /\ lost \subseteq lost'
         /\ \A w \in Blocks : \A k \in DOMAIN buffer[w] :
               w \in stale /\ buffer[w][k].block \in Blocks => buffer[w][k].block \in lost'
  BY DrainStep
<1>3. \A w \in Blocks : /\ replay[w] = <<>> /\ Waiting(w) = buffer[w]
                        /\ Waiting(w)' = IF w \in stale THEN <<>> ELSE buffer[w]
  BY <1>2 DEF Idle, Waiting
<1>4. b \notin lost => translated[b] = phase[b]
  <2> SUFFICES ASSUME b \notin lost, StreamOf[b] \in parents, StreamOf[b] # Main
               PROVE  translated[b] = phase[b]
    BY DEF InTurn
  <2>1. StreamOf[b] \in Blocks /\ Waiting(StreamOf[b]) = <<>>
    BY <1>3, ClaudeEventsAssumption DEF InTurn
  <2>2. PICK t, f : t = Order[translated[b]] /\ f = Order[phase[b]] /\ t \in 0 .. 3 /\ f \in 0 .. 3
    BY <1>1, Ranks
  <2>3. Orderly(<<>>, b, t, f)
    BY <2>1, <2>2 DEF InTurn
  <2>4. t = f
    BY <2>2, <2>3, OrderlyNone
  <2> QED
    BY <1>1, <2>2, <2>4, Ranks
<1>5. OneStage
  <2> SUFFICES ASSUME NEW w \in Blocks, w \notin lost'
               PROVE  Order[translated'[w]] - Order[translated[w]] \in {0, 1}
    BY DEF OneStage
  <2>1. w \notin lost /\ Order[translated[w]] \in 0 .. 3
    BY <1>1, <1>2, Ranks
  <2> QED
    BY <1>1, <1>4, <2>1
<1>6. ASSUME NEW w \in Blocks \ lost', StreamOf[w] # Main, NEW x, NEW t, NEW f,
             x = Waiting(StreamOf[w])', t = Order[translated'[w]], f = Order[phase'[w]]
      PROVE  Orderly(x, w, t, f)
  <2>1. w \notin lost /\ StreamOf[w] \in Blocks
    BY <1>2, <1>6, ClaudeEventsAssumption
  <2>2. PICK p \in Blocks, q \in Seq(Event) : p = StreamOf[w] /\ q = buffer[p] /\ Waiting(p) = q
    BY <1>3, <2>1 DEF Heard, Queues
  <2>3. PICK old, end : /\ old = Order[translated[w]] /\ end = Order[phase[w]]
                        /\ old \in 0 .. 3 /\ end \in 0 .. 3
    BY <1>1, Ranks
  <2>4. Orderly(q, w, old, end)
    BY <1>6, <2>1, <2>2, <2>3 DEF InTurn
  <2>5. t \in 0 .. 3 /\ f \in 0 .. 3
    BY <1>1, <1>6, Ranks
  <2>6. CASE w = b
    <3>1. t = f /\ p \in parents /\ q = <<>>
      BY <1>1, <1>6, <2>2, <2>6 DEF InTurn
    <3>2. x = <<>>
      BY <1>3, <1>6, <2>2, <3>1
    <3> QED
      BY <2>5, <3>1, <3>2, OrderlyEmpty
  <2>7. CASE w # b
    <3>1. t = old /\ f = end
      BY <1>1, <1>6, <2>3, <2>7
    <3>2. CASE p \in stale
      <4>1. \A k \in DOMAIN q : q[k].block # w
        BY <1>2, <1>6, <2>2, <3>2
      <4>2. old = end
        BY <2>3, <2>4, <4>1, OrderlyNone
      <4>3. x = <<>>
        BY <1>3, <1>6, <2>2, <3>2
      <4> QED
        BY <2>3, <3>1, <4>2, <4>3, OrderlyEmpty
    <3>3. CASE p \notin stale
      <4>1. x = q
        BY <1>3, <1>6, <2>2, <3>3
      <4> QED
        BY <2>4, <3>1, <4>1
    <3> QED
      BY <3>2, <3>3
  <2> QED
    BY <2>6, <2>7
<1>7. ASSUME NEW w \in Blocks \ lost', StreamOf[w] = Main PROVE translated'[w] = phase'[w]
  BY <1>1, <1>2, <1>7 DEF InTurn
<1> QED
  <2>1. parents' \subseteq Blocks
    BY DEF Heard, Tables, OpenCalls
  <2> QED
    BY <1>2, <1>5, <1>6, <1>7, <2>1 DEF InTurn

\* Where nothing is translated, and nothing waits that did not.
LEMMA StillInTurn ==
    ASSUME InTurn, UNCHANGED <<parents, buffer, replay, translated>>, lost \subseteq lost',
           \A b \in Blocks : b \in lost' \/ phase'[b] = phase[b]
    PROVE  InTurn'
<1>1. \A p : Waiting(p)' = Waiting(p)
  BY DEF Waiting
<1>2. ASSUME NEW w \in Blocks \ lost', StreamOf[w] # Main, NEW x, NEW t, NEW f,
             x = Waiting(StreamOf[w])', t = Order[translated'[w]], f = Order[phase'[w]]
      PROVE  Orderly(x, w, t, f)
  <2>1. w \in Blocks \ lost /\ x = Waiting(StreamOf[w]) /\ t = Order[translated[w]] /\ f = Order[phase[w]]
    BY <1>1, <1>2
  <2> QED
    BY <1>2, <2>1 DEF InTurn
<1>3. ASSUME NEW w \in Blocks \ lost', StreamOf[w] = Main PROVE translated'[w] = phase'[w]
  BY <1>3 DEF InTurn
<1> QED
  BY <1>2, <1>3 DEF InTurn

LEMMA AdvanceIsRuly ==
    ASSUME Child, NEW b \in Blocks, ~Unruly,
           BlockStarts(b) \/ BlockGrows(b) \/ BlockStops(b) \/ ToolAnswered(b)
    PROVE  phase[b] # "new" \/ (StreamOf[b] # Main => phase[StreamOf[b]] # "new")
BY DEF BlockStarts, BlockGrows, BlockStops, ToolAnswered, Running

LEMMA NothingLateStep ==
    ASSUME Heard, Heard', NothingLate, [Next]_vars
    PROVE  NothingLate'
<1> SUFFICES ASSUME ~Unruly, NEW p \in Blocks
             PROVE  /\ replay'[p] = <<>>
                    /\ buffer'[p] # <<>> => p \notin parents' /\ phase'[p] # "new"
                    /\ phase'[p] # "new" /\ StreamOf[p] # Main => phase'[StreamOf[p]] # "new"
  BY DEF NothingLate
<1>0. \A w \in Blocks :
         /\ replay[w] = <<>>
         /\ buffer[w] # <<>> => w \notin parents /\ phase[w] # "new"
         /\ phase[w] # "new" /\ StreamOf[w] # Main => phase[StreamOf[w]] # "new"
         /\ StreamOf[w] # Main => StreamOf[w] \in Blocks
  BY ClaudeEventsAssumption DEF NothingLate
<1>1. ASSUME NEW b \in Blocks,
             BlockStarts(b) \/ BlockGrows(b) \/ BlockStops(b) \/ ToolAnswered(b)
      PROVE  /\ replay'[p] = <<>>
             /\ buffer'[p] # <<>> => p \notin parents' /\ phase'[p] # "new"
             /\ phase'[p] # "new" /\ StreamOf[p] # Main => phase'[StreamOf[p]] # "new"
  <2>1. PICK step \in Steps, i \in Indices : Advances(step, b, i) /\ Receive(step, b, i)
    BY <1>1, StepsAdvance DEF Heard
  <2>2. PICK e \in Event : e = [step |-> step, block |-> b, index |-> i]
    BY DEF Event
  <2>3. StreamOf[b] # Main => phase[StreamOf[b]] # "new"
    BY <1>0, <1>1, AdvanceIsRuly DEF Heard
  <2>4. /\ phase'[b] # "new" /\ \A w \in Blocks : w # b => phase'[w] = phase[w]
        /\ step = "start" <=> phase[b] = "new"
    BY <2>1 DEF Advances, Before, PhaseAfter, Steps
  <2>5. phase'[p] # "new" /\ StreamOf[p] # Main => phase'[StreamOf[p]] # "new"
    BY <1>0, <2>3, <2>4
  <2>6. CASE StreamOf[b] \notin parents \cup {Main} /\ Keep(e)
    <3>1. UNCHANGED <<parents, replay>>
      BY <2>6 DEF Keep, tables
    <3>2. \A w \in Blocks : w # StreamOf[b] => buffer'[w] = buffer[w]
      BY <2>2, <2>6 DEF Keep, Heard, Queues
    <3> QED
      BY <1>0, <2>3, <2>4, <2>5, <2>6, <3>1, <3>2
  <2>7. CASE TranslateOne(e) /\ Record(e) /\ DrainAndCollect
    <3>1. PICK stale \in SUBSET Blocks :
             /\ buffer'[p] = IF p \in stale \/ p \in parents' THEN <<>> ELSE buffer[p]
             /\ replay'[p] = IF p \in parents' THEN buffer[p] ELSE <<>>
      BY <2>7, DrainStep
    <3>2. p \in parents' => p \in parents \/ (p = b /\ phase[b] = "new")
      BY <2>2, <2>4, <2>7, ParentsGrow
    <3> QED
      BY <1>0, <2>4, <2>5, <3>1, <3>2
  <2>8. CASE UNCHANGED <<tables, buffer, replay, out, translated, crossed>>
    BY <1>0, <2>4, <2>5, <2>8 DEF tables
  <2> QED
    BY <2>1, <2>2, <2>6, <2>7, <2>8 DEF Receive, Translate
<1>2. ASSUME NEW w \in Blocks, Replay(w) PROVE FALSE
  BY <1>0, <1>2 DEF Replay
<1>3. CASE Deliver \/ UNCHANGED vars
  <2>1. UNCHANGED <<parents, buffer, replay, phase>>
    BY <1>3 DEF Deliver, vars, tables, childVars
  <2> QED
    BY <1>0, <2>1
<1> QED
  BY <1>1, <1>2, <1>3 DEF Next

LEMMA NothingLateInit == Init => NothingLate
BY ClaudeEventsAssumption DEF Init, NothingLate

LEMMA InTurnStep ==
    ASSUME NotOvertaken, Heard, Heard', NothingLate, InTurn, [Next]_vars
    PROVE  InTurn' /\ OneStage
<1>1. ASSUME NEW b \in Blocks,
             BlockStarts(b) \/ BlockGrows(b) \/ BlockStops(b) \/ ToolAnswered(b)
      PROVE  InTurn' /\ OneStage
  <2>1. PICK step \in Steps, i \in Indices : Advances(step, b, i) /\ Receive(step, b, i)
    BY <1>1, StepsAdvance DEF Heard
  <2>2. Idle
    BY <2>1 DEF Receive
  <2>3. CASE /\ StreamOf[b] \notin parents \cup {Main}
             /\ Keep([step |-> step, block |-> b, index |-> i])
    BY <2>1, <2>2, <2>3, KeepInTurn
  <2>4. CASE /\ StreamOf[b] \in parents \cup {Main}
             /\ Record([step |-> step, block |-> b, index |-> i]) /\ DrainAndCollect
    BY <2>1, <2>2, <2>4, TranslateInTurn
  <2>5. CASE /\ lost' = lost \cup {b}
             /\ UNCHANGED <<tables, buffer, replay, out, translated, crossed>>
    <3>1. InTurn'
      BY <2>1, <2>5, StillInTurn DEF tables, Advances
    <3>2. OneStage
      BY <2>5, Ranks DEF OneStage, Heard, History
    <3> QED
      BY <3>1, <3>2
  <2> QED
    BY <2>1, <2>3, <2>4, <2>5 DEF Receive, Translate
<1>2. ASSUME NEW p \in Blocks, Replay(p) PROVE InTurn' /\ OneStage
  <2>1. replay[p] # <<>>
    BY <1>2 DEF Replay
  <2>2. NoNesting
    BY <2>1 DEF NothingLate, NotOvertaken
  <2> QED
    BY <1>2, <2>2, ReplayInTurn
<1>3. CASE Deliver \/ UNCHANGED vars
  <2>1. UNCHANGED <<parents, buffer, replay, translated, lost, phase>>
    BY <1>3 DEF Deliver, vars, tables, childVars, history
  <2>2. InTurn'
    BY <2>1, StillInTurn
  <2>3. OneStage
    BY <2>1, Ranks DEF OneStage, Heard, History
  <2> QED
    BY <2>2, <2>3
<1> QED
  BY <1>1, <1>2, <1>3 DEF Next

LEMMA InTurnInit == Init => InTurn
<1> SUFFICES ASSUME Init PROVE InTurn
  OBVIOUS
<1>1. /\ parents = {} /\ \A b \in Blocks : phase[b] = "new" /\ translated[b] = "new"
      /\ \A p \in Blocks : Waiting(p) = <<>>
  BY DEF Init, Waiting
<1>2. Order["new"] = 0
  BY DEF Order
<1> QED
  BY <1>1, <1>2, OrderlyEmpty, ClaudeEventsAssumption DEF InTurn

\* The events of a block are translated in the order the child sent them, those
\* that waited for their parent included, unless one was lost -- if subagents that
\* may write before their Task is known run no Tasks of their own.
THEOREM BlocksInOrder ==
    ASSUME NotOvertaken
    PROVE  Spec => InOrder
<1>1. StreamInv => Heard
  BY DEF StreamInv
<1>2. StreamInv /\ StreamInv' /\ NothingLate /\ [Next]_vars => NothingLate'
  BY <1>1, NothingLateStep DEF StreamInv
<1>3. StreamInv /\ StreamInv' /\ NothingLate /\ InTurn /\ [Next]_vars => InTurn' /\ OneStage
  BY <1>1, InTurnStep DEF StreamInv
<1>4. OneStage => [\A b \in Blocks : b \in lost' \/ Order[translated'[b]] - Order[translated[b]] \in {0, 1}]_vars
  BY DEF OneStage
<1> QED
  BY <1>2, <1>3, <1>4, StreamInit, StreamStep, NothingLateInit, InTurnInit, PTL DEF Spec, InOrder

-----------------------------------------------------------------------------
(* A block that is over, and lost nothing, is done to the client.          *)

AnsweredIsDone ==
    crossed \/ \A b \in Visible \ lost :
        Kind[b] \notin Streamed /\ translated[b] = "answered" => Told(b) = "done"

LEMMA DoneStays ==
    ASSUME Tables, out = <<>>, life' = life, Tables', NEW b \in Visible, Told(b) = "done"
    PROVE  Told(b)' = "done"
BY DEF Tables, Expected, Told, Stream!Note

LEMMA AnswerCompletes ==
    ASSUME Tables, out = <<>>, life' = life, NEW b \in Visible, Answer(b), b \in calls
    PROVE  Told(b)' = "done"
<1>1. Say("completed", b)
  BY DEF Answer, Visible
<1> QED
  BY <1>1, SayTells

\* e is translated.
LEMMA TranslateAnswers ==
    ASSUME Heard, Heard', Uncrossed, AnsweredIsDone, ~crossed, OneStage, lost \subseteq lost',
           out = <<>>, life' = life, NEW e \in Event, TranslateOne(e),
           translated' = [translated EXCEPT ![e.block] = PhaseAfter(e.step)]
    PROVE  AnsweredIsDone'
<1> SUFFICES ASSUME NEW b \in Visible \ lost', Kind[b] \notin Streamed, translated'[b] = "answered"
             PROVE  Told(b)' = "done"
  BY DEF AnsweredIsDone
<1>1. b \in Blocks /\ b \notin lost /\ e.step \in Steps
  BY KindsOfBlocks DEF Event
<1>2. CASE translated[b] = "answered"
  BY <1>1, <1>2, DoneStays DEF Heard, AnsweredIsDone
<1>3. CASE translated[b] # "answered"
  <2>1. e.block = b /\ e.step = "answer" /\ translated[b] \in Phases
    BY <1>1, <1>3 DEF Heard, History, PhaseAfter, Steps
  <2>2. Answer(b)
    BY <2>1 DEF TranslateOne
  <2>3. translated[b] = "written"
    BY <1>1, <1>3, <2>1 DEF OneStage, Order, Phases
  <2>4. b \in calls
    BY <1>1, <2>3 DEF Uncrossed, Stopped
  <2> QED
    BY <2>2, <2>4, AnswerCompletes DEF Heard
<1> QED
  BY <1>2, <1>3

LEMMA AnsweredStep ==
    ASSUME Heard, Heard', Indexed, AnsweredIsDone, OneStage, [Next]_vars
    PROVE  AnsweredIsDone'
<1> SUFFICES ASSUME ~crossed' PROVE AnsweredIsDone'
  BY DEF AnsweredIsDone
<1>1. ASSUME NEW b \in Blocks,
             BlockStarts(b) \/ BlockGrows(b) \/ BlockStops(b) \/ ToolAnswered(b)
      PROVE  AnsweredIsDone'
  <2>1. PICK step \in Steps, i \in Indices : Receive(step, b, i)
    BY <1>1, StepsAdvance DEF Heard
  <2>2. PICK e \in Event : e = [step |-> step, block |-> b, index |-> i]
    BY DEF Event
  <2>3. Idle /\ life' = life
    BY <2>1 DEF Receive
  <2>4. CASE TranslateOne(e) /\ Record(e) /\ DrainAndCollect
    <3>1. ~crossed /\ translated' = [translated EXCEPT ![e.block] = PhaseAfter(e.step)]
      BY <2>4 DEF Record
    <3>2. lost \subseteq lost'
      BY <2>4 DEF DrainAndCollect
    <3> QED
      BY <2>3, <2>4, <3>1, <3>2, TranslateAnswers DEF Indexed, Idle
  <2>5. CASE lost \subseteq lost' /\ UNCHANGED <<out, translated, crossed>>
    BY <2>3, <2>5 DEF AnsweredIsDone, Told
  <2> QED
    BY <2>1, <2>2, <2>4, <2>5 DEF Receive, Translate, Keep
<1>2. ASSUME NEW p \in Blocks, Replay(p) PROVE AnsweredIsDone'
  <2>1. PICK e \in Event : e = Head(replay[p])
    BY <1>2, TailIsQueue DEF Replay, Heard, Queues
  <2>2. /\ out = <<>> /\ life' = life /\ TranslateOne(e) /\ Record(e) /\ lost' = lost
    BY <1>2, <2>1 DEF Replay
  <2>3. ~crossed /\ translated' = [translated EXCEPT ![e.block] = PhaseAfter(e.step)]
    BY <2>2 DEF Record
  <2> QED
    BY <2>2, <2>3, TranslateAnswers DEF Indexed
<1>3. CASE Deliver
  <2>1. UNCHANGED <<translated, lost, crossed>> /\ \A b \in Visible : Told(b)' = Told(b)
    BY <1>3, DeliverTells DEF Deliver, history
  <2> QED
    BY <2>1 DEF AnsweredIsDone
<1>4. CASE UNCHANGED vars
  BY <1>4 DEF vars, history, AnsweredIsDone, Told
<1> QED
  BY <1>1, <1>2, <1>3, <1>4 DEF Next

LEMMA AnsweredInit == Init => AnsweredIsDone
BY KindsOfBlocks DEF Init, AnsweredIsDone

\* As long as no two blocks of one index were open together, a block every event
\* of which was translated is done to the client once it is over -- if subagents
\* that may write before their Task is known run no Tasks of their own.
THEOREM SettledAlwaysDone ==
    ASSUME NotOvertaken
    PROVE  Spec => []SettledIsDone
<1>1. Indexed /\ AnsweredIsDone => SettledIsDone
  BY KindsOfBlocks DEF Indexed, Uncrossed, Stopped, AnsweredIsDone, SettledIsDone, Settled, Told
<1>2. StreamInv => Heard
  BY DEF StreamInv
<1>3. StreamInv /\ StreamInv' /\ NothingLate /\ [Next]_vars => NothingLate'
  BY <1>2, NothingLateStep DEF StreamInv
<1>4. StreamInv /\ StreamInv' /\ NothingLate /\ InTurn /\ [Next]_vars => InTurn' /\ OneStage
  BY <1>2, InTurnStep DEF StreamInv
<1>5. StreamInv /\ Indexed /\ [Next]_vars => Indexed'
  BY <1>2, IndexedStep
<1>6. StreamInv /\ StreamInv' /\ Indexed /\ AnsweredIsDone /\ OneStage /\ [Next]_vars => AnsweredIsDone'
  BY <1>2, AnsweredStep DEF StreamInv
<1> QED
  BY <1>1, <1>3, <1>4, <1>5, <1>6, StreamInit, StreamStep, NothingLateInit, InTurnInit, IndexedInit,
     AnsweredInit, PTL DEF Spec
=============================================================================
