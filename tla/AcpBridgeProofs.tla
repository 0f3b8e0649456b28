---------------------------- MODULE AcpBridgeProofs ----------------------------
(***************************************************************************)
(* The agent does not say which request a notification is about, so that   *)
(* StreamIsOwn rests on the whole of the protocol: on the slot, which one  *)
(* request has at a time; on the pipe, which holds nothing of a request    *)
(* once that has got its answer; and on the subscriber, which goes with    *)
(* the slot.  What a turn's emitter makes of its stream is then proved     *)
(* note by note: ItemsStream and StoredAsStreamed.  For any requests,      *)
(* agents and scripts.                                                     *)
(***************************************************************************)
EXTENDS AcpBridge, FiniteSetTheorems, TLAPS

InLine(r) == call[r] \in {"queued", "registered", "waiting"}
InUse(r) == call[r] \in {"registered", "waiting"}
NoClient == {"new", "missed", "spawning", "done", "failed"}
Unsent == NoClient \cup {"held", "queued"}

\* A client's line is made of the requests that wait for it, each once, with the one
\* that uses the slot at its head.
Slots ==
    /\ \A r \in Requests : client[r] = None <=> call[r] \in NoClient
    /\ \A c \in Clients : \A k \in 1 .. Len(lock[c]) :
          InLine(lock[c][k]) /\ client[lock[c][k]] = c
    /\ \A r \in Requests : InLine(r) => \E k \in 1 .. Len(lock[client[r]]) : lock[client[r]][k] = r
    /\ \A c \in Clients : \A j, k \in 1 .. Len(lock[c]) : lock[c][j] = lock[c][k] => j = k
    /\ \A r \in Requests : InUse(r) => lock[client[r]][1] = r

\* Only the slot's user has anything registered, and a prompt always its subscriber.
Registered ==
    /\ \A c \in Clients : \A r \in pending[c] : InUse(r) /\ client[r] = c /\ reply[r] = "none"
    /\ \A c \in Clients : subscriber[c] # None =>
          subscriber[c] \in Prompts /\ InUse(subscriber[c]) /\ client[subscriber[c]] = c
    /\ \A r \in Prompts : InUse(r) => subscriber[client[r]] = r

Living ==
    /\ \A r \in Requests : client[r] # None => reader[client[r]] # "none"
    /\ \A k \in Keys : pool[k] # None => reader[pool[k]] # "none"
    /\ \A c \in Clients : working[c] # None => c \in alive
    /\ \A r \in Requests : call[r] \in Unsent => reply[r] = "none"
    /\ \A r \in Requests : call[r] = "registered" /\ reply[r] # "none" => client[r] \notin alive

\* A pipe p holds notifications of h, and last its answer, after which h is not
\* worked on.
Carries(p, h, w) ==
    \A k \in 1 .. Len(p) : p[k].of = h /\ (p[k].kind # "note" => k = Len(p) /\ w = None)

\* An agent works, and has said something that was not read, only for the slot's user.
Piped ==
    \A c \in Clients : pipe[c] # <<>> \/ working[c] # None =>
        /\ lock[c] # <<>>
        /\ call[lock[c][1]] = "waiting" /\ reply[lock[c][1]] = "none"
        /\ working[c] \in {lock[c][1], None}
        /\ Carries(pipe[c], lock[c][1], working[c])

NoteFrame(r, k) == [kind |-> "note", of |-> r, at |-> k]
Notes(p) == IF p # <<>> /\ p[Len(p)].kind # "note" THEN Len(p) - 1 ELSE Len(p)

\* What has come through of r's notifications, and what is in the pipe, is what was said.
Fed(r, got, p, said) ==
    /\ \A k \in 1 .. Len(p) : p[k].kind = "note" => p[k] = NoteFrame(r, got + k)
    /\ said = got + Notes(p)

Got == [r \in Requests |-> Len(heard[r]) + Len(channel[r])]

Flowing ==
    \A r \in Prompts : call[r] = "waiting" /\ reply[r] = "none" /\ reader[client[r]] = "on" =>
        Fed(r, Got[r], pipe[client[r]], position[r])

Counted ==
    /\ \A r \in Prompts : reply[r] = "ok" => position[r] = Got[r]
    /\ \A r \in Requests : call[r] \in {"streamed", "finishing", "appending"} =>
          reply[r] = "ok" /\ channel[r] = <<>>

Clean ==
    /\ \A r \in Requests : call[r] \in Unsent \cup {"registered"} =>
          heard[r] = <<>> /\ channel[r] = <<>> /\ position[r] = 0
    /\ \A r \in Requests : r \notin Prompts => channel[r] = <<>>
    /\ \A r \in Requests : call[r] \in {"taking", "looking", "rebuilding"} => r \notin Prompts

OwnFrom(r, s, n) == \A k \in 1 .. Len(s) : s[k] = NoteFrame(r, n + k)

Own ==
    \A r \in Requests : OwnFrom(r, heard[r], 0) /\ OwnFrom(r, channel[r], Len(heard[r]))

AcpInv ==
    /\ TypeOK /\ Slots /\ Registered /\ Living /\ Piped
    /\ Flowing /\ Counted /\ Clean /\ Own

-----------------------------------------------------------------------------
(* Sequences, and the pipe as one.                                         *)

\* What Append and Tail give, as the proofs below use it.
LEMMA Appending ==
    ASSUME NEW S, NEW s \in Seq(S), NEW x \in S
    PROVE  /\ Append(s, x) \in Seq(S) /\ Len(Append(s, x)) = Len(s) + 1
           /\ \A k \in 1 .. Len(s) : Append(s, x)[k] = s[k]
           /\ Append(s, x)[Len(s) + 1] = x
           /\ Append(s, x) # <<>>
           /\ Len(s) \in Nat
OBVIOUS

LEMMA Taking ==
    ASSUME NEW S, NEW s \in Seq(S), s # <<>>
    PROVE  /\ Tail(s) \in Seq(S) /\ Len(s) \in Nat \ {0} /\ Len(Tail(s)) = Len(s) - 1
           /\ \A k \in 1 .. Len(s) - 1 : Tail(s)[k] = s[k + 1]
           /\ Head(s) = s[1] /\ s[1] \in S
OBVIOUS

LEMMA Empty == ASSUME NEW S, NEW s \in Seq(S) PROVE s = <<>> <=> Len(s) = 0
OBVIOUS

\* Saying a notification, reading one, and the answer.
LEMMA FedSay ==
    ASSUME NEW r \in Requests, NEW got \in Nat, NEW said \in Nat, NEW p \in Seq(Frame),
           NEW w, w # None, Carries(p, r, w), Fed(r, got, p, said)
    PROVE  /\ NoteFrame(r, said + 1) \in Frame
           /\ Fed(r, got, Append(p, NoteFrame(r, said + 1)), said + 1)
           /\ Carries(Append(p, NoteFrame(r, said + 1)), r, w)
<1> DEFINE f == NoteFrame(r, said + 1)
<1>1. f \in Frame /\ f.kind = "note" /\ f.of = r
  BY DEF Frame, NoteFrame
<1> HIDE DEF f
<1>2. /\ Append(p, f) \in Seq(Frame) /\ Len(Append(p, f)) = Len(p) + 1
      /\ \A k \in 1 .. Len(p) : Append(p, f)[k] = p[k]
      /\ Append(p, f)[Len(p) + 1] = f
      /\ Len(p) \in Nat
  BY <1>1, Appending
<1>3. said = got + Len(p)
  <2>1. p # <<>> => p[Len(p)].kind = "note"
    BY <1>2, Empty DEF Carries
  <2> QED
    BY <2>1 DEF Fed, Notes
<1>4. f = NoteFrame(r, got + (Len(p) + 1))
  BY <1>2, <1>3 DEF f
<1>5. Carries(Append(p, f), r, w)
  BY <1>1, <1>2 DEF Carries
<1>6. said + 1 = got + Notes(Append(p, f))
  BY <1>1, <1>2, <1>3 DEF Notes
<1>7. \A k \in 1 .. Len(Append(p, f)) : Append(p, f)[k] = NoteFrame(r, got + k)
  <2> SUFFICES ASSUME NEW k \in 1 .. Len(Append(p, f))
               PROVE  Append(p, f)[k] = NoteFrame(r, got + k)
    OBVIOUS
  <2>1. CASE k = Len(p) + 1
    BY <2>1, <1>2, <1>4
  <2>2. CASE k # Len(p) + 1
    <3>1. k \in 1 .. Len(p)
      BY <2>2, <1>2
    <3>2. p[k].kind = "note"
      BY <3>1 DEF Carries
    <3> QED
      BY <3>1, <3>2, <1>2 DEF Fed
  <2> QED
    BY <2>1, <2>2
<1>8. Fed(r, got, Append(p, f), said + 1)
  BY <1>6, <1>7 DEF Fed
<1> QED
  BY <1>1, <1>5, <1>8 DEF f

LEMMA FedAnswer ==
    ASSUME NEW r \in Requests, NEW got \in Nat, NEW said \in Nat, NEW p \in Seq(Frame),
           NEW w, w # None, Carries(p, r, w),
           NEW f \in Frame, f.kind # "note", f.of = r
    PROVE  /\ Carries(Append(p, f), r, None)
           /\ Fed(r, got, p, said) => Fed(r, got, Append(p, f), said)
<1>1. /\ Append(p, f) \in Seq(Frame) /\ Len(Append(p, f)) = Len(p) + 1
      /\ \A k \in 1 .. Len(p) : Append(p, f)[k] = p[k]
      /\ Append(p, f)[Len(p) + 1] = f
      /\ Append(p, f) # <<>>
      /\ Len(p) \in Nat
  BY Appending
<1>2. Carries(Append(p, f), r, None)
  BY <1>1 DEF Carries
<1>3. ASSUME Fed(r, got, p, said) PROVE Fed(r, got, Append(p, f), said)
  <2>1. p # <<>> => p[Len(p)].kind = "note"
    BY <1>1, Empty DEF Carries
  <2>2. said = got + Len(p)
    BY <1>3, <2>1 DEF Fed, Notes
  <2>3. Notes(Append(p, f)) = Len(p)
    BY <1>1 DEF Notes
  <2>4. \A k \in 1 .. Len(Append(p, f)) :
            Append(p, f)[k].kind = "note" => Append(p, f)[k] = NoteFrame(r, got + k)
    BY <1>1, <1>3 DEF Fed
  <2> QED
    BY <2>2, <2>3, <2>4 DEF Fed
<1> QED
  BY <1>2, <1>3

LEMMA FedRead ==
    ASSUME NEW r \in Requests, NEW got \in Nat, NEW said \in Nat, NEW p \in Seq(Frame), NEW w,
           p # <<>>, Carries(p, r, w)
    PROVE  /\ Tail(p) \in Seq(Frame) /\ Head(p) \in Frame /\ Head(p).of = r
           /\ Carries(Tail(p), r, w)
           /\ Head(p).kind # "note" => Tail(p) = <<>> /\ w = None
           /\ Fed(r, got, p, said) /\ Head(p).kind = "note" =>
                 Head(p) = NoteFrame(r, got + 1) /\ Fed(r, got + 1, Tail(p), said)
           /\ Fed(r, got, p, said) /\ Head(p).kind # "note" => said = got
<1> DEFINE t == Tail(p)
<1>1. /\ t \in Seq(Frame) /\ Len(p) \in Nat \ {0} /\ Len(t) = Len(p) - 1
      /\ \A k \in 1 .. Len(p) - 1 : t[k] = p[k + 1]
      /\ Head(p) = p[1] /\ p[1] \in Frame
  BY Taking
<1> HIDE DEF t
<1>2. Head(p).of = r /\ (Head(p).kind # "note" => Len(p) = 1 /\ w = None)
  <2>1. 1 \in 1 .. Len(p)
    BY <1>1
  <2>2. p[1].of = r /\ (p[1].kind # "note" => 1 = Len(p) /\ w = None)
    BY <2>1 DEF Carries
  <2> QED
    BY <1>1, <2>2
<1>3. Carries(t, r, w)
  <2> SUFFICES ASSUME NEW k \in 1 .. Len(t)
               PROVE  t[k].of = r /\ (t[k].kind # "note" => k = Len(t) /\ w = None)
    BY DEF Carries
  <2>1. k + 1 \in 1 .. Len(p) /\ t[k] = p[k + 1] /\ (k + 1 = Len(p) => k = Len(t))
    BY <1>1
  <2>2. p[k + 1].of = r /\ (p[k + 1].kind # "note" => k + 1 = Len(p) /\ w = None)
    BY <2>1 DEF Carries
  <2> QED
    BY <2>1, <2>2
<1>4. Head(p).kind # "note" => t = <<>> /\ w = None
  BY <1>1, <1>2, Empty
<1>5. ASSUME Fed(r, got, p, said), Head(p).kind = "note"
      PROVE  Head(p) = NoteFrame(r, got + 1) /\ Fed(r, got + 1, t, said)
  <2>1. Head(p) = NoteFrame(r, got + 1)
    BY <1>1, <1>5 DEF Fed
  <2>2. \A k \in 1 .. Len(t) :
            t[k].kind = "note" => t[k] = NoteFrame(r, (got + 1) + k)
    <3> SUFFICES ASSUME NEW k \in 1 .. Len(t), t[k].kind = "note"
                 PROVE  t[k] = NoteFrame(r, (got + 1) + k)
      OBVIOUS
    <3>1. k + 1 \in 1 .. Len(p) /\ t[k] = p[k + 1] /\ got + (k + 1) = (got + 1) + k
      BY <1>1
    <3> QED
      BY <3>1, <1>5 DEF Fed
  <2>3. Notes(p) = Notes(t) + 1
    <3>1. CASE Len(p) = 1
      <4>1. Len(t) = 0 /\ p[Len(p)].kind = "note"
        BY <3>1, <1>1, <1>5
      <4>2. t = <<>>
        BY <4>1, <1>1, Empty
      <4> QED
        BY <3>1, <4>1, <4>2, <1>1 DEF Notes
    <3>2. CASE Len(p) # 1
      <4>1. t # <<>> /\ t[Len(t)] = p[Len(p)]
        BY <3>2, <1>1, Empty
      <4> QED
        BY <4>1, <1>1 DEF Notes
    <3> QED
      BY <3>1, <3>2
  <2>4. Len(t) \in Nat /\ Notes(t) \in Int
    BY <1>1 DEF Notes
  <2>5. said = (got + 1) + Notes(t)
    BY <2>3, <2>4, <1>5 DEF Fed
  <2> QED
    BY <2>1, <2>2, <2>5 DEF Fed
<1>6. ASSUME Fed(r, got, p, said), Head(p).kind # "note" PROVE said = got
  BY <1>1, <1>2, <1>6 DEF Fed, Notes
<1> QED
  BY <1>1, <1>2, <1>3, <1>4, <1>5, <1>6 DEF t

\* The count of what has come through is a number.
LEMMA GotTyped == TypeOK => Got \in [Requests -> Nat]
BY DEF TypeOK, Got

\* The same for every request, and for every client and what it has.
LEMMA Typed ==
    ASSUME TypeOK
    PROVE  /\ \A c \in Clients : \A k \in 1 .. Len(lock[c]) : lock[c][k] \in Requests
           /\ \A c \in Clients : lock[c] # <<>> => 1 \in 1 .. Len(lock[c]) /\ Head(lock[c]) = lock[c][1]
           /\ \A c \in Clients : pending[c] \subseteq Requests
           /\ \A c \in Clients : pipe[c] \in Seq(Frame) /\ lock[c] \in Seq(Requests)
           /\ \A r \in Requests : heard[r] \in Seq(Frame) /\ channel[r] \in Seq(Frame)
                                  /\ position[r] \in Nat /\ client[r] \in Clients \cup {None}
<1>1. \A c \in Clients : lock[c] \in Seq(Requests)
  BY DEF TypeOK
<1>2. \A c \in Clients : lock[c] # <<>> => 1 \in 1 .. Len(lock[c]) /\ Head(lock[c]) = lock[c][1]
  BY <1>1, Taking
<1>3. \A c \in Clients : \A k \in 1 .. Len(lock[c]) : lock[c][k] \in Requests
  BY <1>1
<1> QED
  BY <1>1, <1>2, <1>3 DEF TypeOK

-----------------------------------------------------------------------------
(* The steps.                                                              *)

\* Nothing has come in: the invariant holds of the first state.
LEMMA InitInv == Init => AcpInv
<1> SUFFICES ASSUME Init PROVE AcpInv
  OBVIOUS
<1> USE AcpBridgeAssumption DEF Init
<1>1. TypeOK
  BY DEF TypeOK, Stages
<1>2. Slots
  BY DEF Slots, InLine, InUse, NoClient
<1>3. Registered /\ Living
  BY DEF Registered, Living, InUse
<1>4. Piped /\ Flowing
  BY DEF Piped, Flowing
<1>5. Counted /\ Clean
  BY DEF Counted, Clean
<1>6. Own
  BY DEF Own, OwnFrom
<1> QED
  BY <1>1, <1>2, <1>3, <1>4, <1>5, <1>6 DEF AcpInv

\* A request that is not in line, and does not get there, leaves alone what is about
\* those that are.
LEMMA OutOfLine ==
    ASSUME AcpInv, TypeOK', NEW r \in Requests, ~InLine(r), ~InLine(r)',
           client'[r] = None <=> call'[r] \in NoClient,
           \A q \in Requests \ {r} : /\ call'[q] = call[q] /\ client'[q] = client[q]
                                     /\ reply'[q] = reply[q] /\ position'[q] = position[q]
                                     /\ heard'[q] = heard[q] /\ channel'[q] = channel[q],
           UNCHANGED <<lock, pending, subscriber, pipe, working>>,
           \A c \in Clients : reader'[c] = reader[c] \/ reader[c] = "none"
    PROVE  Slots' /\ Registered' /\ Piped' /\ Flowing'
<1> USE AcpBridgeAssumption
<1>1. \A q \in Requests : InLine(q)' <=> InLine(q)
  BY DEF InLine
<1>2. \A q \in Requests : InUse(q)' <=> InUse(q)
  BY <1>1 DEF InUse, InLine
<1>3. \A q \in Requests : InLine(q) => q # r
  OBVIOUS
<1>4. \A q \in Requests : InUse(q) => InLine(q)
  BY DEF InUse, InLine
<1>5. Slots'
  <2>1. \A q \in Requests : (client[q] = None <=> call[q] \in NoClient)'
    BY DEF Slots, AcpInv
  <2>2. \A c \in Clients : \A k \in 1 .. Len(lock[c]) :
            lock[c][k] \in Requests \ {r} /\ InLine(lock[c][k]) /\ client[lock[c][k]] = c
    BY <1>3, Typed DEF Slots, AcpInv
  <2>3. (\A c \in Clients : \A k \in 1 .. Len(lock[c]) :
             InLine(lock[c][k]) /\ client[lock[c][k]] = c)'
    BY <1>1, <2>2
  <2>4. (\A q \in Requests : InLine(q) => \E k \in 1 .. Len(lock[client[q]]) :
             lock[client[q]][k] = q)'
    BY <1>1, <1>3 DEF Slots, AcpInv
  <2>5. (\A q \in Requests : InUse(q) => lock[client[q]][1] = q)'
    BY <1>2, <1>3, <1>4 DEF Slots, AcpInv
  <2> QED
    BY <2>1, <2>3, <2>4, <2>5 DEF Slots, AcpInv
<1>6. Registered'
  <2>1. \A c \in Clients : \A q \in pending[c] :
            q \in Requests \ {r} /\ InUse(q) /\ client[q] = c /\ reply[q] = "none"
    BY <1>3, <1>4, Typed DEF Registered, AcpInv
  <2>2. (\A c \in Clients : \A q \in pending[c] :
             InUse(q) /\ client[q] = c /\ reply[q] = "none")'
    BY <1>2, <2>1
  <2>3. \A c \in Clients : subscriber[c] # None =>
            /\ subscriber[c] \in Prompts /\ subscriber[c] # r
            /\ InUse(subscriber[c]) /\ client[subscriber[c]] = c
    BY <1>3, <1>4 DEF Registered, AcpInv
  <2>4. (\A c \in Clients : subscriber[c] # None =>
             subscriber[c] \in Prompts /\ InUse(subscriber[c]) /\ client[subscriber[c]] = c)'
    BY <1>2, <2>3
  <2>5. \A q \in Prompts : InUse(q)' =>
            q \in Requests \ {r} /\ subscriber[client[q]] = q
    BY <1>2, <1>3, <1>4 DEF Registered, AcpInv
  <2>6. (\A q \in Prompts : InUse(q) => subscriber[client[q]] = q)'
    BY <2>5
  <2> QED
    BY <2>2, <2>4, <2>6 DEF Registered
<1>7. Piped'
  <2> SUFFICES ASSUME NEW c \in Clients, (pipe[c] # <<>> \/ working[c] # None)'
               PROVE  (/\ lock[c] # <<>>
                       /\ call[lock[c][1]] = "waiting" /\ reply[lock[c][1]] = "none"
                       /\ working[c] \in {lock[c][1], None}
                       /\ Carries(pipe[c], lock[c][1], working[c]))'
    BY DEF Piped
  <2>1. /\ lock[c] # <<>>
        /\ call[lock[c][1]] = "waiting" /\ reply[lock[c][1]] = "none"
        /\ working[c] \in {lock[c][1], None}
        /\ Carries(pipe[c], lock[c][1], working[c])
    BY DEF Piped, AcpInv
  <2>2. lock[c][1] \in Requests /\ lock[c][1] # r
    BY <2>1, Typed DEF AcpInv, InLine
  <2> QED
    BY <2>1, <2>2
<1>8. Flowing'
  <2> SUFFICES ASSUME NEW q \in Prompts,
                      (call[q] = "waiting" /\ reply[q] = "none" /\ reader[client[q]] = "on")'
               PROVE  Fed(q, Got[q], pipe[client[q]], position[q])'
    BY DEF Flowing
  <2>1. q \in Requests /\ q # r
    BY DEF InLine
  <2>2. client[q] \in Clients /\ reader[client[q]] # "none"
    BY <2>1, Typed DEF AcpInv, Slots, Living, NoClient
  <2>on. call[q] = "waiting" /\ reply[q] = "none" /\ reader[client[q]] = "on"
    BY <2>1, <2>2
  <2>3. Fed(q, Got[q], pipe[client[q]], position[q])
    BY <2>on DEF Flowing, AcpInv
  <2>4. Got'[q] = Got[q]
    BY <2>1 DEF Got
  <2> QED
    BY <2>1, <2>3, <2>4
<1> QED
  BY <1>5, <1>6, <1>7, <1>8


\* Whoever has come to a client holds it until it is done.
LEMMA Holding ==
    ASSUME TypeOK, Slots, NEW r \in Requests, call[r] \notin NoClient
    PROVE  client[r] \in Clients
BY DEF TypeOK, Slots

\* Every step keeps the types.
LEMMA TypeStep == AcpInv /\ [Next]_vars => TypeOK'
<1> SUFFICES ASSUME TypeOK, Slots, [Next]_vars PROVE TypeOK'
  BY DEF AcpInv
<1> USE AcpBridgeAssumption DEF vars, poolVars, agentVars, innerVars, streamVars, bridgeVars
<1>1. ASSUME NEW r \in Requests, GetClient(r) PROVE TypeOK'
  <2>1. KeyOf[r] \in Keys
    BY DEF Keys
  <2>2. pool[KeyOf[r]] \in Clients \cup {None}
    BY <2>1 DEF TypeOK
  <2>3. client' \in [Requests -> Clients \cup {None}] /\ call' \in [Requests -> Stages]
    BY <1>1, <2>2 DEF GetClient, Goto, TypeOK, Stages
  <2> QED
    BY <1>1, <2>3 DEF GetClient, TypeOK
<1>2. ASSUME NEW r \in Requests, CheckCapacity(r) \/ SpawnFails(r) PROVE TypeOK'
  <2>1. CASE CheckCapacity(r)
    BY <2>1 DEF CheckCapacity, TypeOK, Goto, Stages
  <2>2. CASE SpawnFails(r)
    BY <2>2 DEF SpawnFails, TypeOK, Goto, Stages
  <2> QED
    BY <1>2, <2>1, <2>2
<1>3. ASSUME NEW r \in Requests, Insert(r) PROVE TypeOK'
  <2>0. PICK c \in Clients :
            /\ reader' = [reader EXCEPT ![c] = "on"] /\ alive' = alive \cup {c}
            /\ pool' = [pool EXCEPT ![KeyOf[r]] = c] /\ client' = [client EXCEPT ![r] = c]
    BY <1>3 DEF Insert
  <2>1. /\ reader' \in [Clients -> {"none", "on", "ended", "aborted"}] /\ alive' \subseteq Clients
        /\ pool' \in [Keys -> Clients \cup {None}]
        /\ client' \in [Requests -> Clients \cup {None}]
    BY <2>0 DEF TypeOK
  <2>2. call' \in [Requests -> Stages]
    BY <1>3 DEF Insert, TypeOK, Goto, Stages
  <2> QED
    BY <1>3, <2>1, <2>2 DEF Insert, TypeOK
<1>4. ASSUME NEW r \in Requests, Enqueue(r) PROVE TypeOK'
  <2>1. client[r] \in Clients
    BY <1>4, Holding DEF Enqueue, NoClient
  <2>2. Append(lock[client[r]], r) \in Seq(Requests)
    BY <2>1, Appending DEF TypeOK
  <2>3. lock' \in [Clients -> Seq(Requests)]
    BY <1>4, <2>1, <2>2 DEF Enqueue, TypeOK
  <2>4. status' \in [Threads -> {"idle", "active"}] /\ call' \in [Requests -> Stages]
    BY <1>4 DEF Enqueue, TypeOK, Goto, Stages
  <2> QED
    BY <1>4, <2>3, <2>4 DEF Enqueue, TypeOK
<1>5. ASSUME NEW r \in Requests, Register(r) PROVE TypeOK'
  <2>1. client[r] \in Clients
    BY <1>5, Holding DEF Register, NoClient
  <2>2. pending' \in [Clients -> SUBSET Requests]
    BY <1>5, <2>1 DEF Register, TypeOK
  <2>3. subscriber' \in [Clients -> Requests \cup {None}]
    BY <1>5 DEF Register, TypeOK
  <2>4. <<>> \in Seq(Frame)
    OBVIOUS
  <2>5. buffer' \in [Clients -> Seq(Frame)]
    BY <1>5, <2>4 DEF Register, TypeOK
  <2>6. call' \in [Requests -> Stages]
    BY <1>5 DEF Register, TypeOK, Goto, Stages
  <2> QED
    BY <1>5, <2>2, <2>3, <2>5, <2>6 DEF Register, TypeOK
<1>6. ASSUME NEW r \in Requests, Write(r) PROVE TypeOK'
  BY <1>6 DEF Write, TypeOK, Goto, Stages
<1>7. ASSUME NEW r \in Requests, lock[client[r]] # <<>>, WriteFails(r) \/ Resume(r)
      PROVE  TypeOK'
  <2>1. client[r] \in Clients
    BY <1>7, Holding DEF WriteFails, Resume, NoClient
  <2>2. Tail(lock[client[r]]) \in Seq(Requests)
    BY <1>7, <2>1, Taking DEF TypeOK
  <2>3. lock' \in [Clients -> Seq(Requests)]
    BY <1>7, <2>1, <2>2 DEF WriteFails, Resume, Unlock, TypeOK
  <2>4. subscriber' \in [Clients -> Requests \cup {None}]
    BY <1>7 DEF WriteFails, Resume, Unlock, TypeOK
  <2>5. pending' \in [Clients -> SUBSET Requests]
    <3>1. pending' \in {pending, [pending EXCEPT ![client[r]] = @ \ {r}]}
      BY <1>7 DEF WriteFails, Withdraw, Resume
    <3>2. pending[client[r]] \ {r} \in SUBSET Requests
      BY <2>1 DEF TypeOK
    <3> QED
      BY <3>1, <3>2 DEF TypeOK
  <2>6. reply' \in [Requests -> {"none", "ok", "error"}]
    BY <1>7 DEF WriteFails, Resume, TypeOK
  <2>7. call' \in [Requests -> Stages]
    BY <1>7 DEF WriteFails, Resume, TypeOK, Goto, Stages
  <2> QED
    BY <1>7, <2>3, <2>4, <2>5, <2>6, <2>7 DEF WriteFails, Resume, TypeOK
<1>8. ASSUME NEW r \in Requests, Consume(r) PROVE TypeOK'
  <2>1. Tail(channel[r]) \in Seq(Frame) /\ Head(channel[r]) \in Frame
    BY <1>8, Taking DEF Consume, TypeOK
  <2>2. Append(heard[r], Head(channel[r])) \in Seq(Frame)
    BY <2>1, Appending DEF TypeOK
  <2>3. heard' \in [Requests -> Seq(Frame)] /\ channel' \in [Requests -> Seq(Frame)]
    BY <1>8, <2>1, <2>2 DEF Consume, TypeOK
  <2> QED
    BY <1>8, <2>3 DEF Consume, TypeOK
<1>9. ASSUME NEW r \in Requests, ReturnError(r) \/ AppendTurn(r) \/ SetTurns(r) PROVE TypeOK'
  <2>1. \E end \in {"done", "failed"} : Leave(r, end)
    BY <1>9 DEF ReturnError, AppendTurn, SetTurns
  <2>2. <<>> \in Seq(Frame)
    OBVIOUS
  <2>3. /\ client' \in [Requests -> Clients \cup {None}] /\ position' \in [Requests -> Nat]
        /\ reply' \in [Requests -> {"none", "ok", "error"}]
        /\ heard' \in [Requests -> Seq(Frame)]
    BY <2>1, <2>2 DEF Leave, TypeOK
  <2>4. call' \in [Requests -> Stages]
    BY <2>1 DEF Leave, Goto, TypeOK, Stages
  <2> QED
    BY <1>9, <2>3, <2>4 DEF ReturnError, AppendTurn, SetTurns, TypeOK
<1>10. ASSUME NEW r \in Requests, Return(r) \/ GetTurns(r) PROVE TypeOK'
  <2>1. CASE Return(r)
    BY <2>1 DEF Return, TypeOK, Goto, Stages
  <2>2. CASE GetTurns(r)
    BY <2>2 DEF GetTurns, TypeOK, Goto, Stages
  <2> QED
    BY <1>10, <2>1, <2>2
<1>11. ASSUME NEW r \in Requests, Discard(r) \/ TakePending(r) PROVE TypeOK'
  <2>1. client[r] \in Clients
    BY <1>11, Holding DEF Discard, TakePending, NoClient
  <2>2. <<>> \in Seq(Frame)
    OBVIOUS
  <2>3. buffer' \in [Clients -> Seq(Frame)]
    BY <1>11, <2>1, <2>2 DEF Discard, TakePending, TypeOK
  <2>4. call' \in [Requests -> Stages]
    BY <1>11 DEF Discard, TakePending, TypeOK, Goto, Stages
  <2> QED
    BY <1>11, <2>3, <2>4 DEF Discard, TakePending, TypeOK
<1>12. ASSUME NEW r \in Requests, Complete(r) PROVE TypeOK'
  BY <1>12 DEF Complete, TypeOK, Threads, Goto, Stages
<1>13. ASSUME NEW k \in Keys, RemoveClient(k) PROVE TypeOK'
  <2>0. <<>> \in Seq(Frame)
    OBVIOUS
  <2>1. pool[k] \in Clients
    BY <1>13 DEF RemoveClient
  <2>2. pipe' \in [Clients -> Seq(Frame)]
    BY <1>13, <2>0, <2>1 DEF RemoveClient, TypeOK
  <2>3. /\ reader' \in [Clients -> {"none", "on", "ended", "aborted"}]
        /\ pool' \in [Keys -> Clients \cup {None}]
    BY <1>13, <2>1 DEF RemoveClient, TypeOK
  <2> QED
    BY <1>13, <2>2, <2>3 DEF RemoveClient, TypeOK
<1>14. ASSUME NEW c \in Clients, Kill(c) \/ AgentExits(c) PROVE TypeOK'
  BY <1>14 DEF Kill, AgentExits, AgentGone, TypeOK
<1>15. ASSUME NEW c \in Clients, AgentSays(c) PROVE TypeOK'
  <2> DEFINE r == working[c]
             f == [kind |-> "note", of |-> r, at |-> position[r] + 1]
  <2>0. r \in Requests
    BY <1>15 DEF AgentSays, TypeOK
  <2> HIDE DEF r
  <2>1. position[r] + 1 \in Nat
    BY <2>0 DEF TypeOK
  <2>2. f \in Frame
    BY <2>0, <2>1 DEF Frame
  <2> HIDE DEF f
  <2>3. Append(pipe[c], f) \in Seq(Frame)
    BY <2>2, Appending DEF TypeOK
  <2>4. pipe' = [pipe EXCEPT ![c] = Append(pipe[c], f)]
    BY <1>15 DEF AgentSays, f, r, TypeOK
  <2>5. pipe' \in [Clients -> Seq(Frame)]
    BY <2>3, <2>4 DEF TypeOK
  <2>6. position' \in [Requests -> Nat]
    BY <1>15, <2>1 DEF AgentSays, r, TypeOK
  <2> QED
    BY <1>15, <2>5, <2>6 DEF AgentSays, TypeOK
<1>16. ASSUME NEW c \in Clients, AgentAnswers(c) PROVE TypeOK'
  <2>1. PICK kind \in {"ok", "error"} :
            pipe' = [pipe EXCEPT ![c] = Append(pipe[c],
                                              [kind |-> kind, of |-> working[c], at |-> 0])]
    BY <1>16 DEF AgentAnswers, TypeOK
  <2> DEFINE f == [kind |-> kind, of |-> working[c], at |-> 0]
  <2>2. f \in Frame
    BY <1>16 DEF AgentAnswers, TypeOK, Frame
  <2> HIDE DEF f
  <2>3. Append(pipe[c], f) \in Seq(Frame)
    BY <2>2, Appending DEF TypeOK
  <2>4. pipe' \in [Clients -> Seq(Frame)]
    BY <2>1, <2>3 DEF TypeOK, f
  <2> QED
    BY <1>16, <2>4 DEF AgentAnswers, TypeOK
<1>17. ASSUME NEW c \in Clients, Read(c) PROVE TypeOK'
  <2> DEFINE f == Head(pipe[c])
             t == Tail(pipe[c])
  <2>1. f \in Frame /\ t \in Seq(Frame)
    BY <1>17, Taking DEF Read, TypeOK
  <2>2. pipe' = [pipe EXCEPT ![c] = t] /\ Dispatch(c, f)
    BY <1>17 DEF Read, TypeOK
  <2>3. f.of \in Requests /\ (f.kind # "note" => f.kind \in {"ok", "error"})
    BY <2>1 DEF Frame
  <2> HIDE DEF f, t
  <2>4. pipe' \in [Clients -> Seq(Frame)]
    BY <2>1, <2>2 DEF TypeOK
  <2>5. Append(buffer[c], f) \in Seq(Frame)
    BY <2>1, Appending DEF TypeOK
  <2>6. buffer' \in [Clients -> Seq(Frame)]
    BY <2>2, <2>5 DEF Dispatch, TypeOK
  <2>7. \A r \in Requests : Append(channel[r], f) \in Seq(Frame)
    BY <2>1, Appending DEF TypeOK
  <2>8. channel' \in [Requests -> Seq(Frame)]
    <3>1. \/ channel' = channel
          \/ channel' = [channel EXCEPT ![subscriber[c]] = Append(@, f)]
      BY <2>2 DEF Dispatch
    <3> DEFINE s == subscriber[c]
               e == Append(channel[s], f)
    <3>2. s \in Requests => e \in Seq(Frame)
      BY <2>7
    <3> HIDE DEF s, e
    <3>3. [channel EXCEPT ![s] = e] \in [Requests -> Seq(Frame)]
      BY <3>2 DEF TypeOK
    <3> QED
      BY <3>1, <3>3 DEF TypeOK, s, e
  <2>9. pending' \in [Clients -> SUBSET Requests]
    BY <2>2 DEF Dispatch, TypeOK
  <2>10. reply' \in [Requests -> {"none", "ok", "error"}]
    BY <2>2, <2>3 DEF Dispatch, TypeOK
  <2> QED
    BY <1>17, <2>4, <2>6, <2>8, <2>9, <2>10 DEF Read, TypeOK
<1>18. ASSUME NEW c \in Clients, Eof(c) PROVE TypeOK'
  BY <1>18 DEF Eof, FailPending, TypeOK
<1>19. ASSUME UNCHANGED vars PROVE TypeOK'
  BY <1>19 DEF TypeOK
<1>20. ASSUME NEW r \in Requests, WriteFails(r) \/ Resume(r) PROVE lock[client[r]] # <<>>
  <2>1. InLine(r) /\ client[r] \in Clients
    BY <1>20, Holding DEF WriteFails, Resume, NoClient, InLine
  <2>2. \E k \in 1 .. Len(lock[client[r]]) : lock[client[r]][k] = r
    BY <2>1 DEF Slots
  <2> QED
    BY <2>2
<1> QED
  BY <1>1, <1>2, <1>3, <1>4, <1>5, <1>6, <1>7, <1>8, <1>9, <1>10, <1>11, <1>12, <1>13, <1>14,
     <1>15, <1>16, <1>17, <1>18, <1>19, <1>20 DEF Next, Handler

\* The steps of a request that neither waits for the slot nor uses it: while it gets a
\* client, when it returns, and between the answer and that.
Before(r) == GetClient(r) \/ CheckCapacity(r) \/ Insert(r) \/ SpawnFails(r)
Ending(r) == ReturnError(r) \/ AppendTurn(r) \/ SetTurns(r)
After(r) == Return(r) \/ Discard(r) \/ Complete(r) \/ TakePending(r) \/ GetTurns(r)

\* A request that comes in gets the client of its key, or spawns one.
LEMMA BeforeStep ==
    ASSUME AcpInv, TypeOK', NEW r \in Requests, Before(r)
    PROVE  AcpInv'
<1> USE AcpBridgeAssumption DEF vars, poolVars, agentVars, innerVars, streamVars, bridgeVars
<1>1. /\ call[r] \in NoClient /\ call'[r] \in NoClient \cup {"held"}
      /\ \A q \in Requests \ {r} : call'[q] = call[q] /\ client'[q] = client[q]
      /\ UNCHANGED <<reply, position, heard, channel, lock, pending, subscriber, pipe, working>>
  <2>typed. call \in [Requests -> Stages] /\ client \in [Requests -> Clients \cup {None}]
    BY DEF AcpInv, TypeOK
  <2>1. CASE GetClient(r)
    BY <2>typed, <2>1 DEF GetClient, Goto, NoClient
  <2>2. CASE CheckCapacity(r)
    BY <2>typed, <2>2 DEF CheckCapacity, Goto, NoClient
  <2>3. CASE Insert(r)
    BY <2>typed, <2>3 DEF Insert, Goto, NoClient
  <2>4. CASE SpawnFails(r)
    BY <2>typed, <2>4 DEF SpawnFails, Goto, NoClient
  <2> QED
    BY <2>1, <2>2, <2>3, <2>4 DEF Before
<1>2. client'[r] = None <=> call'[r] \in NoClient
  <2>1. client[r] = None
    BY <1>1 DEF AcpInv, Slots
  <2> QED
    BY <2>1 DEF Before, GetClient, CheckCapacity, Insert, SpawnFails, Goto, AcpInv, TypeOK, NoClient
<1>3. \A c \in Clients : reader'[c] = reader[c] \/ reader[c] = "none"
  BY DEF Before, GetClient, CheckCapacity, Insert, SpawnFails, AcpInv, TypeOK
<1>4. Slots' /\ Registered' /\ Piped' /\ Flowing'
  BY <1>1, <1>2, <1>3, OutOfLine DEF InLine, NoClient
<1>5. Living'
  <2>0. \A q \in Requests : call'[q] \in Unsent => reply'[q] = "none"
    <3>1. \A q \in Requests : call[q] \in Unsent => reply[q] = "none"
      BY DEF AcpInv, Living
    <3> QED
      BY <3>1, <1>1 DEF Unsent
  <2>1. CASE GetClient(r)
    <3>1. \/ client' = client
          \/ client' = [client EXCEPT ![r] = pool[KeyOf[r]]] /\ pool[KeyOf[r]] # None
      BY <2>1 DEF GetClient
    <3>2. KeyOf[r] \in Keys
      BY DEF Keys
    <3>3. \A q \in Requests : client'[q] # None => reader[client'[q]] # "none"
      BY <3>1, <3>2 DEF AcpInv, TypeOK, Living
    <3>4. UNCHANGED <<reader, pool, working, alive>>
      BY <2>1 DEF GetClient
    <3>5. \A q \in Requests : call'[q] = "registered" /\ reply'[q] # "none" => client'[q] \notin alive
      BY <1>1 DEF AcpInv, Living, NoClient
    <3> QED
      BY <2>0, <3>3, <3>4, <3>5 DEF AcpInv, Living
  <2>2. CASE CheckCapacity(r) \/ SpawnFails(r)
    BY <2>2, <1>1 DEF CheckCapacity, SpawnFails, Goto, AcpInv, TypeOK, Living, Unsent, NoClient
  <2>3. CASE Insert(r)
    <3>1. PICK c \in Clients :
              /\ reader[c] = "none"
              /\ reader' = [reader EXCEPT ![c] = "on"] /\ alive' = alive \cup {c}
              /\ pool' = [pool EXCEPT ![KeyOf[r]] = c] /\ client' = [client EXCEPT ![r] = c]
      BY <2>3 DEF Insert
    <3>2. reader'[c] = "on" /\ \A d \in Clients \ {c} : reader'[d] = reader[d]
      BY <3>1 DEF AcpInv, TypeOK
    <3>3. \A q \in Requests : client'[q] # None => reader'[client'[q]] # "none"
      <4> SUFFICES ASSUME NEW q \in Requests, client'[q] # None
                   PROVE  reader'[client'[q]] # "none"
        OBVIOUS
      <4>0. client \in [Requests -> Clients \cup {None}]
        BY DEF AcpInv, TypeOK
      <4>1. client'[q] = c \/ (client'[q] = client[q] /\ client[q] \in Clients)
        BY <3>1, <4>0
      <4> QED
        BY <3>2, <4>1 DEF AcpInv, Living
    <3>4. \A k \in Keys : pool'[k] # None => reader'[pool'[k]] # "none"
      BY <3>1, <3>2 DEF AcpInv, TypeOK, Living
    <3>5. \A d \in Clients : working'[d] # None => d \in alive'
      BY <3>1, <1>1 DEF AcpInv, Living
    <3>6. \A q \in Requests : call'[q] = "registered" /\ reply'[q] # "none" => client'[q] \notin alive'
      <4> SUFFICES ASSUME NEW q \in Requests, call'[q] = "registered", reply'[q] # "none"
                   PROVE  client'[q] \notin alive'
        OBVIOUS
      <4>1. q # r
        BY <1>1 DEF NoClient
      <4>2. client[q] \notin alive /\ client[q] # None /\ reader[client[q]] # "none"
        BY <1>1, <4>1 DEF AcpInv, Living, Slots, NoClient
      <4> QED
        BY <1>1, <3>1, <4>1, <4>2
    <3> QED
      BY <2>0, <3>3, <3>4, <3>5, <3>6 DEF Living
  <2> QED
    BY <2>1, <2>2, <2>3 DEF Before
<1>6. Counted'
  BY <1>1 DEF AcpInv, TypeOK, Counted, NoClient, Got
<1>7. Clean'
  BY <1>1 DEF AcpInv, TypeOK, Clean, NoClient, Unsent
<1>8. Own'
  BY <1>1 DEF AcpInv, Own, OwnFrom
<1> QED
  BY <1>4, <1>5, <1>6, <1>7, <1>8 DEF AcpInv

\* A request that returns leaves with all that is its own.
LEMMA EndingStep ==
    ASSUME AcpInv, TypeOK', NEW r \in Requests, Ending(r)
    PROVE  AcpInv'
<1> USE AcpBridgeAssumption DEF vars, poolVars, agentVars, innerVars, streamVars, bridgeVars
<1>1. /\ call[r] \notin NoClient /\ ~InLine(r) /\ call'[r] \in {"done", "failed"}
      /\ channel[r] = <<>> /\ heard'[r] = <<>> /\ position'[r] = 0 /\ reply'[r] = "none"
      /\ client'[r] = None
      /\ \A q \in Requests \ {r} : /\ call'[q] = call[q] /\ client'[q] = client[q]
                                   /\ reply'[q] = reply[q] /\ position'[q] = position[q]
                                   /\ heard'[q] = heard[q]
      /\ UNCHANGED <<channel, lock, pending, subscriber, pipe, working, reader, alive, pool>>
  <2>1. \E end \in {"done", "failed"} : Leave(r, end)
    BY DEF Ending, ReturnError, AppendTurn, SetTurns
  <2>2. /\ call[r] \in {"draining", "appending", "looking", "rebuilding"}
        /\ UNCHANGED <<channel, lock, pending, subscriber, pipe, working, reader, alive, pool>>
    BY DEF Ending, ReturnError, AppendTurn, SetTurns
  <2>3. channel[r] = <<>>
    BY DEF Ending, ReturnError, AppendTurn, SetTurns, AcpInv, Counted, Clean
  <2> QED
    BY <2>1, <2>2, <2>3 DEF Leave, Goto, AcpInv, TypeOK, NoClient, InLine
<1>2. ~InLine(r)' /\ call'[r] \in NoClient
  BY <1>1 DEF InLine, NoClient
<1>3. Slots' /\ Registered' /\ Piped' /\ Flowing'
  BY <1>1, <1>2, OutOfLine
<1>4. Living'
  BY <1>1 DEF AcpInv, Living
<1>5. Counted'
  BY <1>1 DEF AcpInv, Counted, Got
<1>6. Clean'
  BY <1>1 DEF AcpInv, Clean
<1>7. Own'
  <2> SUFFICES ASSUME NEW q \in Requests
               PROVE  (OwnFrom(q, heard[q], 0) /\ OwnFrom(q, channel[q], Len(heard[q])))'
    BY DEF Own
  <2>1. CASE q = r
    BY <1>1, <2>1 DEF OwnFrom
  <2>2. CASE q # r
    <3>1. OwnFrom(q, heard[q], 0) /\ OwnFrom(q, channel[q], Len(heard[q]))
      BY DEF AcpInv, Own
    <3>2. heard'[q] = heard[q] /\ channel'[q] = channel[q]
      BY <1>1, <2>2
    <3> QED
      BY <3>1, <3>2 DEF OwnFrom
  <2> QED
    BY <2>1, <2>2
<1> QED
  BY <1>3, <1>4, <1>5, <1>6, <1>7 DEF AcpInv

\* The handler's steps after the answer: the turn completed, the buffer taken.
LEMMA AfterStep ==
    ASSUME AcpInv, TypeOK', NEW r \in Requests, After(r)
    PROVE  AcpInv'
<1> USE AcpBridgeAssumption DEF vars, poolVars, agentVars, innerVars, streamVars, bridgeVars
<1>1. /\ call[r] \notin NoClient /\ ~InLine(r) /\ call'[r] \notin NoClient /\ ~InLine(r)'
      /\ call'[r] \notin Unsent \cup {"registered"}
      /\ \A q \in Requests \ {r} : call'[q] = call[q]
      /\ UNCHANGED <<client, reply, position, heard, channel, lock, pending, subscriber, pipe,
                     working, reader, alive, pool>>
  <2>typed. call \in [Requests -> Stages]
    BY DEF AcpInv, TypeOK
  <2>1. CASE Return(r)
    BY <2>typed, <2>1 DEF Return, Goto, NoClient, InLine, Unsent
  <2>2. CASE Discard(r)
    BY <2>typed, <2>2 DEF Discard, Goto, NoClient, InLine, Unsent
  <2>3. CASE Complete(r)
    BY <2>typed, <2>3 DEF Complete, Goto, NoClient, InLine, Unsent
  <2>4. CASE TakePending(r)
    BY <2>typed, <2>4 DEF TakePending, Goto, NoClient, InLine, Unsent
  <2>5. CASE GetTurns(r)
    BY <2>typed, <2>5 DEF GetTurns, Goto, NoClient, InLine, Unsent
  <2> QED
    BY <2>1, <2>2, <2>3, <2>4, <2>5 DEF After
<1>2. Slots' /\ Registered' /\ Piped' /\ Flowing'
  BY <1>1, OutOfLine DEF AcpInv, Slots
<1>3. Living'
  BY <1>1 DEF AcpInv, Living
<1>4. Counted'
  <2>1. call'[r] \in {"streamed", "finishing", "appending"} => reply[r] = "ok" /\ channel[r] = <<>>
    BY DEF After, Return, Discard, Complete, TakePending, GetTurns, Goto, AcpInv, TypeOK, Counted
  <2> QED
    BY <1>1, <2>1 DEF AcpInv, Counted, Got
<1>5. Clean'
  <2>1. call'[r] \in {"taking", "looking", "rebuilding"} => r \notin Prompts
    BY DEF After, Return, Discard, Complete, TakePending, GetTurns, Goto, AcpInv, TypeOK, Clean
  <2> QED
    BY <1>1, <2>1 DEF AcpInv, Clean
<1>6. Own'
  BY <1>1 DEF AcpInv, Own, OwnFrom
<1> QED
  BY <1>2, <1>3, <1>4, <1>5, <1>6 DEF AcpInv

\* The user of a client's slot is the head of its line, so that there is one.
LEMMA User ==
    ASSUME AcpInv
    PROVE  /\ \A q \in Requests : InUse(q) =>
                 client[q] \in Clients /\ lock[client[q]] # <<>> /\ lock[client[q]][1] = q
           /\ \A q, s \in Requests : InUse(q) /\ InUse(s) /\ client[q] = client[s] => q = s
<1>1. \A q \in Requests : InUse(q) => InLine(q) /\ lock[client[q]][1] = q
  BY DEF AcpInv, Slots, InUse, InLine
<1>2. \A q \in Requests : InLine(q) => client[q] \in Clients
  BY Typed DEF AcpInv, Slots, InLine, NoClient
<1>3. \A q \in Requests : InLine(q) => lock[client[q]] # <<>>
  <2> SUFFICES ASSUME NEW q \in Requests, InLine(q), lock[client[q]] = <<>> PROVE FALSE
    OBVIOUS
  <2>1. \E k \in 1 .. Len(lock[client[q]]) : lock[client[q]][k] = q
    BY DEF AcpInv, Slots
  <2> QED
    BY <2>1
<1> QED
  BY <1>1, <1>2, <1>3

\* What a client does, or has in its pipe, it does for that user.
LEMMA Busy ==
    ASSUME AcpInv, NEW c \in Clients, pipe[c] # <<>> \/ working[c] # None
    PROVE  LET h == lock[c][1] IN
           /\ h \in Requests /\ lock[c] # <<>> /\ InUse(h) /\ client[h] = c
           /\ call[h] = "waiting" /\ reply[h] = "none"
           /\ working[c] \in {h, None} /\ Carries(pipe[c], h, working[c])
<1>1. /\ lock[c] # <<>> /\ call[lock[c][1]] = "waiting" /\ reply[lock[c][1]] = "none"
      /\ working[c] \in {lock[c][1], None} /\ Carries(pipe[c], lock[c][1], working[c])
  BY DEF AcpInv, Piped
<1>2. 1 \in 1 .. Len(lock[c])
  BY <1>1, Typed DEF AcpInv
<1>3. lock[c][1] \in Requests /\ client[lock[c][1]] = c
  BY <1>2, Typed DEF AcpInv, Slots
<1> QED
  BY <1>1, <1>3 DEF InUse

\* What is fed depends on nothing else.
Untouched(q) ==
    /\ call'[q] = call[q] /\ client'[q] = client[q] /\ reply'[q] = reply[q]
    /\ position'[q] = position[q] /\ heard'[q] = heard[q] /\ channel'[q] = channel[q]

\* The consumer takes the next notification of the channel: none is lost on the way.
LEMMA ConsumeStep ==
    ASSUME AcpInv, TypeOK', NEW r \in Requests, Consume(r)
    PROVE  AcpInv'
<1> USE AcpBridgeAssumption DEF vars, poolVars, agentVars, innerVars, streamVars, bridgeVars
<1>1. /\ UNCHANGED <<call, client, pool, alive, working, position, reader, pipe, lock, pending,
                     subscriber, reply>>
      /\ heard' = [heard EXCEPT ![r] = Append(heard[r], channel[r][1])]
      /\ channel' = [channel EXCEPT ![r] = Tail(channel[r])]
      /\ channel[r] # <<>>
  BY Taking DEF Consume, AcpInv, TypeOK
<1> DEFINE h == heard[r]
           s == channel[r]
           t == Tail(channel[r])
<1>2. h \in Seq(Frame) /\ s \in Seq(Frame)
  BY DEF AcpInv, TypeOK
<1>3. /\ t \in Seq(Frame) /\ Len(s) \in Nat \ {0} /\ Len(t) = Len(s) - 1
      /\ \A k \in 1 .. Len(s) - 1 : t[k] = s[k + 1]
      /\ s[1] \in Frame
  BY <1>1, <1>2, Taking
<1> HIDE DEF h, s, t
<1>4. /\ Len(Append(h, s[1])) = Len(h) + 1 /\ Len(h) \in Nat
      /\ \A k \in 1 .. Len(h) : Append(h, s[1])[k] = h[k]
      /\ Append(h, s[1])[Len(h) + 1] = s[1]
  BY <1>2, <1>3, Appending
<1>5. heard'[r] = Append(h, s[1]) /\ channel'[r] = t
  BY <1>1 DEF h, s, t, AcpInv, TypeOK
<1>6. \A q \in Requests \ {r} : heard'[q] = heard[q] /\ channel'[q] = channel[q]
  BY <1>1 DEF AcpInv, TypeOK
<1>7. Got' = Got
  <2>1. Got'[r] = Got[r]
    <3>1. Got[r] = Len(h) + Len(s)
      BY DEF Got, h, s
    <3>2. Got'[r] = Len(Append(h, s[1])) + Len(t)
      BY <1>5 DEF Got
    <3> QED
      BY <3>1, <3>2, <1>3, <1>4
  <2>2. \A q \in Requests : Got'[q] = Got[q]
    BY <2>1, <1>6 DEF Got
  <2> QED
    BY <2>2 DEF Got
<1>8. Slots' /\ Registered' /\ Living' /\ Piped'
  <2>1. Slots'
    BY <1>1 DEF AcpInv, Slots, InLine, InUse
  <2>2. Registered'
    BY <1>1 DEF AcpInv, Registered, InLine, InUse
  <2>3. Living'
    BY <1>1 DEF AcpInv, Living
  <2>4. Piped'
    BY <1>1 DEF AcpInv, Piped, InLine, InUse
  <2> QED
    BY <2>1, <2>2, <2>3, <2>4
<1>9. Flowing'
  BY <1>1, <1>7 DEF AcpInv, Flowing
<1>10. Counted'
  BY <1>1, <1>6, <1>7 DEF AcpInv, Counted
<1>11. Clean'
  BY <1>1, <1>6 DEF AcpInv, Clean
<1>12. Own'
  <2> SUFFICES ASSUME NEW q \in Requests
               PROVE  (OwnFrom(q, heard[q], 0) /\ OwnFrom(q, channel[q], Len(heard[q])))'
    BY DEF Own
  <2>0. OwnFrom(q, heard[q], 0) /\ OwnFrom(q, channel[q], Len(heard[q]))
    BY DEF AcpInv, Own
  <2>1. CASE q = r
    <3>1. s[1] = NoteFrame(r, Len(h) + 1)
      BY <2>0, <2>1, <1>3 DEF OwnFrom, h, s
    <3>2. OwnFrom(r, Append(h, s[1]), 0)
      BY <2>0, <2>1, <3>1, <1>4 DEF OwnFrom, h
    <3>3. \A k \in 1 .. Len(t) : t[k] = NoteFrame(r, (Len(h) + 1) + k)
      <4> SUFFICES ASSUME NEW k \in 1 .. Len(t) PROVE t[k] = NoteFrame(r, (Len(h) + 1) + k)
        OBVIOUS
      <4>1. k + 1 \in 1 .. Len(s) /\ t[k] = s[k + 1] /\ Len(h) + (k + 1) = (Len(h) + 1) + k
        BY <1>3, <1>4
      <4> QED
        BY <4>1, <2>0, <2>1 DEF OwnFrom, h, s
    <3> QED
      BY <2>1, <3>2, <3>3, <1>4, <1>5 DEF OwnFrom
  <2>2. CASE q # r
    BY <2>0, <2>2, <1>6 DEF OwnFrom
  <2> QED
    BY <2>1, <2>2
<1> QED
  BY <1>8, <1>9, <1>10, <1>11, <1>12 DEF AcpInv

\* An eviction aborts the reader and drops the pipe.
LEMMA RemoveStep ==
    ASSUME AcpInv, TypeOK', NEW k \in Keys, RemoveClient(k)
    PROVE  AcpInv'
<1> USE AcpBridgeAssumption DEF vars, poolVars, agentVars, innerVars, streamVars, bridgeVars
<1> DEFINE c == pool[k]
<1>1. c \in Clients
  BY DEF RemoveClient
<1>2. /\ pool' = [pool EXCEPT ![k] = None] /\ reader' = [reader EXCEPT ![c] = "aborted"]
      /\ pipe' = [pipe EXCEPT ![c] = <<>>]
      /\ UNCHANGED <<call, client, alive, working, position, lock, pending, subscriber, reply,
                     channel, heard>>
  BY DEF RemoveClient
<1> HIDE DEF c
<1>3. /\ reader'[c] = "aborted" /\ \A d \in Clients \ {c} : reader'[d] = reader[d]
      /\ pipe'[c] = <<>> /\ \A d \in Clients \ {c} : pipe'[d] = pipe[d]
  BY <1>1, <1>2 DEF AcpInv, TypeOK
<1>4. Slots' /\ Registered'
  BY <1>2 DEF AcpInv, Slots, Registered, InLine, InUse
<1>5. Living'
  <2>1. \A q \in Requests : client'[q] # None => reader'[client'[q]] # "none"
    BY <1>2, <1>3, Typed DEF AcpInv, Living
  <2>2. \A j \in Keys : pool'[j] # None => reader'[pool'[j]] # "none"
    BY <1>2, <1>3 DEF AcpInv, TypeOK, Living
  <2> QED
    BY <1>2, <2>1, <2>2 DEF AcpInv, Living
<1>6. Piped'
  <2> SUFFICES ASSUME NEW d \in Clients, (pipe[d] # <<>> \/ working[d] # None)'
               PROVE  (/\ lock[d] # <<>>
                       /\ call[lock[d][1]] = "waiting" /\ reply[lock[d][1]] = "none"
                       /\ working[d] \in {lock[d][1], None}
                       /\ Carries(pipe[d], lock[d][1], working[d]))'
    BY DEF Piped
  <2>1. pipe[d] # <<>> \/ working[d] # None
    BY <1>2, <1>3
  <2>2. pipe'[d] \in {pipe[d], <<>>}
    BY <1>3
  <2> QED
    BY <1>2, <2>1, <2>2, Busy DEF Carries
<1>7. Flowing'
  <2> SUFFICES ASSUME NEW q \in Prompts,
                      (call[q] = "waiting" /\ reply[q] = "none" /\ reader[client[q]] = "on")'
               PROVE  Fed(q, Got[q], pipe[client[q]], position[q])'
    BY DEF Flowing
  <2>1. client[q] \in Clients \ {c}
    BY <1>2, <1>3, User DEF InUse
  <2>2. Got'[q] = Got[q]
    BY <1>2 DEF Got
  <2> QED
    BY <1>2, <1>3, <2>1, <2>2 DEF AcpInv, Flowing
<1>8. Counted' /\ Clean' /\ Own'
  BY <1>2 DEF AcpInv, Counted, Clean, Own, Got
<1> QED
  BY <1>4, <1>5, <1>6, <1>7, <1>8 DEF AcpInv

\* An agent that is gone works for no one; what it has said can still be read.
LEMMA GoneStep ==
    ASSUME AcpInv, TypeOK', NEW c \in Clients, AgentGone(c)
    PROVE  AcpInv'
<1> USE AcpBridgeAssumption DEF vars, poolVars, agentVars, innerVars, streamVars, bridgeVars
<1>1. /\ alive' = alive \ {c} /\ working' = [working EXCEPT ![c] = None]
      /\ UNCHANGED <<call, client, pool, position, reader, pipe, lock, pending, subscriber, reply,
                     channel, heard>>
  BY DEF AgentGone
<1>2. working'[c] = None /\ \A d \in Clients \ {c} : working'[d] = working[d]
  BY <1>1 DEF AcpInv, TypeOK
<1>3. Slots' /\ Registered' /\ Flowing'
  <2>1. Slots' /\ Registered'
    BY <1>1 DEF AcpInv, Slots, Registered, InLine, InUse
  <2>2. Got' = Got
    BY <1>1 DEF Got
  <2> QED
    BY <1>1, <2>1, <2>2 DEF AcpInv, Flowing
<1>4. Living'
  BY <1>1, <1>2 DEF AcpInv, Living
<1>5. Piped'
  <2> SUFFICES ASSUME NEW d \in Clients, (pipe[d] # <<>> \/ working[d] # None)'
               PROVE  (/\ lock[d] # <<>>
                       /\ call[lock[d][1]] = "waiting" /\ reply[lock[d][1]] = "none"
                       /\ working[d] \in {lock[d][1], None}
                       /\ Carries(pipe[d], lock[d][1], working[d]))'
    BY DEF Piped
  <2>1. pipe[d] # <<>> \/ working[d] # None
    BY <1>1, <1>2
  <2>2. working'[d] \in {working[d], None}
    BY <1>2
  <2> QED
    BY <1>1, <2>1, <2>2, Busy DEF Carries
<1>6. Counted' /\ Clean' /\ Own'
  BY <1>1 DEF AcpInv, Counted, Clean, Own, Got
<1> QED
  BY <1>3, <1>4, <1>5, <1>6 DEF AcpInv

\* A request goes to the end of its client's line.
LEMMA EnqueueStep ==
    ASSUME AcpInv, TypeOK', NEW r \in Requests, Enqueue(r)
    PROVE  AcpInv'
<1> USE AcpBridgeAssumption DEF vars, poolVars, agentVars, innerVars, streamVars, bridgeVars
<1> DEFINE c == client[r]
           l == lock[c]
           m == Append(lock[c], r)
<1>1. c \in Clients /\ call[r] = "held" /\ ~InLine(r)
  BY Holding DEF Enqueue, AcpInv, NoClient, InLine
<1>2. /\ lock' = [lock EXCEPT ![c] = Append(lock[c], r)]
      /\ UNCHANGED <<client, pool, alive, working, position, reader, pipe, pending, subscriber,
                     reply, channel, heard>>
  BY DEF Enqueue
<1>3. call'[r] = "queued" /\ \A q \in Requests \ {r} : call'[q] = call[q]
  BY DEF Enqueue, Goto, AcpInv, TypeOK
<1>4. /\ Len(l) \in Nat /\ Len(m) = Len(l) + 1 /\ m[Len(l) + 1] = r
      /\ \A k \in 1 .. Len(l) : m[k] = l[k]
      /\ \A k \in 1 .. Len(l) : l[k] \in Requests /\ l[k] # r
  <2>1. l \in Seq(Requests)
    BY <1>1, Typed DEF AcpInv
  <2>2. \A d \in Clients : \A k \in 1 .. Len(lock[d]) : lock[d][k] \in Requests /\ lock[d][k] # r
    <3>1. \A d \in Clients : \A k \in 1 .. Len(lock[d]) : lock[d][k] \in Requests
      BY Typed DEF AcpInv
    <3>2. \A d \in Clients : \A k \in 1 .. Len(lock[d]) : InLine(lock[d][k])
      BY DEF AcpInv, Slots
    <3> QED
      BY <1>1, <3>1, <3>2
  <2>3. \A k \in 1 .. Len(l) : l[k] \in Requests /\ l[k] # r
    BY <1>1, <2>2
  <2> QED
    BY <2>1, <2>3, Appending
<1>5. lock'[c] = m /\ \A d \in Clients \ {c} : lock'[d] = lock[d]
  BY <1>1, <1>2 DEF AcpInv, TypeOK
<1> HIDE DEF m
<1>6. /\ \A q \in Requests : InUse(q)' <=> InUse(q)
      /\ \A q \in Requests : InLine(q)' <=> InLine(q) \/ q = r
  BY <1>1, <1>3 DEF InUse, InLine
<1>7. \A d \in Clients : \A k \in 1 .. Len(lock[d]) :
          /\ k \in 1 .. Len(lock'[d]) /\ lock'[d][k] = lock[d][k]
          /\ lock[d][k] \in Requests \ {r}
          /\ InLine(lock[d][k]) /\ client[lock[d][k]] = d
  BY <1>1, <1>4, <1>5, Typed DEF AcpInv, Slots
<1>8. \A d \in Clients : \A k \in 1 .. Len(lock'[d]) :
          k \in 1 .. Len(lock[d]) \/ (d = c /\ k = Len(l) + 1)
  BY <1>4, <1>5
<1>9. Slots'
  <2>1. (\A q \in Requests : client[q] = None <=> call[q] \in NoClient)'
    BY <1>1, <1>2, <1>3 DEF AcpInv, Slots, NoClient
  <2>2. (\A d \in Clients : \A k \in 1 .. Len(lock[d]) :
             InLine(lock[d][k]) /\ client[lock[d][k]] = d)'
    <3> SUFFICES ASSUME NEW d \in Clients, NEW k \in 1 .. Len(lock'[d])
                 PROVE  (InLine(lock[d][k]) /\ client[lock[d][k]] = d)'
      OBVIOUS
    <3>1. CASE k \in 1 .. Len(lock[d])
      <4> DEFINE x == lock[d][k]
      <4>1. x \in Requests \ {r} /\ InLine(x) /\ client[x] = d /\ lock'[d][k] = x
        BY <3>1, <1>7
      <4>2. call'[x] = call[x]
        BY <4>1, <1>3
      <4> HIDE DEF x
      <4> QED
        BY <4>1, <4>2, <1>2 DEF InLine
    <3>2. CASE d = c /\ k = Len(l) + 1
      <4>1. lock'[d][k] = r
        BY <3>2, <1>4, <1>5
      <4> QED
        BY <4>1, <3>2, <1>2, <1>3 DEF InLine
    <3> QED
      BY <3>1, <3>2, <1>8
  <2>3. (\A q \in Requests : InLine(q) => \E k \in 1 .. Len(lock[client[q]]) :
             lock[client[q]][k] = q)'
    <3> SUFFICES ASSUME NEW q \in Requests, InLine(q)'
                 PROVE  \E k \in 1 .. Len(lock'[client[q]]) : lock'[client[q]][k] = q
      BY <1>2
    <3>1. CASE q = r
      BY <3>1, <1>4, <1>5
    <3>2. CASE q # r
      <4>1. InLine(q) /\ client[q] \in Clients
        BY <3>2, <1>6, Typed DEF AcpInv, Slots, InLine, NoClient
      <4>2. PICK k \in 1 .. Len(lock[client[q]]) : lock[client[q]][k] = q
        BY <4>1 DEF AcpInv, Slots
      <4> QED
        BY <4>1, <4>2, <1>7
    <3> QED
      BY <3>1, <3>2
  <2>4. (\A d \in Clients : \A j, k \in 1 .. Len(lock[d]) : lock[d][j] = lock[d][k] => j = k)'
    <3> SUFFICES ASSUME NEW d \in Clients, NEW j \in 1 .. Len(lock'[d]), NEW k \in 1 .. Len(lock'[d]),
                        lock'[d][j] = lock'[d][k]
                 PROVE  j = k
      OBVIOUS
    <3>1. CASE j \in 1 .. Len(lock[d]) /\ k \in 1 .. Len(lock[d])
      <4>1. lock[d][j] = lock[d][k]
        BY <3>1, <1>7
      <4> QED
        BY <3>1, <4>1 DEF AcpInv, Slots
    <3>2. CASE j \notin 1 .. Len(lock[d]) /\ k \notin 1 .. Len(lock[d])
      BY <3>2, <1>8
    <3>4. \A i \in 1 .. Len(lock'[d]) :
              IF i \in 1 .. Len(lock[d]) THEN lock'[d][i] # r ELSE lock'[d][i] = r
      <4> SUFFICES ASSUME NEW i \in 1 .. Len(lock'[d])
                   PROVE  IF i \in 1 .. Len(lock[d]) THEN lock'[d][i] # r ELSE lock'[d][i] = r
        OBVIOUS
      <4>1. i \notin 1 .. Len(lock[d]) => d = c /\ i = Len(l) + 1
        BY <1>8
      <4>2. CASE i \in 1 .. Len(lock[d])
        <5>1. lock'[d][i] = lock[d][i] /\ lock[d][i] # r
          BY <4>2, <1>7
        <5> QED
          BY <5>1, <4>2
      <4>3. CASE i \notin 1 .. Len(lock[d])
        <5>1. lock'[d][i] = r
          BY <4>1, <4>3, <1>4, <1>5
        <5> QED
          BY <5>1, <4>3
      <4> QED
        BY <4>2, <4>3
    <3>3. CASE (j \in 1 .. Len(lock[d])) # (k \in 1 .. Len(lock[d]))
      BY <3>3, <3>4
    <3> QED
      BY <3>1, <3>2, <3>3
  <2>5. (\A q \in Requests : InUse(q) => lock[client[q]][1] = q)'
    <3> SUFFICES ASSUME NEW q \in Requests, InUse(q) PROVE lock'[client[q]][1] = q
      BY <1>2, <1>6
    <3> DEFINE d == client[q]
    <3>1. d \in Clients /\ lock[d] # <<>> /\ lock[d][1] = q
      BY User
    <3> HIDE DEF d
    <3>2. 1 \in 1 .. Len(lock[d])
      BY <3>1, Typed DEF AcpInv
    <3>3. lock'[d][1] = lock[d][1]
      BY <3>1, <3>2, <1>7
    <3> QED
      BY <3>1, <3>3 DEF d
  <2> QED
    BY <2>1, <2>2, <2>3, <2>4, <2>5 DEF Slots
<1>10. Registered'
  <2>1. \A d \in Clients : pending[d] \subseteq Requests
    BY Typed DEF AcpInv
  <2> QED
    BY <2>1, <1>2, <1>6 DEF AcpInv, Registered
<1>11. Living'
  BY <1>1, <1>2, <1>3 DEF AcpInv, Living, Unsent
<1>12. Piped'
  <2> SUFFICES ASSUME NEW d \in Clients, pipe[d] # <<>> \/ working[d] # None
               PROVE  (/\ lock[d] # <<>>
                       /\ call[lock[d][1]] = "waiting" /\ reply[lock[d][1]] = "none"
                       /\ working[d] \in {lock[d][1], None}
                       /\ Carries(pipe[d], lock[d][1], working[d]))'
    BY <1>2 DEF Piped
  <2>1. 1 \in 1 .. Len(lock[d])
    BY Busy, Typed DEF AcpInv
  <2>2. lock'[d][1] = lock[d][1] /\ lock'[d] # <<>> /\ lock[d][1] \in Requests \ {r}
    BY <2>1, <1>7
  <2> QED
    BY <2>2, <1>2, <1>3, Busy
<1>13. Flowing'
  BY <1>1, <1>2, <1>3 DEF AcpInv, Flowing, Got
<1>14. Counted' /\ Clean' /\ Own'
  BY <1>1, <1>2, <1>3 DEF AcpInv, Counted, Clean, Own, Got, Unsent
<1> QED
  BY <1>9, <1>10, <1>11, <1>12, <1>13, <1>14 DEF AcpInv

\* The head of the line takes the slot, and a prompt becomes the subscriber.
LEMMA RegisterStep ==
    ASSUME AcpInv, TypeOK', NEW r \in Requests, Register(r)
    PROVE  AcpInv'
<1> USE AcpBridgeAssumption DEF vars, poolVars, agentVars, innerVars, streamVars, bridgeVars
<1> DEFINE c == client[r]
<1>1. c \in Clients /\ call[r] = "queued" /\ InLine(r)
  BY Holding DEF Register, AcpInv, NoClient, InLine
<1>2. /\ UNCHANGED <<client, pool, alive, working, position, reader, pipe, lock, reply, channel,
                     heard>>
      /\ pending' = [pending EXCEPT ![c] = pending[c] \cup {r}]
      /\ subscriber' = IF r \in Prompts THEN [subscriber EXCEPT ![c] = r] ELSE subscriber
  BY DEF Register
<1>3. call'[r] = "registered" /\ \A q \in Requests \ {r} : call'[q] = call[q]
  BY DEF Register, Goto, AcpInv, TypeOK
<1>4. lock[c] # <<>> /\ lock[c][1] = r
  <2>1. \E k \in 1 .. Len(lock[c]) : lock[c][k] = r
    BY <1>1 DEF AcpInv, Slots
  <2>2. lock[c] # <<>>
    BY <2>1
  <2>3. Head(lock[c]) = lock[c][1]
    BY <1>1, <2>2, Typed DEF AcpInv
  <2> QED
    BY <2>2, <2>3 DEF Register
<1> HIDE DEF c
<1>5. /\ \A q \in Requests : InLine(q)' <=> InLine(q)
      /\ \A q \in Requests : InUse(q)' <=> InUse(q) \/ q = r
  BY <1>1, <1>3 DEF InUse, InLine
<1>6. \A q \in Requests : InUse(q) => client[q] # c
  BY <1>1, <1>4, User DEF InUse
<1>7. /\ pending'[c] = pending[c] \cup {r} /\ \A d \in Clients \ {c} : pending'[d] = pending[d]
      /\ subscriber'[c] = (IF r \in Prompts THEN r ELSE subscriber[c])
      /\ \A d \in Clients \ {c} : subscriber'[d] = subscriber[d]
  BY <1>1, <1>2 DEF AcpInv, TypeOK
<1>8. Slots'
  <2>1. (\A q \in Requests : client[q] = None <=> call[q] \in NoClient)'
    BY <1>1, <1>2, <1>3 DEF AcpInv, Slots, NoClient
  <2>2. (\A d \in Clients : \A k \in 1 .. Len(lock[d]) :
             InLine(lock[d][k]) /\ client[lock[d][k]] = d)'
    <3>1. \A d \in Clients : \A k \in 1 .. Len(lock[d]) :
              lock[d][k] \in Requests /\ InLine(lock[d][k]) /\ client[lock[d][k]] = d
      BY Typed DEF AcpInv, Slots
    <3> QED
      BY <1>2, <1>5, <3>1
  <2>3. (\A q \in Requests : InLine(q) => \E k \in 1 .. Len(lock[client[q]]) :
             lock[client[q]][k] = q)'
    BY <1>2, <1>5 DEF AcpInv, Slots
  <2>4. (\A d \in Clients : \A j, k \in 1 .. Len(lock[d]) : lock[d][j] = lock[d][k] => j = k)'
    BY <1>2 DEF AcpInv, Slots
  <2>5. (\A q \in Requests : InUse(q) => lock[client[q]][1] = q)'
    BY <1>2, <1>4, <1>5 DEF AcpInv, Slots, c
  <2> QED
    BY <2>1, <2>2, <2>3, <2>4, <2>5 DEF Slots
<1>9. Registered'
  <2>1. (\A d \in Clients : \A q \in pending[d] : InUse(q) /\ client[q] = d /\ reply[q] = "none")'
    <3> SUFFICES ASSUME NEW d \in Clients, NEW q \in pending'[d]
                 PROVE  (InUse(q) /\ client[q] = d /\ reply[q] = "none")'
      OBVIOUS
    <3>1. CASE q = r /\ d = c
      <4>1. reply[r] = "none"
        BY <1>1 DEF AcpInv, Living, Unsent
      <4> QED
        BY <3>1, <4>1, <1>2, <1>5 DEF c
    <3>2. CASE q \in pending[d]
      <4>1. q \in Requests /\ InUse(q) /\ client[q] = d /\ reply[q] = "none"
        BY <3>2, Typed DEF AcpInv, Registered
      <4> QED
        BY <4>1, <1>2, <1>5
    <3> QED
      BY <3>1, <3>2, <1>7
  <2>2. (\A d \in Clients : subscriber[d] # None =>
             subscriber[d] \in Prompts /\ InUse(subscriber[d]) /\ client[subscriber[d]] = d)'
    <3> SUFFICES ASSUME NEW d \in Clients, subscriber'[d] # None
                 PROVE  (/\ subscriber[d] \in Prompts
                         /\ InUse(subscriber[d]) /\ client[subscriber[d]] = d)'
      OBVIOUS
    <3> DEFINE s == subscriber'[d]
    <3>1. CASE d = c /\ r \in Prompts
      <4>1. s = r
        BY <3>1, <1>7
      <4> QED
        BY <3>1, <4>1, <1>2, <1>3 DEF InUse, c
    <3>2. CASE ~(d = c /\ r \in Prompts)
      <4>1. s = subscriber[d]
        BY <3>2, <1>7
      <4>2. s \in Prompts /\ InUse(s) /\ client[s] = d
        BY <4>1 DEF AcpInv, Registered
      <4>3. s # r
        BY <4>2, <1>1 DEF InUse
      <4> HIDE DEF s
      <4>4. s \in Prompts /\ call'[s] \in {"registered", "waiting"} /\ client'[s] = d
        BY <4>2, <4>3, <1>2, <1>3 DEF InUse
      <4> QED
        BY <4>4 DEF InUse, s
    <3> QED
      BY <3>1, <3>2
  <2>3. (\A q \in Prompts : InUse(q) => subscriber[client[q]] = q)'
    <3> SUFFICES ASSUME NEW q \in Prompts, InUse(q)' PROVE subscriber'[client[q]] = q
      BY <1>2
    <3>1. CASE q = r
      BY <3>1, <1>7 DEF c
    <3>2. CASE q # r
      <4>1. InUse(q) /\ client[q] \in Clients \ {c}
        BY <3>2, <1>5, <1>6, User
      <4> QED
        BY <4>1, <1>7 DEF AcpInv, Registered
    <3> QED
      BY <3>1, <3>2
  <2> QED
    BY <2>1, <2>2, <2>3 DEF Registered
<1>10. Living'
  BY <1>1, <1>2, <1>3 DEF AcpInv, Living, Unsent
<1>11. Piped'
  <2> SUFFICES ASSUME NEW d \in Clients, pipe[d] # <<>> \/ working[d] # None
               PROVE  (/\ lock[d] # <<>>
                       /\ call[lock[d][1]] = "waiting" /\ reply[lock[d][1]] = "none"
                       /\ working[d] \in {lock[d][1], None}
                       /\ Carries(pipe[d], lock[d][1], working[d]))'
    BY <1>2 DEF Piped
  <2>1. lock[d][1] \in Requests \ {r}
    BY Busy, <1>1
  <2> QED
    BY <2>1, <1>2, <1>3, Busy
<1>12. Flowing'
  BY <1>1, <1>2, <1>3 DEF AcpInv, Flowing, Got
<1>13. Counted' /\ Clean' /\ Own'
  BY <1>1, <1>2, <1>3 DEF AcpInv, Counted, Clean, Own, Got, Unsent
<1> QED
  BY <1>8, <1>9, <1>10, <1>11, <1>12, <1>13 DEF AcpInv

\* The request is written: the agent works for it, and its pipe is empty.
LEMMA WriteStep ==
    ASSUME AcpInv, TypeOK', NEW r \in Requests, Write(r)
    PROVE  AcpInv'
<1> USE AcpBridgeAssumption DEF vars, poolVars, agentVars, innerVars, streamVars, bridgeVars
<1> DEFINE c == client[r]
<1>1. /\ c \in Clients /\ c \in alive /\ call[r] = "registered" /\ InUse(r)
      /\ lock[c] # <<>> /\ lock[c][1] = r
  BY User DEF Write, InUse
<1>2. /\ UNCHANGED <<client, pool, alive, position, reader, pipe, lock, pending, subscriber,
                     reply, channel, heard>>
      /\ working' = [working EXCEPT ![c] = r]
  BY DEF Write
<1>3. call'[r] = "waiting" /\ \A q \in Requests \ {r} : call'[q] = call[q]
  BY DEF Write, Goto, AcpInv, TypeOK
<1>4. working'[c] = r /\ \A d \in Clients \ {c} : working'[d] = working[d]
  BY <1>1, <1>2 DEF AcpInv, TypeOK
<1>5. reply[r] = "none"
  BY <1>1 DEF AcpInv, Living
<1>6. pipe[c] = <<>> /\ working[c] = None
  BY <1>1, Busy
<1> HIDE DEF c
<1>7. \A q \in Requests : (InLine(q)' <=> InLine(q)) /\ (InUse(q)' <=> InUse(q))
  BY <1>1, <1>3 DEF InUse, InLine
<1>8. Slots'
  <2>1. (\A q \in Requests : client[q] = None <=> call[q] \in NoClient)'
    BY <1>1, <1>2, <1>3 DEF AcpInv, Slots, NoClient
  <2>2. (\A d \in Clients : \A k \in 1 .. Len(lock[d]) :
             InLine(lock[d][k]) /\ client[lock[d][k]] = d)'
    <3>1. \A d \in Clients : \A k \in 1 .. Len(lock[d]) :
              lock[d][k] \in Requests /\ InLine(lock[d][k]) /\ client[lock[d][k]] = d
      BY Typed DEF AcpInv, Slots
    <3> QED
      BY <1>2, <1>7, <3>1
  <2>3. (\A q \in Requests : InLine(q) => \E k \in 1 .. Len(lock[client[q]]) :
             lock[client[q]][k] = q)'
    BY <1>2, <1>7 DEF AcpInv, Slots
  <2>4. (\A d \in Clients : \A j, k \in 1 .. Len(lock[d]) : lock[d][j] = lock[d][k] => j = k)'
    BY <1>2 DEF AcpInv, Slots
  <2>5. (\A q \in Requests : InUse(q) => lock[client[q]][1] = q)'
    BY <1>2, <1>7 DEF AcpInv, Slots
  <2> QED
    BY <2>1, <2>2, <2>3, <2>4, <2>5 DEF Slots
<1>9. Registered'
  <2>1. \A d \in Clients : \A q \in pending[d] :
            q \in Requests /\ InUse(q) /\ client[q] = d /\ reply[q] = "none"
    BY Typed DEF AcpInv, Registered
  <2>2. (\A d \in Clients : \A q \in pending[d] : InUse(q) /\ client[q] = d /\ reply[q] = "none")'
    BY <1>2, <1>7, <2>1
  <2>3. (\A d \in Clients : subscriber[d] # None =>
             subscriber[d] \in Prompts /\ InUse(subscriber[d]) /\ client[subscriber[d]] = d)'
    BY <1>2, <1>7 DEF AcpInv, Registered
  <2>4. (\A q \in Prompts : InUse(q) => subscriber[client[q]] = q)'
    BY <1>2, <1>7 DEF AcpInv, Registered
  <2> QED
    BY <2>2, <2>3, <2>4 DEF Registered
<1>10. Living'
  BY <1>1, <1>2, <1>3, <1>4 DEF AcpInv, Living, Unsent, NoClient
<1>11. Piped'
  <2> SUFFICES ASSUME NEW d \in Clients, (pipe[d] # <<>> \/ working[d] # None)'
               PROVE  (/\ lock[d] # <<>>
                       /\ call[lock[d][1]] = "waiting" /\ reply[lock[d][1]] = "none"
                       /\ working[d] \in {lock[d][1], None}
                       /\ Carries(pipe[d], lock[d][1], working[d]))'
    BY DEF Piped
  <2>1. CASE d = c
    <3>1. Carries(<<>>, r, r)
      BY DEF Carries
    <3> QED
      BY <2>1, <3>1, <1>1, <1>2, <1>3, <1>4, <1>5, <1>6 DEF c
  <2>2. CASE d # c
    <3>1. pipe[d] # <<>> \/ working[d] # None
      BY <2>2, <1>2, <1>4
    <3>2. lock[d][1] \in Requests \ {r}
      BY <3>1, Busy, <1>1
    <3> QED
      BY <2>2, <3>1, <3>2, <1>2, <1>3, <1>4, Busy
  <2> QED
    BY <2>1, <2>2
<1>12. Flowing'
  <2> SUFFICES ASSUME NEW q \in Prompts,
                      (call[q] = "waiting" /\ reply[q] = "none" /\ reader[client[q]] = "on")'
               PROVE  Fed(q, Got[q], pipe[client[q]], position[q])'
    BY DEF Flowing
  <2>1. Got' = Got
    BY <1>2 DEF Got
  <2>2. CASE q = r
    <3>1. heard[r] = <<>> /\ channel[r] = <<>> /\ position[r] = 0
      BY <1>1 DEF AcpInv, Clean
    <3>2. Got[r] = 0
      <4>1. Len(heard[r]) = 0 /\ Len(channel[r]) = 0
        BY <3>1
      <4>2. Got[r] = Len(heard[r]) + Len(channel[r])
        BY DEF Got
      <4> QED
        BY <4>1, <4>2
    <3>3. Fed(r, 0, <<>>, 0)
      BY DEF Fed, Notes
    <3> QED
      BY <2>1, <2>2, <3>1, <3>2, <3>3, <1>2, <1>6 DEF c
  <2>3. CASE q # r
    BY <2>1, <2>3, <1>2, <1>3 DEF AcpInv, Flowing
  <2> QED
    BY <2>2, <2>3
<1>13. Counted' /\ Clean' /\ Own'
  BY <1>1, <1>2, <1>3 DEF AcpInv, Counted, Clean, Own, Got, Unsent, NoClient
<1> QED
  BY <1>8, <1>9, <1>10, <1>11, <1>12, <1>13 DEF AcpInv

\* A request gives up the slot: its write has failed, or it has been answered.
LEMMA UnlockStep ==
    ASSUME AcpInv, TypeOK', NEW r \in Requests, WriteFails(r) \/ Resume(r)
    PROVE  AcpInv'
<1> USE AcpBridgeAssumption DEF vars, poolVars, agentVars, innerVars, streamVars, bridgeVars
<1> DEFINE c == client[r]
           l == lock[c]
           t == Tail(lock[c])
<1>1. c \in Clients /\ InUse(r) /\ l # <<>> /\ l[1] = r
  BY User DEF WriteFails, Resume, InUse
<1>2. /\ UNCHANGED <<client, pool, alive, working, position, reader, pipe, channel, heard>>
      /\ lock' = [lock EXCEPT ![c] = t] /\ subscriber' = [subscriber EXCEPT ![c] = None]
      /\ pending' \in {pending, [pending EXCEPT ![c] = @ \ {r}]}
      /\ reply' \in {reply, [reply EXCEPT ![r] = "error"]}
  BY DEF WriteFails, Withdraw, Resume, Unlock
<1>3. call'[r] = "draining" /\ \A q \in Requests \ {r} : call'[q] = call[q]
  BY DEF WriteFails, Resume, Goto, AcpInv, TypeOK
<1>4. call[r] # "waiting" \/ reply[r] # "none"
  BY DEF WriteFails, Resume
<1>5. r \notin pending'[c]
  <2>1. CASE WriteFails(r)
    BY <2>1, <1>1 DEF WriteFails, Withdraw, AcpInv, TypeOK
  <2>2. CASE Resume(r)
    BY <2>2, <1>1 DEF Resume, AcpInv, Registered
  <2> QED
    BY <2>1, <2>2
<1>6. /\ t \in Seq(Requests) /\ Len(l) \in Nat \ {0} /\ Len(t) = Len(l) - 1
      /\ \A k \in 1 .. Len(l) - 1 : t[k] = l[k + 1]
  BY <1>1, Typed, Taking DEF AcpInv
<1> HIDE DEF c, l, t
<1>7. /\ lock'[c] = t /\ \A d \in Clients \ {c} : lock'[d] = lock[d]
      /\ subscriber'[c] = None /\ \A d \in Clients \ {c} : subscriber'[d] = subscriber[d]
      /\ \A d \in Clients : pending'[d] \subseteq pending[d]
      /\ \A q \in Requests \ {r} : reply'[q] = reply[q]
      /\ reply'[r] \in {reply[r], "error"}
  <2>1. lock'[c] = t /\ \A d \in Clients \ {c} : lock'[d] = lock[d]
    BY <1>1, <1>2 DEF AcpInv, TypeOK
  <2>2. subscriber'[c] = None /\ \A d \in Clients \ {c} : subscriber'[d] = subscriber[d]
    BY <1>1, <1>2 DEF AcpInv, TypeOK
  <2>3. \A d \in Clients : pending'[d] \subseteq pending[d]
    <3>1. pending \in [Clients -> SUBSET Requests]
      BY DEF AcpInv, TypeOK
    <3>2. pending' = pending \/ pending' = [pending EXCEPT ![c] = pending[c] \ {r}]
      BY <1>2
    <3> QED
      BY <3>1, <3>2
  <2>4. (\A q \in Requests \ {r} : reply'[q] = reply[q]) /\ reply'[r] \in {reply[r], "error"}
    BY <1>2 DEF AcpInv, TypeOK
  <2> QED
    BY <2>1, <2>2, <2>3, <2>4
<1>8. /\ \A q \in Requests : InLine(q)' <=> InLine(q) /\ q # r
      /\ \A q \in Requests : InUse(q)' <=> InUse(q) /\ q # r
      /\ InLine(r)
  BY <1>1, <1>3 DEF InUse, InLine
<1>9. \A q \in Requests : InUse(q) /\ q # r => client[q] # c
  BY <1>1, User DEF c
<1>10. \A d \in Clients : \A k \in 1 .. Len(lock[d]) :
           lock[d][k] \in Requests /\ InLine(lock[d][k]) /\ client[lock[d][k]] = d
  BY Typed DEF AcpInv, Slots
<1>11. \A k \in 1 .. Len(t) : k + 1 \in 1 .. Len(l) /\ t[k] = l[k + 1] /\ l[k + 1] # r
  <2> SUFFICES ASSUME NEW k \in 1 .. Len(t)
               PROVE  k + 1 \in 1 .. Len(l) /\ t[k] = l[k + 1] /\ l[k + 1] # r
    OBVIOUS
  <2>1. k + 1 \in 1 .. Len(l) /\ t[k] = l[k + 1] /\ k + 1 # 1 /\ 1 \in 1 .. Len(l)
    BY <1>6
  <2>2. l[k + 1] # l[1]
    BY <2>1, <1>1 DEF AcpInv, Slots, l
  <2> QED
    BY <2>1, <2>2, <1>1
<1>12. Slots'
  <2>1. (\A q \in Requests : client[q] = None <=> call[q] \in NoClient)'
    BY <1>1, <1>2, <1>3 DEF AcpInv, Slots, NoClient, InUse
  <2>2. (\A d \in Clients : \A k \in 1 .. Len(lock[d]) :
             InLine(lock[d][k]) /\ client[lock[d][k]] = d)'
    <3> SUFFICES ASSUME NEW d \in Clients, NEW k \in 1 .. Len(lock'[d])
                 PROVE  (InLine(lock[d][k]) /\ client[lock[d][k]] = d)'
      OBVIOUS
    <3> DEFINE x == lock'[d][k]
    <3>1. x \in Requests \ {r} /\ InLine(x) /\ client[x] = d
      <4>1. CASE d = c
        BY <4>1, <1>7, <1>10, <1>11 DEF l
      <4>2. CASE d # c
        <5>1. k \in 1 .. Len(lock[d]) /\ x = lock[d][k]
          BY <4>2, <1>7
        <5>2. x \in Requests /\ InLine(x) /\ client[x] = d
          BY <5>1, <1>10
        <5> QED
          BY <5>2, <4>2 DEF c
      <4> QED
        BY <4>1, <4>2
    <3>2. call'[x] = call[x]
      BY <3>1, <1>3
    <3> HIDE DEF x
    <3>3. (call'[x] \in {"queued", "registered", "waiting"}) /\ client'[x] = d
      BY <3>1, <3>2, <1>2 DEF InLine
    <3> QED
      BY <3>3 DEF InLine, x
  <2>3. (\A q \in Requests : InLine(q) => \E k \in 1 .. Len(lock[client[q]]) :
             lock[client[q]][k] = q)'
    <3> SUFFICES ASSUME NEW q \in Requests, InLine(q), q # r
                 PROVE  \E k \in 1 .. Len(lock'[client[q]]) : lock'[client[q]][k] = q
      BY <1>2, <1>8
    <3>1. PICK k \in 1 .. Len(lock[client[q]]) : lock[client[q]][k] = q
      BY DEF AcpInv, Slots
    <3>2. client[q] \in Clients
      BY Typed DEF AcpInv, Slots, InLine, NoClient
    <3>3. CASE client[q] = c
      <4>1. k # 1 /\ k \in 1 .. Len(l) /\ l[k] = q
        BY <3>1, <3>3, <1>1 DEF l
      <4>2. k - 1 \in 1 .. Len(t) /\ t[k - 1] = l[k]
        <5>1. k - 1 \in 1 .. Len(l) - 1 /\ (k - 1) + 1 = k
          BY <4>1, <1>6
        <5>2. t[k - 1] = l[(k - 1) + 1]
          BY <5>1, <1>6
        <5> QED
          BY <5>1, <5>2, <1>6
      <4> QED
        BY <4>1, <4>2, <3>3, <1>7
    <3>4. CASE client[q] # c
      BY <3>1, <3>2, <3>4, <1>7
    <3> QED
      BY <3>3, <3>4
  <2>4. (\A d \in Clients : \A j, k \in 1 .. Len(lock[d]) : lock[d][j] = lock[d][k] => j = k)'
    <3> SUFFICES ASSUME NEW d \in Clients, NEW j \in 1 .. Len(lock'[d]), NEW k \in 1 .. Len(lock'[d]),
                        lock'[d][j] = lock'[d][k]
                 PROVE  j = k
      OBVIOUS
    <3>1. CASE d = c
      <4>1. /\ j + 1 \in 1 .. Len(l) /\ k + 1 \in 1 .. Len(l) /\ l[j + 1] = l[k + 1]
        BY <3>1, <1>7, <1>11
      <4>2. j + 1 = k + 1
        BY <4>1, <1>1 DEF AcpInv, Slots, l
      <4> QED
        BY <4>2
    <3>2. CASE d # c
      BY <3>2, <1>7 DEF AcpInv, Slots
    <3> QED
      BY <3>1, <3>2
  <2>5. (\A q \in Requests : InUse(q) => lock[client[q]][1] = q)'
    <3> SUFFICES ASSUME NEW q \in Requests, InUse(q), q # r PROVE lock'[client[q]][1] = q
      BY <1>2, <1>8
    <3>1. client[q] \in Clients \ {c} /\ lock[client[q]][1] = q
      BY <1>9, User
    <3> QED
      BY <3>1, <1>7
  <2> QED
    BY <2>1, <2>2, <2>3, <2>4, <2>5 DEF Slots
<1>13. Registered'
  <2>1. (\A d \in Clients : \A q \in pending[d] : InUse(q) /\ client[q] = d /\ reply[q] = "none")'
    <3> SUFFICES ASSUME NEW d \in Clients, NEW q \in pending'[d]
                 PROVE  (InUse(q) /\ client[q] = d /\ reply[q] = "none")'
      OBVIOUS
    <3>1. q \in Requests /\ InUse(q) /\ client[q] = d /\ reply[q] = "none"
      BY <1>7, Typed DEF AcpInv, Registered
    <3>2. q # r
      BY <3>1, <1>5 DEF c
    <3> QED
      BY <3>1, <3>2, <1>2, <1>7, <1>8
  <2>2. (\A d \in Clients : subscriber[d] # None =>
             subscriber[d] \in Prompts /\ InUse(subscriber[d]) /\ client[subscriber[d]] = d)'
    <3> SUFFICES ASSUME NEW d \in Clients, subscriber'[d] # None
                 PROVE  (/\ subscriber[d] \in Prompts
                         /\ InUse(subscriber[d]) /\ client[subscriber[d]] = d)'
      OBVIOUS
    <3> DEFINE s == subscriber'[d]
    <3>1. d # c /\ s = subscriber[d]
      BY <1>7
    <3>2. s \in Prompts /\ InUse(s) /\ client[s] = d
      BY <3>1 DEF AcpInv, Registered
    <3>3. s # r
      BY <3>1, <3>2 DEF c
    <3> HIDE DEF s
    <3>4. s \in Prompts /\ call'[s] \in {"registered", "waiting"} /\ client'[s] = d
      BY <3>2, <3>3, <1>2, <1>3 DEF InUse
    <3> QED
      BY <3>4 DEF InUse, s
  <2>3. (\A q \in Prompts : InUse(q) => subscriber[client[q]] = q)'
    <3> SUFFICES ASSUME NEW q \in Prompts, InUse(q), q # r PROVE subscriber'[client[q]] = q
      BY <1>2, <1>8
    <3>1. client[q] \in Clients \ {c}
      BY <1>9, User
    <3> QED
      BY <3>1, <1>7 DEF AcpInv, Registered
  <2> QED
    BY <2>1, <2>2, <2>3 DEF Registered
<1>14. Living'
  BY <1>1, <1>2, <1>3, <1>7 DEF AcpInv, Living, Unsent, NoClient
<1>15. Piped'
  <2> SUFFICES ASSUME NEW d \in Clients, pipe[d] # <<>> \/ working[d] # None
               PROVE  (/\ lock[d] # <<>>
                       /\ call[lock[d][1]] = "waiting" /\ reply[lock[d][1]] = "none"
                       /\ working[d] \in {lock[d][1], None}
                       /\ Carries(pipe[d], lock[d][1], working[d]))'
    BY <1>2 DEF Piped
  <2>1. d # c
    BY Busy, <1>1, <1>4 DEF l
  <2>2. lock[d][1] \in Requests \ {r}
    BY Busy, <2>1 DEF c
  <2>3. /\ lock'[d] = lock[d] /\ call'[lock[d][1]] = call[lock[d][1]]
        /\ reply'[lock[d][1]] = reply[lock[d][1]]
    BY <2>1, <2>2, <1>3, <1>7
  <2>4. pipe' = pipe /\ working' = working
    BY <1>2
  <2> QED
    BY <2>3, <2>4, Busy
<1>16. Flowing'
  <2> SUFFICES ASSUME NEW q \in Prompts,
                      (call[q] = "waiting" /\ reply[q] = "none" /\ reader[client[q]] = "on")'
               PROVE  Fed(q, Got[q], pipe[client[q]], position[q])'
    BY DEF Flowing
  <2>1. Got' = Got
    BY <1>2 DEF Got
  <2>2. q \in Requests \ {r}
    BY <1>3
  <2>3. call[q] = "waiting" /\ reply[q] = "none" /\ reader[client[q]] = "on"
    BY <2>2, <1>2, <1>3, <1>7
  <2>4. Fed(q, Got[q], pipe[client[q]], position[q])
    BY <2>3 DEF AcpInv, Flowing
  <2> QED
    BY <2>1, <2>4, <1>2
<1>17. Counted'
  <2>1. Got' = Got
    BY <1>2 DEF Got
  <2>2. \A q \in Prompts : reply'[q] = "ok" => reply[q] = "ok"
    BY <1>7
  <2>3. \A q \in Prompts : reply'[q] = "ok" => position'[q] = Got'[q]
    BY <2>1, <2>2, <1>2 DEF AcpInv, Counted
  <2>4. \A q \in Requests : call'[q] \in {"streamed", "finishing", "appending"} =>
            reply'[q] = "ok" /\ channel'[q] = <<>>
    BY <1>2, <1>3, <1>7 DEF AcpInv, Counted
  <2> QED
    BY <2>3, <2>4 DEF Counted
<1>18. Clean' /\ Own'
  BY <1>1, <1>2, <1>3 DEF AcpInv, Clean, Own, Unsent, NoClient
<1> QED
  BY <1>12, <1>13, <1>14, <1>15, <1>16, <1>17, <1>18 DEF AcpInv

\* The agent says something: what is said, and what is in the pipe, grow by one.
LEMMA SaysStep ==
    ASSUME AcpInv, TypeOK', NEW c \in Clients, AgentSays(c)
    PROVE  AcpInv'
<1> USE AcpBridgeAssumption DEF vars, poolVars, agentVars, innerVars, streamVars, bridgeVars
<1> DEFINE h == working[c]
           p == pipe[c]
           f == NoteFrame(h, position[h] + 1)
<1>1. h # None
  BY DEF AgentSays
<1>2. /\ h \in Requests /\ InUse(h) /\ client[h] = c /\ lock[c][1] = h
      /\ call[h] = "waiting" /\ reply[h] = "none" /\ Carries(p, h, h)
  BY <1>1, Busy
<1>3. /\ UNCHANGED <<call, client, pool, alive, working, reader, lock, pending, subscriber,
                     reply, channel, heard>>
      /\ position' = [position EXCEPT ![h] = @ + 1]
      /\ pipe' = [pipe EXCEPT ![c] = Append(@, f)]
  BY DEF AgentSays, NoteFrame
<1>4. p \in Seq(Frame) /\ position[h] \in Nat
  BY <1>2, Typed DEF AcpInv
<1>5. f \in Frame /\ f.kind = "note" /\ f.of = h
  BY <1>2, <1>4 DEF NoteFrame, Frame
<1> HIDE DEF h, p, f
<1>6. /\ Append(p, f) \in Seq(Frame) /\ Len(Append(p, f)) = Len(p) + 1
      /\ \A k \in 1 .. Len(p) : Append(p, f)[k] = p[k]
      /\ Append(p, f)[Len(p) + 1] = f
      /\ Len(p) \in Nat
  BY <1>4, <1>5, Appending
<1>7. pipe'[c] = Append(p, f) /\ \A d \in Clients \ {c} : pipe'[d] = pipe[d]
  BY <1>3 DEF AcpInv, TypeOK, p
<1>8. position'[h] = position[h] + 1 /\ \A q \in Requests \ {h} : position'[q] = position[q]
  BY <1>2, <1>3 DEF AcpInv, TypeOK
<1>9. Slots' /\ Registered' /\ Living'
  BY <1>3 DEF AcpInv, Slots, Registered, Living, InLine, InUse
<1>10. Piped'
  <2> SUFFICES ASSUME NEW d \in Clients, (pipe[d] # <<>> \/ working[d] # None)'
               PROVE  (/\ lock[d] # <<>>
                       /\ call[lock[d][1]] = "waiting" /\ reply[lock[d][1]] = "none"
                       /\ working[d] \in {lock[d][1], None}
                       /\ Carries(pipe[d], lock[d][1], working[d]))'
    BY DEF Piped
  <2>1. CASE d = c
    <3>1. Carries(Append(p, f), h, h)
      BY <1>2, <1>5, <1>6 DEF Carries
    <3>2. lock[c] # <<>>
      BY <1>1, Busy DEF h
    <3> QED
      BY <2>1, <3>1, <3>2, <1>2, <1>3, <1>7 DEF h
  <2>2. CASE d # c
    BY <2>2, <1>3, <1>7 DEF AcpInv, Piped
  <2> QED
    BY <2>1, <2>2
<1>11. Flowing'
  <2> SUFFICES ASSUME NEW q \in Prompts,
                      call[q] = "waiting", reply[q] = "none", reader[client[q]] = "on"
               PROVE  Fed(q, Got[q], pipe'[client[q]], position'[q])
    BY <1>3 DEF Flowing, Got
  <2>1. Fed(q, Got[q], pipe[client[q]], position[q])
    BY DEF AcpInv, Flowing
  <2>2. CASE q = h
    <3>1. Got[h] \in Nat
      BY <1>2, GotTyped DEF AcpInv
    <3>2. Fed(h, Got[h], Append(p, f), position[h] + 1)
      BY <2>1, <2>2, <3>1, <1>1, <1>2, <1>4, FedSay DEF f, p
    <3> QED
      BY <2>2, <3>2, <1>2, <1>7, <1>8
  <2>3. CASE q # h
    <3>1. client[q] \in Clients \ {c}
      BY <2>3, <1>2, User DEF InUse
    <3> QED
      BY <2>1, <2>3, <3>1, <1>7, <1>8
  <2> QED
    BY <2>2, <2>3
<1>12. Counted'
  <2>1. Got' = Got
    BY <1>3 DEF Got
  <2>2. \A q \in Prompts : reply'[q] = "ok" => position'[q] = Got'[q]
    BY <2>1, <1>2, <1>3, <1>8 DEF AcpInv, Counted
  <2> QED
    BY <2>2, <1>3 DEF AcpInv, Counted
<1>13. Clean'
  BY <1>2, <1>3, <1>8 DEF AcpInv, Clean, Unsent, NoClient
<1>14. Own'
  BY <1>3 DEF AcpInv, Own
<1> QED
  BY <1>9, <1>10, <1>11, <1>12, <1>13, <1>14 DEF AcpInv

\* It answers: it works for no one, and its last frame in the pipe is the answer.
LEMMA AnswersStep ==
    ASSUME AcpInv, TypeOK', NEW c \in Clients, AgentAnswers(c)
    PROVE  AcpInv'
<1> USE AcpBridgeAssumption DEF vars, poolVars, agentVars, innerVars, streamVars, bridgeVars
<1>1. PICK kind \in {"ok", "error"} :
          pipe' = [pipe EXCEPT ![c] = Append(@, [kind |-> kind, of |-> working[c], at |-> 0])]
  BY DEF AgentAnswers
<1> DEFINE h == working[c]
           p == pipe[c]
           f == [kind |-> kind, of |-> h, at |-> 0]
<1>2. h # None
  BY DEF AgentAnswers
<1>3. /\ h \in Requests /\ InUse(h) /\ client[h] = c /\ lock[c][1] = h /\ lock[c] # <<>>
      /\ call[h] = "waiting" /\ reply[h] = "none" /\ Carries(p, h, h)
  BY <1>2, Busy
<1>4. /\ UNCHANGED <<call, client, pool, alive, position, reader, lock, pending, subscriber,
                     reply, channel, heard>>
      /\ working' = [working EXCEPT ![c] = None]
  BY DEF AgentAnswers
<1>5. p \in Seq(Frame) /\ position[h] \in Nat
  BY <1>3, Typed DEF AcpInv
<1>6. f \in Frame /\ f.kind # "note" /\ f.of = h
  BY <1>3 DEF Frame
<1>7. pipe' = [pipe EXCEPT ![c] = Append(p, f)]
  BY <1>1
<1> HIDE DEF h, p, f
<1>8. /\ pipe'[c] = Append(p, f) /\ \A d \in Clients \ {c} : pipe'[d] = pipe[d]
      /\ working'[c] = None /\ \A d \in Clients \ {c} : working'[d] = working[d]
  BY <1>4, <1>7 DEF AcpInv, TypeOK
<1>9. Slots' /\ Registered' /\ Living'
  <2>1. Slots' /\ Registered'
    BY <1>4 DEF AcpInv, Slots, Registered, InLine, InUse
  <2>2. Living'
    BY <1>4, <1>8 DEF AcpInv, Living
  <2> QED
    BY <2>1, <2>2
<1>10. Piped'
  <2> SUFFICES ASSUME NEW d \in Clients, (pipe[d] # <<>> \/ working[d] # None)'
               PROVE  (/\ lock[d] # <<>>
                       /\ call[lock[d][1]] = "waiting" /\ reply[lock[d][1]] = "none"
                       /\ working[d] \in {lock[d][1], None}
                       /\ Carries(pipe[d], lock[d][1], working[d]))'
    BY DEF Piped
  <2>1. CASE d = c
    <3>1. Carries(Append(p, f), h, None)
      BY <1>2, <1>3, <1>5, <1>6, FedAnswer, GotTyped DEF AcpInv
    <3> QED
      BY <2>1, <3>1, <1>3, <1>4, <1>8
  <2>2. CASE d # c
    BY <2>2, <1>4, <1>8 DEF AcpInv, Piped
  <2> QED
    BY <2>1, <2>2
<1>11. Flowing'
  <2> SUFFICES ASSUME NEW q \in Prompts,
                      call[q] = "waiting", reply[q] = "none", reader[client[q]] = "on"
               PROVE  Fed(q, Got[q], pipe'[client[q]], position[q])
    BY <1>4 DEF Flowing, Got
  <2>1. Fed(q, Got[q], pipe[client[q]], position[q])
    BY DEF AcpInv, Flowing
  <2>2. CASE q = h
    <3>1. Got[h] \in Nat
      BY <1>3, GotTyped DEF AcpInv
    <3>2. Fed(h, Got[h], Append(p, f), position[h])
      BY <2>1, <2>2, <3>1, <1>2, <1>3, <1>5, <1>6, FedAnswer DEF p
    <3> QED
      BY <2>2, <3>2, <1>3, <1>8
  <2>3. CASE q # h
    <3>1. client[q] \in Clients \ {c}
      BY <2>3, <1>3, User DEF InUse
    <3> QED
      BY <2>1, <2>3, <3>1, <1>8
  <2> QED
    BY <2>2, <2>3
<1>12. Counted' /\ Clean' /\ Own'
  BY <1>4 DEF AcpInv, Counted, Clean, Own, Got
<1> QED
  BY <1>9, <1>10, <1>11, <1>12 DEF AcpInv

\* The agent's stdout closes, with no one working and nothing to read.
LEMMA EofStep ==
    ASSUME AcpInv, TypeOK', NEW c \in Clients, Eof(c)
    PROVE  AcpInv'
<1> USE AcpBridgeAssumption DEF vars, poolVars, agentVars, innerVars, streamVars, bridgeVars
<1>1. /\ UNCHANGED <<call, client, pool, alive, working, position, pipe, lock, subscriber,
                     channel, heard>>
      /\ reply' = [q \in Requests |-> IF q \in pending[c] THEN "error" ELSE reply[q]]
      /\ pending' = [pending EXCEPT ![c] = {}]
      /\ reader' = [reader EXCEPT ![c] = "ended"]
      /\ pipe[c] = <<>> /\ c \notin alive
  BY DEF Eof, FailPending
<1>2. /\ pending'[c] = {} /\ \A d \in Clients \ {c} : pending'[d] = pending[d]
      /\ reader'[c] = "ended" /\ \A d \in Clients \ {c} : reader'[d] = reader[d]
  BY <1>1 DEF AcpInv, TypeOK
<1>3. \A q \in pending[c] : q \in Requests /\ InUse(q) /\ client[q] = c
  BY Typed DEF AcpInv, Registered
<1>4. \A q \in Requests \ pending[c] : reply'[q] = reply[q]
  BY <1>1
<1>5. \A q \in pending[c] : reply'[q] = "error"
  BY <1>1, <1>3
<1>6. Slots'
  BY <1>1 DEF AcpInv, Slots, InLine, InUse
<1>7. Registered'
  <2>1. (\A d \in Clients : \A q \in pending[d] : InUse(q) /\ client[q] = d /\ reply[q] = "none")'
    <3> SUFFICES ASSUME NEW d \in Clients, NEW q \in pending'[d]
                 PROVE  (InUse(q) /\ client[q] = d /\ reply[q] = "none")'
      OBVIOUS
    <3>1. d # c /\ q \in pending[d]
      BY <1>2
    <3>2. q \in Requests /\ InUse(q) /\ client[q] = d /\ reply[q] = "none"
      BY <3>1, Typed DEF AcpInv, Registered
    <3>3. q \notin pending[c]
      BY <3>1, <3>2, <1>3
    <3> QED
      BY <3>2, <3>3, <1>1, <1>4 DEF InUse
  <2> QED
    BY <2>1, <1>1 DEF AcpInv, Registered, InUse
<1>8. Living'
  <2>1. \A q \in Requests : client'[q] # None => reader'[client'[q]] # "none"
    BY <1>1, <1>2, Typed DEF AcpInv, Living
  <2>2. \A k \in Keys : pool'[k] # None => reader'[pool'[k]] # "none"
    BY <1>1, <1>2 DEF AcpInv, TypeOK, Living
  <2>3. \A q \in Requests : call'[q] \in Unsent => reply'[q] = "none"
    BY <1>1, <1>3, <1>4 DEF AcpInv, Living, Unsent, NoClient, InUse
  <2>4. \A q \in Requests : call'[q] = "registered" /\ reply'[q] # "none" => client'[q] \notin alive'
    BY <1>1, <1>3, <1>4 DEF AcpInv, Living
  <2> QED
    BY <2>1, <2>2, <2>3, <2>4, <1>1 DEF AcpInv, Living
<1>9. Piped'
  <2> SUFFICES ASSUME NEW d \in Clients, pipe[d] # <<>> \/ working[d] # None
               PROVE  (/\ lock[d] # <<>>
                       /\ call[lock[d][1]] = "waiting" /\ reply[lock[d][1]] = "none"
                       /\ working[d] \in {lock[d][1], None}
                       /\ Carries(pipe[d], lock[d][1], working[d]))'
    BY <1>1 DEF Piped
  <2>1. d # c
    BY <1>1 DEF AcpInv, Living
  <2>2. lock[d][1] \in Requests \ pending[c]
    BY <2>1, <1>3, Busy
  <2>3. reply'[lock[d][1]] = reply[lock[d][1]]
    BY <2>2, <1>4
  <2>4. UNCHANGED <<lock, call, working, pipe>>
    BY <1>1
  <2> QED
    BY <2>3, <2>4, Busy
<1>10. Flowing'
  <2> SUFFICES ASSUME NEW q \in Prompts,
                      call[q] = "waiting", reply'[q] = "none", reader'[client[q]] = "on"
               PROVE  Fed(q, Got[q], pipe[client[q]], position[q])
    BY <1>1 DEF Flowing, Got
  <2>1. reply[q] = "none"
    BY <1>4, <1>5
  <2>2. client[q] \in Clients \ {c}
    BY <1>2, User DEF InUse
  <2> QED
    BY <2>1, <2>2, <1>2 DEF AcpInv, Flowing
<1>11. Counted'
  <2>1. Got' = Got
    BY <1>1 DEF Got
  <2>2. \A q \in Prompts : reply'[q] = "ok" => reply[q] = "ok"
    BY <1>4, <1>5
  <2>3. \A q \in Prompts : reply'[q] = "ok" => position'[q] = Got'[q]
    BY <2>1, <2>2, <1>1 DEF AcpInv, Counted
  <2>4. \A q \in Requests : call'[q] \in {"streamed", "finishing", "appending"} =>
            reply'[q] = "ok" /\ channel'[q] = <<>>
    BY <1>1, <1>3, <1>4 DEF AcpInv, Counted, InUse
  <2> QED
    BY <2>3, <2>4 DEF Counted
<1>12. Clean' /\ Own'
  BY <1>1 DEF AcpInv, Clean, Own
<1> QED
  BY <1>6, <1>7, <1>8, <1>9, <1>10, <1>11, <1>12 DEF AcpInv

\* The reader gives a notification to the subscriber, which is the slot's user when
\* that is a prompt, and no one otherwise; an answer it gives to that user.
LEMMA ReadStep ==
    ASSUME AcpInv, TypeOK', NEW c \in Clients, Read(c)
    PROVE  AcpInv'
<1> USE AcpBridgeAssumption DEF vars, poolVars, agentVars, innerVars, streamVars, bridgeVars
<1> DEFINE h == lock[c][1]
           p == pipe[c]
           f == Head(pipe[c])
           t == Tail(pipe[c])
<1>1. p # <<>> /\ reader[c] = "on"
  BY DEF Read
<1>2. /\ h \in Requests /\ InUse(h) /\ client[h] = c /\ lock[c] # <<>>
      /\ call[h] = "waiting" /\ reply[h] = "none" /\ working[c] \in {h, None}
      /\ Carries(p, h, working[c])
  BY <1>1, Busy
<1>3. p \in Seq(Frame) /\ position[h] \in Nat /\ Got[h] \in Nat
  BY <1>2, Typed, GotTyped DEF AcpInv
<1> DEFINE w == working[c]
<1>head. f = Head(p) /\ t = Tail(p) /\ Carries(p, h, w)
  BY <1>2
<1>7. /\ UNCHANGED <<call, client, pool, alive, working, position, reader, lock, subscriber, heard>>
      /\ pipe' = [pipe EXCEPT ![c] = t]
      /\ Dispatch(c, f)
  BY DEF Read
<1>some. p # <<>>
  BY <1>1
<1> HIDE DEF h, p, f, t, w
<1>4. /\ t \in Seq(Frame) /\ f \in Frame /\ f.of = h
      /\ Carries(t, h, w)
      /\ f.kind # "note" => t = <<>> /\ w = None
      /\ Fed(h, Got[h], p, position[h]) /\ f.kind = "note" =>
            f = NoteFrame(h, Got[h] + 1) /\ Fed(h, Got[h] + 1, t, position[h])
      /\ Fed(h, Got[h], p, position[h]) /\ f.kind # "note" => position[h] = Got[h]
  BY <1>2, <1>3, <1>head, <1>some, FedRead
<1>5. h \in Prompts => Fed(h, Got[h], p, position[h])
  BY <1>1, <1>2 DEF AcpInv, Flowing, p
<1>6. subscriber[c] = IF h \in Prompts THEN h ELSE None
  <2>1. h \in Prompts => subscriber[c] = h
    BY <1>2 DEF AcpInv, Registered
  <2>2. subscriber[c] # None => subscriber[c] = h /\ h \in Prompts
    <3> SUFFICES ASSUME subscriber[c] # None PROVE subscriber[c] = h /\ h \in Prompts
      OBVIOUS
    <3>1. subscriber[c] \in Prompts /\ InUse(subscriber[c]) /\ client[subscriber[c]] = c
      BY DEF AcpInv, Registered
    <3> QED
      BY <3>1, <1>2, User
  <2> QED
    BY <2>1, <2>2
<1>8. pipe'[c] = t /\ \A d \in Clients \ {c} : pipe'[d] = pipe[d]
  <2>1. pipe \in [Clients -> Seq(Frame)]
    BY DEF AcpInv, TypeOK
  <2> QED
    BY <2>1, <1>7
<1>9. \A q \in Requests \ {h} : channel'[q] = channel[q] /\ reply'[q] = reply[q]
  <2>typed. /\ channel \in [Requests -> Seq(Frame)]
            /\ reply \in [Requests -> {"none", "ok", "error"}]
    BY DEF AcpInv, TypeOK
  <2>1. CASE f.kind = "note"
    <3>1. /\ channel' = channel \/ channel' = [channel EXCEPT ![h] = Append(@, f)]
          /\ reply' = reply
      BY <2>1, <1>6, <1>7 DEF Dispatch
    <3> QED
      BY <3>1, <2>typed
  <2>2. CASE f.kind # "note"
    <3>1. channel' = channel /\ (reply' = reply \/ reply' = [reply EXCEPT ![h] = f.kind])
      BY <2>2, <1>4, <1>7 DEF Dispatch
    <3> QED
      BY <3>1, <2>typed
  <2> QED
    BY <2>1, <2>2
<1>10. \A q \in Requests \ {h} : InUse(q) => client[q] # c
  BY <1>2, User
<1>11. /\ \A d \in Clients : pending'[d] \subseteq pending[d]
       /\ reply'[h] # "none" => f.kind # "note" /\ h \notin pending'[c]
  <2>1. CASE f.kind = "note"
    BY <2>1, <1>2, <1>7 DEF Dispatch
  <2>2. CASE f.kind # "note"
    <3>1. pending' = [pending EXCEPT ![c] = pending[c] \ {h}]
      BY <2>2, <1>4, <1>7 DEF Dispatch
    <3>2. pending \in [Clients -> SUBSET Requests]
      BY DEF AcpInv, TypeOK
    <3> QED
      BY <3>1, <3>2, <2>2
  <2> QED
    BY <2>1, <2>2
<1>12. Slots'
  BY <1>7 DEF AcpInv, Slots, InLine, InUse
<1>13. Registered'
  <2>1. (\A d \in Clients : \A q \in pending[d] : InUse(q) /\ client[q] = d /\ reply[q] = "none")'
    <3> SUFFICES ASSUME NEW d \in Clients, NEW q \in pending'[d]
                 PROVE  (InUse(q) /\ client[q] = d /\ reply[q] = "none")'
      OBVIOUS
    <3>1. q \in Requests /\ InUse(q) /\ client[q] = d /\ reply[q] = "none"
      BY <1>11, Typed DEF AcpInv, Registered
    <3>2. reply'[q] = "none"
      <4>1. CASE q = h
        BY <4>1, <3>1, <1>2, <1>11
      <4>2. CASE q # h
        BY <4>2, <3>1, <1>9
      <4> QED
        BY <4>1, <4>2
    <3> QED
      BY <3>1, <3>2, <1>7 DEF InUse
  <2> QED
    BY <2>1, <1>7 DEF AcpInv, Registered, InUse
<1>14. Living'
  <2>1. \A q \in Requests : call'[q] \in Unsent => reply'[q] = "none"
    BY <1>2, <1>7, <1>9 DEF AcpInv, Living, Unsent, NoClient
  <2>2. \A q \in Requests : call'[q] = "registered" /\ reply'[q] # "none" => client'[q] \notin alive'
    BY <1>2, <1>7, <1>9 DEF AcpInv, Living
  <2> QED
    BY <2>1, <2>2, <1>7 DEF AcpInv, Living
<1>15. Piped'
  <2> SUFFICES ASSUME NEW d \in Clients, (pipe[d] # <<>> \/ working[d] # None)'
               PROVE  (/\ lock[d] # <<>>
                       /\ call[lock[d][1]] = "waiting" /\ reply[lock[d][1]] = "none"
                       /\ working[d] \in {lock[d][1], None}
                       /\ Carries(pipe[d], lock[d][1], working[d]))'
    BY DEF Piped
  <2>1. CASE d = c
    <3>1. reply'[h] = "none"
      BY <2>1, <1>4, <1>7, <1>8, <1>11 DEF w
    <3> QED
      BY <2>1, <3>1, <1>2, <1>4, <1>7, <1>8 DEF h, w
  <2>2. CASE d # c
    <3>1. pipe[d] # <<>> \/ working[d] # None
      BY <2>2, <1>7, <1>8
    <3>2. lock[d][1] \in Requests \ {h}
      BY <2>2, <3>1, <1>2, Busy
    <3>3. reply'[lock[d][1]] = reply[lock[d][1]] /\ pipe'[d] = pipe[d]
      BY <2>2, <3>2, <1>8, <1>9
    <3>4. UNCHANGED <<lock, call, working>>
      BY <1>7
    <3> QED
      BY <3>1, <3>3, <3>4, Busy
  <2> QED
    BY <2>1, <2>2
<1>16. \A q \in Requests \ {h} : Got'[q] = Got[q]
  BY <1>7, <1>9 DEF Got
<1>17. CASE f.kind = "note"
  <2>1. UNCHANGED reply
    BY <1>7, <1>17 DEF Dispatch
  <2>2. CASE h \in Prompts
    <3> DEFINE s == channel[h]
    <3>1. s \in Seq(Frame) /\ Len(heard[h]) \in Nat
      BY <1>2, Typed DEF AcpInv
    <3>2. channel'[h] = Append(s, f)
      BY <2>2, <1>2, <1>6, <1>7, <1>17 DEF Dispatch, AcpInv, TypeOK
    <3> HIDE DEF s
    <3>3. /\ Len(Append(s, f)) = Len(s) + 1 /\ Append(s, f)[Len(s) + 1] = f
          /\ \A k \in 1 .. Len(s) : Append(s, f)[k] = s[k]
          /\ Len(s) \in Nat
      BY <3>1, <1>4, Appending
    <3>4. Got[h] = Len(heard[h]) + Len(s)
      BY <1>2 DEF Got, s
    <3>more. Got[h] + 1 = Len(heard[h]) + (Len(s) + 1)
      <4>1. \A m, n, g \in Nat : g = m + n => g + 1 = m + (n + 1)
        OBVIOUS
      <4> QED
        BY ONLY <4>1, <3>1, <3>3, <3>4, <1>3
    <3>5. Got'[h] = Got[h] + 1
      <4>1. Got'[h] = Len(heard[h]) + Len(Append(s, f))
        BY <1>2, <1>7, <3>2 DEF Got
      <4>2. Len(Append(s, f)) = Len(s) + 1 /\ Len(s) \in Nat
        BY <3>3
      <4> QED
        BY <4>1, <4>2, <3>more
    <3>6. Flowing'
      <4> SUFFICES ASSUME NEW q \in Prompts,
                          call[q] = "waiting", reply[q] = "none", reader[client[q]] = "on"
                   PROVE  Fed(q, Got'[q], pipe'[client[q]], position[q])
        BY <1>7, <2>1 DEF Flowing
      <4>1. CASE q = h
        BY <4>1, <2>2, <3>5, <1>2, <1>4, <1>5, <1>8, <1>17
      <4>2. CASE q # h
        <5>1. client[q] \in Clients \ {c}
          BY <4>2, <1>10, User DEF InUse
        <5> QED
          BY <4>2, <5>1, <1>8, <1>16 DEF AcpInv, Flowing
      <4> QED
        BY <4>1, <4>2
    <3>7. Counted'
      BY <2>1, <1>2, <1>7, <1>9, <1>16 DEF AcpInv, Counted
    <3>8. Clean'
      BY <2>2, <1>2, <1>7, <1>9 DEF AcpInv, Clean, Unsent, NoClient
    <3>9. Own'
      <4> SUFFICES ASSUME NEW q \in Requests
                   PROVE  OwnFrom(q, heard[q], 0) /\ OwnFrom(q, channel'[q], Len(heard[q]))
        BY <1>7 DEF Own
      <4>1. OwnFrom(q, heard[q], 0) /\ OwnFrom(q, channel[q], Len(heard[q]))
        BY DEF AcpInv, Own
      <4>2. CASE q = h
        <5>1. f = NoteFrame(h, Len(heard[h]) + (Len(s) + 1))
          <6>1. f = NoteFrame(h, Got[h] + 1)
            BY <2>2, <1>4, <1>5, <1>17
          <6> QED
            BY <6>1, <3>more
        <5>2. OwnFrom(h, Append(s, f), Len(heard[h]))
          <6>1. \A k \in 1 .. Len(s) : s[k] = NoteFrame(h, Len(heard[h]) + k)
            BY <4>1, <4>2 DEF OwnFrom, s
          <6>2. \A k \in 1 .. Len(s) + 1 : k \in 1 .. Len(s) \/ k = Len(s) + 1
            BY <3>3
          <6>3. \A k \in 1 .. Len(Append(s, f)) :
                    Append(s, f)[k] = NoteFrame(h, Len(heard[h]) + k)
            BY <6>1, <6>2, <5>1, <3>3
          <6> QED
            BY <6>3 DEF OwnFrom
        <5> QED
          BY <4>1, <4>2, <5>2, <3>2
      <4>3. CASE q # h
        BY <4>1, <4>3, <1>9
      <4> QED
        BY <4>2, <4>3
    <3> QED
      BY <1>12, <1>13, <1>14, <1>15, <3>6, <3>7, <3>8, <3>9 DEF AcpInv
  <2>3. CASE h \notin Prompts
    <3>1. UNCHANGED channel
      BY <2>3, <1>6, <1>7, <1>17 DEF Dispatch
    <3>2. Got' = Got
      BY <3>1, <1>7 DEF Got
    <3>3. Flowing'
      <4> SUFFICES ASSUME NEW q \in Prompts,
                          call[q] = "waiting", reply[q] = "none", reader[client[q]] = "on"
                   PROVE  Fed(q, Got[q], pipe'[client[q]], position[q])
        BY <3>2, <1>7, <2>1 DEF Flowing
      <4>1. client[q] \in Clients \ {c}
        BY <2>3, <1>10, User DEF InUse
      <4> QED
        BY <4>1, <1>8 DEF AcpInv, Flowing
    <3>4. Counted' /\ Clean' /\ Own'
      BY <2>1, <3>1, <3>2, <1>7 DEF AcpInv, Counted, Clean, Own
    <3> QED
      BY <1>12, <1>13, <1>14, <1>15, <3>3, <3>4 DEF AcpInv
  <2> QED
    BY <2>2, <2>3
<1>18. CASE f.kind # "note"
  <2>1. UNCHANGED channel
    BY <1>7, <1>18 DEF Dispatch
  <2>2. Got' = Got
    BY <2>1, <1>7 DEF Got
  <2>3. Flowing'
    <3> SUFFICES ASSUME NEW q \in Prompts,
                        call[q] = "waiting", reply'[q] = "none", reader[client[q]] = "on"
                 PROVE  Fed(q, Got[q], pipe'[client[q]], position[q])
      BY <2>2, <1>7 DEF Flowing
    <3>1. CASE q = h
      <4>1. position[h] = Got[h] /\ pipe'[c] = <<>>
        BY <3>1, <1>4, <1>5, <1>8, <1>18
      <4>2. Fed(h, Got[h], <<>>, Got[h])
        BY <1>3 DEF Fed, Notes
      <4> QED
        BY <3>1, <4>1, <4>2, <1>2
    <3>2. CASE q # h
      <4>1. client[q] \in Clients \ {c}
        BY <3>2, <1>10, User DEF InUse
      <4> QED
        BY <3>2, <4>1, <1>8, <1>9 DEF AcpInv, Flowing
    <3> QED
      BY <3>1, <3>2
  <2>4. Counted'
    <3>1. \A q \in Prompts : reply'[q] = "ok" => position'[q] = Got'[q]
      BY <2>2, <1>4, <1>5, <1>7, <1>9, <1>18 DEF AcpInv, Counted
    <3>2. \A q \in Requests : call'[q] \in {"streamed", "finishing", "appending"} =>
              reply'[q] = "ok" /\ channel'[q] = <<>>
      BY <2>1, <1>2, <1>7, <1>9 DEF AcpInv, Counted
    <3> QED
      BY <3>1, <3>2 DEF Counted
  <2>5. Clean' /\ Own'
    BY <2>1, <1>7 DEF AcpInv, Clean, Own
  <2> QED
    BY <1>12, <1>13, <1>14, <1>15, <2>3, <2>4, <2>5 DEF AcpInv
<1> QED
  BY <1>17, <1>18

\* The invariant is kept by every step.
LEMMA NextInv == AcpInv /\ [Next]_vars => AcpInv'
<1> SUFFICES ASSUME AcpInv, [Next]_vars PROVE AcpInv'
  OBVIOUS
<1>1. TypeOK'
  BY TypeStep
<1>2. ASSUME NEW r \in Requests, GetClient(r) \/ Handler(r) \/ Consume(r) PROVE AcpInv'
  <2>1. \/ Before(r) \/ After(r) \/ Ending(r) \/ Consume(r)
        \/ Enqueue(r) \/ Register(r) \/ Write(r) \/ WriteFails(r) \/ Resume(r)
    BY <1>2 DEF Handler, Before, After, Ending
  <2> QED
    BY <1>1, <2>1, BeforeStep, AfterStep, EndingStep, ConsumeStep, EnqueueStep, RegisterStep,
       WriteStep, UnlockStep
<1>3. ASSUME NEW k \in Keys, RemoveClient(k) PROVE AcpInv'
  BY <1>1, <1>3, RemoveStep
<1>4. ASSUME NEW c \in Clients,
             \/ Kill(c) \/ AgentExits(c) \/ AgentSays(c) \/ AgentAnswers(c) \/ Read(c) \/ Eof(c)
      PROVE  AcpInv'
  <2>1. AgentGone(c) \/ AgentSays(c) \/ AgentAnswers(c) \/ Read(c) \/ Eof(c)
    BY <1>4 DEF Kill, AgentExits
  <2> QED
    BY <1>1, <2>1, GoneStep, SaysStep, AnswersStep, ReadStep, EofStep
<1>5. ASSUME UNCHANGED vars PROVE AcpInv'
  <2>1. UNCHANGED <<call, client, pool, alive, working, position, reader, pipe, lock, pending,
                    subscriber, reply, channel, heard>>
    BY <1>5 DEF vars, poolVars, agentVars, innerVars, streamVars
  <2>2. (Slots /\ Registered /\ Living /\ Piped)'
    BY <2>1 DEF AcpInv, Slots, Registered, Living, Piped, InLine, InUse
  <2>3. Got' = Got
    BY <2>1 DEF Got
  <2>4. (Flowing /\ Counted /\ Clean /\ Own)'
    BY <2>1, <2>3 DEF AcpInv, Flowing, Counted, Clean, Own
  <2> QED
    BY <1>1, <2>2, <2>4 DEF AcpInv
<1> QED
  BY <1>2, <1>3, <1>4, <1>5 DEF Next

\* So the invariant holds throughout.
LEMMA AcpInvariance == Spec => []AcpInv
BY InitInv, NextInv, PTL DEF Spec

-----------------------------------------------------------------------------
\* Every part of the state keeps its type: no step of a handler, an agent or a reader
\* leaves a line, a pipe or a channel of anything else.
THEOREM AcpTypeCorrect == Spec => []TypeOK
<1>1. AcpInv => TypeOK
  BY DEF AcpInv
<1> QED
  BY <1>1, AcpInvariance, PTL

\* send_request_inner and dispatch: nothing the agent says is tagged, yet a turn's items
\* are made of what it said for that turn's prompt, in order, and of all of it when the
\* turn is completed, for any number of requests, agents, evictions and exits.
THEOREM StreamsNeverMix == Spec => []StreamIsOwn
<1>1. ASSUME AcpInv PROVE StreamIsOwn
  <2> USE AcpBridgeAssumption
  <2> SUFFICES ASSUME NEW r \in Prompts
               PROVE  /\ heard[r] = [k \in 1 .. Len(heard[r]) |->
                                        [kind |-> "note", of |-> r, at |-> k]]
                      /\ Completed(r) => Len(heard[r]) = position[r]
    BY DEF StreamIsOwn
  <2>1. heard[r] \in Seq(Frame)
    BY <1>1, Typed DEF AcpInv
  <2>2. \A k \in 1 .. Len(heard[r]) : heard[r][k] = NoteFrame(r, k)
    <3>1. \A k \in 1 .. Len(heard[r]) : heard[r][k] = NoteFrame(r, 0 + k)
      BY <1>1 DEF AcpInv, Own, OwnFrom
    <3>2. \A k \in 1 .. Len(heard[r]) : 0 + k = k
      BY <2>1
    <3> QED
      BY <3>1, <3>2
  <2>3. heard[r] = [k \in 1 .. Len(heard[r]) |-> heard[r][k]]
    BY <2>1
  <2>4. ASSUME Completed(r) PROVE Len(heard[r]) = position[r]
    <3>1. channel[r] = <<>> /\ position[r] = Got[r]
      BY <1>1, <2>4 DEF Completed, AcpInv, Counted
    <3>2. Len(channel[r]) = 0 /\ Len(heard[r]) \in Nat
      BY <3>1, <2>1
    <3>3. Got[r] = Len(heard[r]) + Len(channel[r])
      BY DEF Got
    <3> QED
      BY <3>1, <3>2, <3>3
  <2> QED
    BY <2>2, <2>3, <2>4 DEF NoteFrame
<1> QED
  BY <1>1, AcpInvariance, PTL

\* However the requests of a client have ended - answered, refused, unwritten, or with
\* their agent gone - the next one finds no holder of the slot, no oneshot and no subscriber.
THEOREM NothingLeftBehind == Spec => []QuietIsClear
<1>1. ASSUME AcpInv PROVE QuietIsClear
  <2> SUFFICES ASSUME NEW c \in Clients, \A r \in Requests : client[r] # c
               PROVE  lock[c] = <<>> /\ pending[c] = {} /\ subscriber[c] = None
    BY DEF QuietIsClear
  <2>1. lock[c] = <<>>
    <3>1. lock[c] # <<>> => 1 \in 1 .. Len(lock[c])
      BY <1>1, Typed DEF AcpInv
    <3>2. 1 \in 1 .. Len(lock[c]) => lock[c][1] \in Requests /\ client[lock[c][1]] = c
      BY <1>1, Typed DEF AcpInv, Slots
    <3> QED
      BY <3>1, <3>2
  <2>2. pending[c] = {}
    BY <1>1, Typed DEF AcpInv, Registered
  <2>3. subscriber[c] = None
    BY <1>1, AcpBridgeAssumption DEF AcpInv, Registered
  <2> QED
    BY <2>1, <2>2, <2>3
<1> QED
  BY <1>1, AcpInvariance, PTL

-----------------------------------------------------------------------------
(* The emitter.  What it keeps and what it has sent go together after every *)
(* note: an item is kept once its start was sent, in the order of the       *)
(* starts, and as its completion showed it.                                 *)

Contents == UNION {{Script[r][k].body : k \in 1 .. Len(Script[r])} : r \in Requests}
Tools == UNION {{Script[r][k].tool : k \in 1 .. Len(Script[r])} : r \in Requests}
Bodies == Seq(Contents)

TextItems == TextKinds \X Nat
ToolItems == {"tool"} \X Tools
Names == TextItems \cup ToolItems

Item == [item : Names, body : Bodies]
Note == [note : {"started", "delta", "completed"}, item : Names, body : Bodies]

Emitter ==
    [items : Seq(Item), run : TextItems \cup {NoRun}, accumulated : Bodies, textSeq : Nat,
     tools : SUBSET Tools, open : SUBSET Tools, ended : SUBSET Tools, sent : Seq(Note)]

\* Of what was sent: the items it is about, and those it completes.
Heard(s) == {s[k].item : k \in 1 .. Len(s)}
Closed(s) == {s[k].item : k \in {j \in 1 .. Len(s) : s[j].note = "completed"}}

\* What ItemsStream says of a turn.
Streams(s) ==
    \A k \in 1 .. Len(s) :
        LET before == {j \in 1 .. k - 1 : s[j].item = s[k].item}
        IN  /\ s[k].note = "started" <=> before = {}
            /\ \A j \in before : s[j].note # "completed"

IsStart(n, x) == n.note = "started" /\ n.item = x
Completes(n, i) == n.note = "completed" /\ n.item = i.item /\ n.body = i.body

\* The kept items: each once, in the order they were started in, completed or a tool
\* that is open, and when completed then as shown.
Kept(items, s, open) ==
    /\ \A k, l \in 1 .. Len(items) : items[k].item = items[l].item => k = l
    /\ \A k \in 1 .. Len(items) : \E i \in 1 .. Len(s) : IsStart(s[i], items[k].item)
    /\ \A k, l \in 1 .. Len(items) : k < l =>
           \E i, j \in 1 .. Len(s) :
               i < j /\ IsStart(s[i], items[k].item) /\ IsStart(s[j], items[l].item)
    /\ \A k \in 1 .. Len(items) : items[k].item \in Closed(s) =>
           \E j \in 1 .. Len(s) : Completes(s[j], items[k])
    /\ \A k \in 1 .. Len(items) :
           items[k].item \in Closed(s) \/ \E t \in open : items[k].item = ToolItem(t)

Unkept(items, x) == \A k \in 1 .. Len(items) : items[k].item # x

LastStarted(s, x) ==
    \E j \in 1 .. Len(s) :
        IsStart(s[j], x) /\ \A i \in 1 .. Len(s) : s[i].note = "started" => i <= j

\* The open run: the last item that was started, neither kept nor completed.
Running(run, items, s) ==
    run # NoRun =>
        /\ run \notin Closed(s)
        /\ Unkept(items, run)
        /\ LastStarted(s, run)

\* What was heard of is the open run, or kept.
Owned(e) ==
    \A x \in Heard(e.sent) :
        (e.run # NoRun /\ x = e.run) \/ \E k \in 1 .. Len(e.items) : e.items[k].item = x

EmitterOK(e) ==
    /\ e \in Emitter
    /\ Streams(e.sent)
    /\ e.open \subseteq e.tools
    /\ Owned(e)
    /\ \A x \in Heard(e.sent) \cap TextItems : x[2] < e.textSeq
    /\ \A t \in Tools : ToolItem(t) \in Heard(e.sent) <=> t \in e.tools
    /\ \A t \in e.open : ToolItem(t) \notin Closed(e.sent)
    /\ Kept(e.items, e.sent, e.open)
    /\ Running(e.run, e.items, e.sent)

LEMMA BodiesGrow ==
    /\ <<>> \in Bodies
    /\ \A b \in Bodies, x \in Contents : Append(b, x) \in Bodies
    /\ \A x \in Contents : <<x>> \in Bodies
BY DEF Bodies

LEMMA NamesApart ==
    /\ \A x \in TextItems : x \notin ToolItems /\ x # NoRun /\ x[1] \in TextKinds /\ x[2] \in Nat
    /\ \A t \in Tools : ToolItem(t) \in ToolItems
    /\ \A t, u \in Tools : ToolItem(t) = ToolItem(u) => t = u
    /\ \A k \in TextKinds, n \in Nat : TextItem(k, n) \in TextItems /\ TextItem(k, n)[2] = n
                                       /\ TextItem(k, n)[1] = k
BY AcpEventsAssumption DEF TextItems, ToolItems, ToolItem, TextItem, TextKinds

\* What one more notification, of its place, does to what was sent.
Fits(s, n) ==
    /\ n.note = "started" => n.item \notin Heard(s)
    /\ n.note # "started" => n.item \in Heard(s) /\ n.item \notin Closed(s)

Sends(s, n, a) ==
    /\ a \in Seq(Note) /\ Len(a) = Len(s) + 1 /\ Len(s) \in Nat
    /\ \A k \in 1 .. Len(s) : a[k] = s[k]
    /\ a[Len(s) + 1] = n
    /\ Streams(a)
    /\ \A x : x \in Heard(a) <=> x \in Heard(s) \/ x = n.item
    /\ n.note = "completed" => \A x : x \in Closed(a) <=> x \in Closed(s) \/ x = n.item
    /\ n.note # "completed" => \A x : x \in Closed(a) <=> x \in Closed(s)

LEMMA Sending ==
    ASSUME NEW s \in Seq(Note), NEW n \in Note, Fits(s, n), Streams(s), NEW a, a = Append(s, n)
    PROVE  Sends(s, n, a)
<1> DEFINE len == Len(s)
<1>1. /\ a \in Seq(Note) /\ Len(a) = len + 1 /\ len \in Nat
      /\ \A k \in 1 .. len : a[k] = s[k]
      /\ a[len + 1] = n
  OBVIOUS
<1> HIDE DEF len
<1>2. \A k \in 1 .. len + 1 : k \in 1 .. len \/ k = len + 1
  BY <1>1
<1>3. 1 .. len \subseteq 1 .. len + 1 /\ len + 1 \in 1 .. len + 1
  BY <1>1
<1>4. \A x : x \in Heard(a) <=> x \in Heard(s) \/ x = n.item
  <2>1. Heard(s) = {s[k].item : k \in 1 .. len} /\ Heard(a) = {a[k].item : k \in 1 .. len + 1}
    BY <1>1 DEF Heard, len
  <2> QED
    BY <1>1, <1>2, <1>3, <2>1
<1>5. /\ n.note = "completed" => \A x : x \in Closed(a) <=> x \in Closed(s) \/ x = n.item
      /\ n.note # "completed" => \A x : x \in Closed(a) <=> x \in Closed(s)
  <2>1. /\ Closed(s) = {s[k].item : k \in {j \in 1 .. len : s[j].note = "completed"}}
        /\ Closed(a) = {a[k].item : k \in {j \in 1 .. len + 1 : a[j].note = "completed"}}
    BY <1>1 DEF Closed, len
  <2> QED
    BY <1>1, <1>2, <1>3, <2>1
<1>6. Streams(a)
  <2> SUFFICES ASSUME NEW k \in 1 .. len + 1
               PROVE  /\ a[k].note = "started" <=> {j \in 1 .. k - 1 : a[j].item = a[k].item} = {}
                      /\ \A j \in {j \in 1 .. k - 1 : a[j].item = a[k].item} :
                            a[j].note # "completed"
    BY <1>1 DEF Streams
  <2>1. \A j \in 1 .. k - 1 : j \in 1 .. len /\ a[j] = s[j]
    BY <1>1
  <2>2. CASE k \in 1 .. len
    <3>1. a[k] = s[k]
      BY <1>1, <2>2
    <3>2. {j \in 1 .. k - 1 : a[j].item = a[k].item} = {j \in 1 .. k - 1 : s[j].item = s[k].item}
      BY <2>1, <3>1
    <3> QED
      BY <2>1, <2>2, <3>1, <3>2 DEF Streams, len
  <2>3. CASE k = len + 1
    <3>1. a[k] = n /\ k - 1 = len
      BY <1>1, <2>3
    <3>2. {j \in 1 .. k - 1 : a[j].item = a[k].item} = {j \in 1 .. len : s[j].item = n.item}
      BY <2>1, <3>1
    <3>3. {j \in 1 .. len : s[j].item = n.item} = {} <=> n.item \notin Heard(s)
      BY DEF Heard, len
    <3>4. n.item \notin Closed(s) => \A j \in 1 .. len : s[j].item = n.item => s[j].note # "completed"
      BY DEF Closed, len
    <3>5. n.item \notin Heard(s) => n.item \notin Closed(s)
      BY DEF Heard, Closed
    <3> QED
      BY <2>1, <3>1, <3>2, <3>3, <3>4, <3>5 DEF Fits
  <2> QED
    BY <1>2, <2>2, <2>3
<1> QED
  BY <1>1, <1>4, <1>5, <1>6 DEF len, Sends

\* What Kept says survives a notification that completes an item as it is kept ...
LEMMA KeptSending ==
    ASSUME NEW s \in Seq(Note), NEW n \in Note, NEW a \in Seq(Note),
           Len(a) = Len(s) + 1, \A k \in 1 .. Len(s) : a[k] = s[k], a[Len(s) + 1] = n,
           n.note = "completed" => \A x : x \in Closed(a) <=> x \in Closed(s) \/ x = n.item,
           n.note # "completed" => \A x : x \in Closed(a) <=> x \in Closed(s),
           NEW items \in Seq(Item), NEW open, NEW rest, Kept(items, s, open),
           n.note = "completed" =>
               \A k \in 1 .. Len(items) : items[k].item = n.item => items[k].body = n.body,
           \A t \in open : t \in rest \/ (n.note = "completed" /\ ToolItem(t) = n.item)
    PROVE  Kept(items, a, rest)
<1>1. Len(s) \in Nat /\ 1 .. Len(s) \subseteq 1 .. Len(a) /\ Len(s) + 1 \in 1 .. Len(a)
  OBVIOUS
<1>2. \A k \in 1 .. Len(items) : \E i \in 1 .. Len(a) : IsStart(a[i], items[k].item)
  BY <1>1 DEF Kept
<1>3. \A k, l \in 1 .. Len(items) : k < l =>
          \E i, j \in 1 .. Len(a) :
              i < j /\ IsStart(a[i], items[k].item) /\ IsStart(a[j], items[l].item)
  <2> SUFFICES ASSUME NEW k \in 1 .. Len(items), NEW l \in 1 .. Len(items), k < l
               PROVE  \E i, j \in 1 .. Len(a) :
                          i < j /\ IsStart(a[i], items[k].item) /\ IsStart(a[j], items[l].item)
    OBVIOUS
  <2>1. PICK i \in 1 .. Len(s), j \in 1 .. Len(s) :
            i < j /\ IsStart(s[i], items[k].item) /\ IsStart(s[j], items[l].item)
    BY DEF Kept
  <2>2. a[i] = s[i] /\ a[j] = s[j] /\ i \in 1 .. Len(a) /\ j \in 1 .. Len(a)
    BY <1>1
  <2> QED
    BY <2>1, <2>2
<1>4. \A k \in 1 .. Len(items) : items[k].item \in Closed(a) =>
          \E j \in 1 .. Len(a) : Completes(a[j], items[k])
  <2> SUFFICES ASSUME NEW k \in 1 .. Len(items), items[k].item \in Closed(a)
               PROVE  \E j \in 1 .. Len(a) : Completes(a[j], items[k])
    OBVIOUS
  <2>1. CASE items[k].item \in Closed(s)
    <3>1. PICK j \in 1 .. Len(s) : Completes(s[j], items[k])
      BY <2>1 DEF Kept
    <3>2. a[j] = s[j] /\ j \in 1 .. Len(a)
      BY <1>1
    <3> QED
      BY <3>1, <3>2
  <2>2. CASE items[k].item \notin Closed(s)
    <3>1. n.note = "completed" /\ items[k].item = n.item /\ items[k].body = n.body
      BY <2>2
    <3> QED
      BY <1>1, <3>1 DEF Completes
  <2> QED
    BY <2>1, <2>2
<1>5. \A k \in 1 .. Len(items) :
          items[k].item \in Closed(a) \/ \E t \in rest : items[k].item = ToolItem(t)
  BY DEF Kept
<1>6. \A k, l \in 1 .. Len(items) : items[k].item = items[l].item => k = l
  BY DEF Kept
<1> QED
  BY <1>2, <1>3, <1>4, <1>5, <1>6 DEF Kept

\* ... and one more item at its end, started last.
Settled(i, s, rest) ==
    /\ i.item \in Closed(s) => \E j \in 1 .. Len(s) : Completes(s[j], i)
    /\ i.item \in Closed(s) \/ \E t \in rest : i.item = ToolItem(t)

Pushes(items, i, p) ==
    /\ p \in Seq(Item) /\ Len(p) = Len(items) + 1 /\ Len(items) \in Nat
    /\ \A k \in 1 .. Len(items) : p[k] = items[k]
    /\ p[Len(items) + 1] = i

LEMMA KeptPush ==
    ASSUME NEW s \in Seq(Note), NEW items \in Seq(Item), NEW open, NEW rest, Kept(items, s, open),
           open \subseteq rest,
           NEW i \in Item, NEW p, p = Append(items, i),
           Unkept(items, i.item), LastStarted(s, i.item), Settled(i, s, rest)
    PROVE  Pushes(items, i, p) /\ Kept(p, s, rest)
<1> DEFINE len == Len(items)
<1>1. /\ p \in Seq(Item) /\ Len(p) = len + 1 /\ len \in Nat
      /\ \A k \in 1 .. len : p[k] = items[k]
      /\ p[len + 1] = i
  OBVIOUS
<1> HIDE DEF len
<1>2. \A k \in 1 .. len + 1 : k \in 1 .. len \/ k = len + 1
  BY <1>1
<1>3. PICK last \in 1 .. Len(s) :
          IsStart(s[last], i.item) /\ \A m \in 1 .. Len(s) : s[m].note = "started" => m <= last
  BY DEF LastStarted
<1>4. \A k, l \in 1 .. len + 1 : p[k].item = p[l].item => k = l
  BY <1>1, <1>2 DEF Kept, Unkept, len
<1>5. \A k \in 1 .. len + 1 : \E j \in 1 .. Len(s) : IsStart(s[j], p[k].item)
  BY <1>1, <1>2, <1>3 DEF Kept, len
<1>6. \A k, l \in 1 .. len + 1 : k < l =>
          \E j, m \in 1 .. Len(s) :
              j < m /\ IsStart(s[j], p[k].item) /\ IsStart(s[m], p[l].item)
  <2> SUFFICES ASSUME NEW k \in 1 .. len + 1, NEW l \in 1 .. len + 1, k < l
               PROVE  \E j, m \in 1 .. Len(s) :
                          j < m /\ IsStart(s[j], p[k].item) /\ IsStart(s[m], p[l].item)
    OBVIOUS
  <2>1. k \in 1 .. len /\ p[k] = items[k]
    BY <1>1
  <2>2. CASE l \in 1 .. len
    BY <1>1, <2>1, <2>2 DEF Kept, len
  <2>3. CASE l = len + 1
    <3>1. PICK j \in 1 .. Len(s) : IsStart(s[j], items[k].item)
      BY <2>1 DEF Kept, len
    <3>2. j # last
      BY <1>3, <2>1, <3>1 DEF IsStart, Unkept, len
    <3>3. j < last
      BY <1>3, <3>1, <3>2 DEF IsStart
    <3> QED
      BY <1>1, <1>3, <2>1, <2>3, <3>1, <3>3
  <2> QED
    BY <1>2, <2>2, <2>3
<1>7. \A k \in 1 .. len + 1 : p[k].item \in Closed(s) =>
          \E j \in 1 .. Len(s) : Completes(s[j], p[k])
  BY <1>1, <1>2 DEF Kept, Settled, len
<1>8. \A k \in 1 .. len + 1 :
          p[k].item \in Closed(s) \/ \E t \in rest : p[k].item = ToolItem(t)
  BY <1>1, <1>2 DEF Kept, Settled, len
<1>9. Kept(p, s, rest)
  BY <1>1, <1>4, <1>5, <1>6, <1>7, <1>8 DEF Kept
<1> QED
  BY <1>1, <1>9 DEF Pushes, len

\* What is kept of an item that is not completed may change.
Replaced(items, x, b) ==
    [k \in DOMAIN items |-> IF items[k].item = x THEN [item |-> x, body |-> b] ELSE items[k]]

Replaces(items, x, b, p) ==
    /\ p \in Seq(Item) /\ Len(p) = Len(items)
    /\ \A k \in 1 .. Len(items) : /\ p[k].item = items[k].item
                                  /\ p[k].item = x => p[k].body = b

LEMMA KeptReplace ==
    ASSUME NEW s, NEW items \in Seq(Item), NEW open, Kept(items, s, open),
           NEW x \in Names \ Closed(s), NEW b \in Bodies,
           NEW p, p = Replaced(items, x, b)
    PROVE  Replaces(items, x, b, p) /\ Kept(p, s, open)
<1>1. DOMAIN items = 1 .. Len(items) /\ Len(items) \in Nat
  OBVIOUS
<1>2. \A k \in 1 .. Len(items) : items[k] \in Item
  OBVIOUS
<1>3. [item |-> x, body |-> b] \in Item
  BY DEF Item
<1>4. p \in [1 .. Len(items) -> Item]
  BY <1>1, <1>2, <1>3 DEF Replaced
<1>5. p \in Seq(Item) /\ Len(p) = Len(items)
  BY <1>1, <1>4 DEF Replaced
<1>6. \A k \in 1 .. Len(items) : /\ p[k].item = items[k].item
                                 /\ p[k].item = x => p[k].body = b
                                 /\ p[k].item # x => p[k] = items[k]
  BY <1>1 DEF Replaced
<1>7. Kept(p, s, open)
  <2>1. \A k, l \in 1 .. Len(p) : p[k].item = p[l].item => k = l
    BY <1>5, <1>6 DEF Kept
  <2>2. \A k \in 1 .. Len(p) : \E i \in 1 .. Len(s) : IsStart(s[i], p[k].item)
    BY <1>5, <1>6 DEF Kept
  <2>3. \A k, l \in 1 .. Len(p) : k < l =>
            \E i, j \in 1 .. Len(s) :
                i < j /\ IsStart(s[i], p[k].item) /\ IsStart(s[j], p[l].item)
    <3> SUFFICES ASSUME NEW k \in 1 .. Len(items), NEW l \in 1 .. Len(items), k < l
                 PROVE  \E i, j \in 1 .. Len(s) :
                            i < j /\ IsStart(s[i], p[k].item) /\ IsStart(s[j], p[l].item)
      BY <1>5
    <3>1. p[k].item = items[k].item /\ p[l].item = items[l].item
      BY <1>6
    <3> QED
      BY <3>1 DEF Kept
  <2>4. \A k \in 1 .. Len(p) : p[k].item \in Closed(s) =>
            \E j \in 1 .. Len(s) : Completes(s[j], p[k])
    BY <1>5, <1>6 DEF Kept
  <2>5. \A k \in 1 .. Len(p) : p[k].item \in Closed(s) \/ \E t \in open : p[k].item = ToolItem(t)
    BY <1>5, <1>6 DEF Kept
  <2> QED
    BY <2>1, <2>2, <2>3, <2>4, <2>5 DEF Kept
<1> QED
  BY <1>5, <1>6, <1>7 DEF Replaces

\* A run that is open is kept as it is completed.
LEMMA Flushing ==
    ASSUME NEW e, EmitterOK(e), NEW f, f = FlushText(e)
    PROVE  /\ EmitterOK(f) /\ f.run = NoRun
           /\ f.tools = e.tools /\ f.open = e.open /\ f.ended = e.ended /\ f.textSeq = e.textSeq
<1>1. CASE e.run = NoRun
  BY <1>1 DEF FlushText
<1>2. CASE e.run # NoRun
  <2> DEFINE i == [item |-> e.run, body |-> e.accumulated]
             n == [note |-> "completed", item |-> e.run, body |-> e.accumulated]
  <2>1. e \in Emitter
    BY DEF EmitterOK
  <2>2. e.run \in TextItems /\ i \in Item /\ n \in Note
    BY <1>2, <2>1 DEF Emitter, Item, Note, Names
  <2>3. /\ f = [e EXCEPT !.items = Append(e.items, i), !.sent = Append(e.sent, n),
                         !.run = NoRun, !.accumulated = <<>>]
    BY <1>2, <2>1 DEF FlushText, Send, PushItem, Emitter
  <2>4. /\ f.items = Append(e.items, i) /\ f.sent = Append(e.sent, n)
        /\ f.run = NoRun
        /\ f.tools = e.tools /\ f.open = e.open /\ f.ended = e.ended /\ f.textSeq = e.textSeq
    BY <2>1, <2>3 DEF Emitter
  <2> DEFINE s == e.sent
             a == f.sent
  <2>5. /\ e.items \in Seq(Item) /\ s \in Seq(Note)
        /\ e.open \subseteq e.tools /\ e.tools \subseteq Tools
    BY <2>1 DEF EmitterOK, Emitter
  <2>6. /\ n.note = "completed" /\ n.item = e.run /\ n.body = e.accumulated
        /\ i.item = e.run /\ i.body = e.accumulated
    OBVIOUS
  <2>7. e.run \in Heard(s) \ Closed(s)
    <3>1. PICK j \in 1 .. Len(s) : IsStart(s[j], e.run)
      BY <1>2 DEF EmitterOK, Running, LastStarted
    <3> QED
      BY <1>2, <3>1 DEF EmitterOK, Running, Heard, IsStart
  <2> HIDE DEF i, n
  <2> HIDE DEF s, a
  <2>20. a = Append(s, n) /\ Streams(s)
    BY <2>4 DEF EmitterOK, s, a
  <2>21. n.note # "started" /\ n.item \in Heard(s) /\ n.item \notin Closed(s)
    BY <2>6, <2>7
  <2>8. /\ a \in Seq(Note) /\ Len(a) = Len(s) + 1 /\ Len(s) \in Nat
        /\ \A k \in 1 .. Len(s) : a[k] = s[k]
        /\ a[Len(s) + 1] = n
        /\ Streams(a)
        /\ \A x : x \in Heard(a) <=> x \in Heard(s) \/ x = e.run
        /\ \A x : x \in Closed(a) <=> x \in Closed(s) \/ x = e.run
    <3>1. Sends(s, n, a)
      BY <2>2, <2>5, <2>20, <2>21, Sending DEF Fits
    <3>2. n.note = "completed"
      BY <2>6
    <3> QED
      BY <3>1, <3>2, <2>6 DEF Sends
  <2>9. Kept(e.items, a, e.open)
    <3>1. /\ \A k \in 1 .. Len(e.items) : e.items[k].item # n.item
          /\ Kept(e.items, s, e.open)
      BY <1>2, <2>6 DEF EmitterOK, Running, Unkept, s
    <3>2. /\ n.note = "completed" => \A x : x \in Closed(a) <=> x \in Closed(s) \/ x = n.item
          /\ n.note # "completed" => \A x : x \in Closed(a) <=> x \in Closed(s)
      BY <2>6, <2>8
    <3> QED
      BY <2>2, <2>5, <2>8, <3>1, <3>2, KeptSending
  <2>10. LastStarted(a, i.item)
    <3>1. PICK j \in 1 .. Len(s) :
              IsStart(s[j], e.run) /\ \A m \in 1 .. Len(s) : s[m].note = "started" => m <= j
      BY <1>2 DEF EmitterOK, Running, LastStarted, s
    <3>2. \A m \in 1 .. Len(a) : m \in 1 .. Len(s) \/ a[m].note = "completed"
      BY <2>6, <2>8
    <3> QED
      BY <2>6, <2>8, <3>1, <3>2 DEF LastStarted
  <2>11. \E j \in 1 .. Len(a) : Completes(a[j], i)
    <3>1. Completes(a[Len(s) + 1], i) /\ Len(s) + 1 \in 1 .. Len(a)
      BY <2>6, <2>8 DEF Completes
    <3> QED
      BY <3>1
  <2>12. /\ f.items \in Seq(Item) /\ Len(f.items) = Len(e.items) + 1 /\ Len(e.items) \in Nat
         /\ \A k \in 1 .. Len(e.items) : f.items[k] = e.items[k]
         /\ f.items[Len(e.items) + 1] = i
         /\ Kept(f.items, a, e.open)
    <3>1. Unkept(e.items, i.item)
      BY <1>2, <2>6 DEF EmitterOK, Running
    <3>2. Settled(i, a, e.open)
      BY <2>6, <2>8, <2>11 DEF Settled
    <3>3. Pushes(e.items, i, f.items) /\ Kept(f.items, a, e.open)
      BY <2>2, <2>4, <2>5, <2>8, <2>9, <2>10, <3>1, <3>2, KeptPush
    <3> QED
      BY <3>3 DEF Pushes
  <2>13. f \in Emitter
    BY <2>1, <2>3, <2>4, <2>8, <2>12, BodiesGrow DEF Emitter, a
  <2>14. \A x \in Heard(a) : \E k \in 1 .. Len(f.items) : f.items[k].item = x
    <3> SUFFICES ASSUME NEW x \in Heard(a) PROVE \E k \in 1 .. Len(f.items) : f.items[k].item = x
      OBVIOUS
    <3>1. CASE x = e.run
      BY <2>6, <2>12, <3>1
    <3>2. CASE x # e.run
      <4>1. PICK k \in 1 .. Len(e.items) : e.items[k].item = x
        BY <2>8, <3>2 DEF EmitterOK, Owned, s
      <4> QED
        BY <2>12, <4>1
    <3> QED
      BY <3>1, <3>2
  <2>15. \A x \in Heard(a) \cap TextItems : x[2] < f.textSeq
    BY <2>4, <2>7, <2>8 DEF EmitterOK, s
  <2>16. \A t \in Tools : ToolItem(t) # e.run
    BY <2>2, NamesApart
  <2>17. /\ \A t \in Tools : ToolItem(t) \in Heard(a) <=> t \in f.tools
         /\ \A t \in f.open : ToolItem(t) \notin Closed(a)
    BY <2>4, <2>5, <2>8, <2>16 DEF EmitterOK, s
  <2> QED
    BY <2>4, <2>5, <2>8, <2>12, <2>13, <2>14, <2>15, <2>17 DEF EmitterOK, Owned, Running, a
<1> QED
  BY <1>1, <1>2

\* What was started or completed was heard of, and what is kept was started.
LEMMA HeardOf ==
    ASSUME NEW s
    PROVE  /\ \A x : x \in Closed(s) => x \in Heard(s)
           /\ \A x : (\E j \in 1 .. Len(s) : IsStart(s[j], x)) => x \in Heard(s)
           /\ \A items, open : Kept(items, s, open) =>
                  \A k \in 1 .. Len(items) : items[k].item \in Heard(s)
<1>1. \A x : x \in Closed(s) => x \in Heard(s)
  BY DEF Closed, Heard
<1>2. \A x : (\E j \in 1 .. Len(s) : IsStart(s[j], x)) => x \in Heard(s)
  BY DEF IsStart, Heard
<1>3. ASSUME NEW items, NEW open, Kept(items, s, open), NEW k \in 1 .. Len(items)
      PROVE  items[k].item \in Heard(s)
  BY <1>2, <1>3 DEF Kept
<1> QED
  BY <1>1, <1>2, <1>3

\* A text item is started ...
Started(e, kind) ==
    [Send(e, "started", TextItem(kind, e.textSeq), <<>>)
        EXCEPT !.run = TextItem(kind, e.textSeq), !.textSeq = @ + 1]

LEMMA StartText ==
    ASSUME NEW e, EmitterOK(e), e.run = NoRun, NEW kind \in TextKinds,
           NEW o, o = Started(e, kind)
    PROVE  /\ EmitterOK(o) /\ o.run # NoRun
           /\ o.tools = e.tools /\ o.open = e.open /\ o.ended = e.ended
<1> DEFINE x == TextItem(kind, e.textSeq)
           n == [note |-> "started", item |-> x, body |-> <<>>]
           s == e.sent
           a == o.sent
<1>1. e \in Emitter
  BY DEF EmitterOK
<1>2. x \in TextItems /\ x[2] = e.textSeq /\ n \in Note /\ x \notin ToolItems /\ x # NoRun
  BY <1>1, BodiesGrow, NamesApart DEF Emitter, Note, Names
<1>3. /\ a = Append(s, n) /\ o.run = x /\ o.textSeq = e.textSeq + 1
      /\ o.items = e.items /\ o.accumulated = e.accumulated
      /\ o.tools = e.tools /\ o.open = e.open /\ o.ended = e.ended
  BY <1>1 DEF Emitter, Send, Started
<1>4. o = [e EXCEPT !.sent = a, !.run = x, !.textSeq = e.textSeq + 1]
  BY <1>1 DEF Emitter, Send, Started
<1>5. n.note = "started" /\ n.item = x /\ n.body = <<>>
  OBVIOUS
<1>6. e.items \in Seq(Item) /\ s \in Seq(Note) /\ e.open \subseteq e.tools /\ e.tools \subseteq Tools
      /\ e.textSeq \in Nat
  BY <1>1 DEF EmitterOK, Emitter
<1> HIDE DEF x, n, s, a
<1>7. x \notin Heard(s)
  BY <1>2, <1>6 DEF EmitterOK, s
<1>8. Sends(s, n, a)
  BY <1>2, <1>3, <1>5, <1>6, <1>7, Sending DEF Fits, EmitterOK, s
<1>9. /\ a \in Seq(Note) /\ Len(a) = Len(s) + 1 /\ Len(s) \in Nat
      /\ \A k \in 1 .. Len(s) : a[k] = s[k]
      /\ a[Len(s) + 1] = n
      /\ Streams(a)
  BY <1>8 DEF Sends
<1>10. \A y : y \in Heard(a) <=> y \in Heard(s) \/ y = x
  BY <1>5, <1>8 DEF Sends
<1>11. \A y : y \in Closed(a) <=> y \in Closed(s)
  BY <1>5, <1>8 DEF Sends
<1>12. Kept(e.items, a, e.open)
  <2>1. Kept(e.items, s, e.open)
    BY DEF EmitterOK, s
  <2>2. n.note # "completed"
    BY <1>5
  <2> QED
    BY <1>2, <1>6, <1>9, <1>11, <2>1, <2>2, KeptSending
<1>13. Running(x, e.items, a)
  <2>1. x \notin Closed(a)
    BY <1>7, <1>11, HeardOf
  <2>2. Unkept(e.items, x)
    BY <1>7, HeardOf DEF EmitterOK, Unkept, s
  <2>3. Len(s) + 1 \in 1 .. Len(a) /\ \A i \in 1 .. Len(a) : i <= Len(s) + 1
    BY <1>9
  <2>4. IsStart(a[Len(s) + 1], x)
    BY <1>5, <1>9 DEF IsStart
  <2> QED
    BY <2>1, <2>2, <2>3, <2>4 DEF Running, LastStarted
<1>14. o \in Emitter
  <2>1. e.textSeq + 1 \in Nat /\ x \in TextItems \cup {NoRun}
    BY <1>2, <1>6
  <2> QED
    BY <1>1, <1>4, <1>9, <2>1 DEF Emitter
<1>15. \A y \in Heard(a) : y = x \/ \E k \in 1 .. Len(e.items) : e.items[k].item = y
  BY <1>10 DEF EmitterOK, Owned, s
<1>16. \A y \in Heard(a) \cap TextItems : y[2] < e.textSeq + 1
  <2> SUFFICES ASSUME NEW y \in TextItems, y \in Heard(a) PROVE y[2] < e.textSeq + 1
    OBVIOUS
  <2>1. y[2] \in Nat
    BY NamesApart
  <2>2. CASE y = x
    BY <1>2, <1>6, <2>2
  <2>3. CASE y \in Heard(s)
    <3>1. y[2] < e.textSeq
      BY <2>3 DEF EmitterOK, s
    <3> QED
      BY <1>6, <2>1, <3>1
  <2> QED
    BY <1>10, <2>2, <2>3
<1>17. \A t \in Tools : ToolItem(t) # x
  BY <1>2, NamesApart
<1>18. /\ \A t \in Tools : ToolItem(t) \in Heard(a) <=> t \in e.tools
       /\ \A t \in e.open : ToolItem(t) \notin Closed(a)
  BY <1>10, <1>11, <1>17 DEF EmitterOK, s
<1>19. Owned(o)
  BY <1>2, <1>3, <1>15 DEF Owned, a
<1> QED
  BY <1>2, <1>3, <1>6, <1>9, <1>12, <1>13, <1>14, <1>16, <1>18, <1>19 DEF EmitterOK, a

\* ... and added to.
Added(e, b) == [Send(e, "delta", e.run, <<b>>) EXCEPT !.accumulated = Append(@, b)]

LEMMA AddText ==
    ASSUME NEW e, EmitterOK(e), e.run # NoRun, NEW b \in Contents,
           NEW o, o = Added(e, b)
    PROVE  /\ EmitterOK(o)
           /\ o.tools = e.tools /\ o.open = e.open /\ o.ended = e.ended
<1> DEFINE x == e.run
           n == [note |-> "delta", item |-> x, body |-> <<b>>]
           s == e.sent
           a == o.sent
<1>1. e \in Emitter
  BY DEF EmitterOK
<1>2. x \in TextItems /\ n \in Note
  BY <1>1, BodiesGrow DEF Emitter, Note, Names
<1>3. /\ a = Append(s, n) /\ o.run = x /\ o.textSeq = e.textSeq
      /\ o.items = e.items
      /\ o.tools = e.tools /\ o.open = e.open /\ o.ended = e.ended
  BY <1>1 DEF Emitter, Send, Added
<1>4. o = [e EXCEPT !.sent = a, !.accumulated = Append(e.accumulated, b)]
  BY <1>1 DEF Emitter, Send, Added
<1>5. n.note = "delta" /\ n.item = x
  OBVIOUS
<1>6. e.items \in Seq(Item) /\ s \in Seq(Note) /\ e.open \subseteq e.tools /\ e.tools \subseteq Tools
  BY <1>1 DEF EmitterOK, Emitter
<1> HIDE DEF x, n, s, a
<1>7. PICK last \in 1 .. Len(s) :
          IsStart(s[last], x) /\ \A i \in 1 .. Len(s) : s[i].note = "started" => i <= last
  BY DEF EmitterOK, Running, LastStarted, s, x
<1>8. x \in Heard(s) /\ x \notin Closed(s)
  BY <1>7, HeardOf DEF EmitterOK, Running, s, x
<1>9. Sends(s, n, a)
  BY <1>2, <1>3, <1>5, <1>6, <1>8, Sending DEF Fits, EmitterOK, s
<1>10. /\ a \in Seq(Note) /\ Len(a) = Len(s) + 1 /\ Len(s) \in Nat
       /\ \A k \in 1 .. Len(s) : a[k] = s[k]
       /\ a[Len(s) + 1] = n
       /\ Streams(a)
  BY <1>9 DEF Sends
<1>11. \A y : y \in Heard(a) <=> y \in Heard(s)
  BY <1>5, <1>8, <1>9 DEF Sends
<1>12. \A y : y \in Closed(a) <=> y \in Closed(s)
  BY <1>5, <1>9 DEF Sends
<1>13. Kept(e.items, a, e.open)
  <2>1. Kept(e.items, s, e.open)
    BY DEF EmitterOK, s
  <2>2. n.note # "completed"
    BY <1>5
  <2> QED
    BY <1>2, <1>6, <1>10, <1>12, <2>1, <2>2, KeptSending
<1>14. Running(x, e.items, a)
  <2>1. last \in 1 .. Len(a) /\ IsStart(a[last], x)
    BY <1>7, <1>10
  <2>2. \A i \in 1 .. Len(a) : i \in 1 .. Len(s) \/ a[i].note = "delta"
    BY <1>5, <1>10
  <2>3. \A i \in 1 .. Len(a) : a[i].note = "started" => i <= last
    BY <1>7, <1>10, <2>2
  <2>4. x \notin Closed(a) /\ Unkept(e.items, x)
    BY <1>8, <1>12 DEF EmitterOK, Running, x
  <2> QED
    BY <2>1, <2>3, <2>4 DEF Running, LastStarted
<1>15. o \in Emitter
  BY <1>1, <1>4, <1>10, BodiesGrow DEF Emitter
<1>16. \A y \in Heard(a) : y = x \/ \E k \in 1 .. Len(e.items) : e.items[k].item = y
  BY <1>11 DEF EmitterOK, Owned, s, x
<1>17. \A y \in Heard(a) \cap TextItems : y[2] < e.textSeq
  BY <1>11 DEF EmitterOK, s
<1>18. /\ \A t \in Tools : ToolItem(t) \in Heard(a) <=> t \in e.tools
       /\ \A t \in e.open : ToolItem(t) \notin Closed(a)
  BY <1>11, <1>12 DEF EmitterOK, s
<1>19. Owned(o)
  BY <1>2, <1>3, <1>16, NamesApart DEF Owned, a
<1> QED
  BY <1>3, <1>6, <1>10, <1>13, <1>14, <1>15, <1>17, <1>18, <1>19 DEF EmitterOK, a

LEMMA TextHandled ==
    ASSUME NEW e, EmitterOK(e), NEW n, n.kind \in TextKinds, n.body \in Contents
    PROVE  /\ EmitterOK(HandleText(e, n))
           /\ HandleText(e, n).tools = e.tools /\ HandleText(e, n).open = e.open
           /\ HandleText(e, n).ended = e.ended
<1> DEFINE f == FlushText(e)
           o == OpenRun(e, n.kind)
<1>1. EmitterOK(o) /\ o.run # NoRun /\ o.tools = e.tools /\ o.open = e.open /\ o.ended = e.ended
  <2>1. CASE e.run # NoRun /\ e.run[1] = n.kind
    BY <2>1 DEF OpenRun
  <2>2. CASE ~(e.run # NoRun /\ e.run[1] = n.kind)
    <3>1. /\ EmitterOK(f) /\ f.run = NoRun /\ f.textSeq = e.textSeq
          /\ f.tools = e.tools /\ f.open = e.open /\ f.ended = e.ended
      BY Flushing
    <3>2. o = Started(f, n.kind)
      BY <2>2, <3>1 DEF OpenRun, Started
    <3> HIDE DEF f, o
    <3> QED
      BY <3>1, <3>2, StartText
  <2> QED
    BY <2>1, <2>2
<1>2. HandleText(e, n) = Added(o, n.body)
  BY DEF HandleText, Added
<1> HIDE DEF o
<1> QED
  BY <1>1, <1>2, AddText

\* A tool call is announced.
LEMMA ToolAnnounced ==
    ASSUME NEW e, EmitterOK(e), e.run = NoRun,
           NEW n, n.tool \in Tools \ e.tools, n.body \in Contents, NEW o, o = HandleToolCall(e, n)
    PROVE  /\ EmitterOK(o) /\ o.run = NoRun
           /\ o.tools = e.tools \cup {n.tool} /\ o.open = e.open \cup {n.tool}
           /\ o.ended = e.ended \/ (n.terminal /\ o.ended = e.ended \cup {n.tool})
           /\ n.terminal => n.tool \in o.ended
<1> DEFINE t == n.tool
           x == ToolItem(t)
           b == <<n.body>>
           m == [note |-> "started", item |-> x, body |-> b]
           i == [item |-> x, body |-> b]
           s == e.sent
           a == o.sent
           items == o.items
<1>1. e \in Emitter
  BY DEF EmitterOK
<1>2. x \in ToolItems /\ m \in Note /\ i \in Item /\ t \in Tools
  BY BodiesGrow, NamesApart DEF Note, Names, Item
<1>3. /\ a = Append(s, m) /\ items = Append(e.items, i) /\ o.run = NoRun
      /\ o.textSeq = e.textSeq /\ o.accumulated = e.accumulated
      /\ o.tools = e.tools \cup {t} /\ o.open = e.open \cup {t}
      /\ o.ended = IF n.terminal THEN e.ended \cup {t} ELSE e.ended
  BY <1>1 DEF Emitter, Send, PushItem, HandleToolCall
<1>4. o = [e EXCEPT !.sent = a, !.items = items, !.tools = o.tools, !.open = o.open, !.ended = o.ended]
  BY <1>1 DEF Emitter, Send, PushItem, HandleToolCall
<1>5. m.note = "started" /\ m.item = x /\ i.item = x
  OBVIOUS
<1>6. /\ e.items \in Seq(Item) /\ s \in Seq(Note) /\ e.open \subseteq e.tools
      /\ e.tools \subseteq Tools /\ e.ended \subseteq Tools
  BY <1>1 DEF EmitterOK, Emitter
<1>7. o.ended \subseteq Tools /\ o.tools \subseteq Tools /\ o.open \subseteq o.tools
  BY <1>2, <1>3, <1>6
<1> HIDE DEF t, x, b, m, i, s, a, items
<1>8. t \notin e.tools /\ x = ToolItem(t)
  BY DEF t, x
<1>9. x \notin Heard(s)
  BY <1>2, <1>8 DEF EmitterOK, s
<1>10. Sends(s, m, a)
  BY <1>2, <1>3, <1>5, <1>6, <1>9, Sending DEF Fits, EmitterOK, s
<1>11. /\ a \in Seq(Note) /\ Len(a) = Len(s) + 1 /\ Len(s) \in Nat
       /\ \A k \in 1 .. Len(s) : a[k] = s[k]
       /\ a[Len(s) + 1] = m
       /\ Streams(a)
  BY <1>10 DEF Sends
<1>12. \A y : y \in Heard(a) <=> y \in Heard(s) \/ y = x
  BY <1>5, <1>10 DEF Sends
<1>13. \A y : y \in Closed(a) <=> y \in Closed(s)
  BY <1>5, <1>10 DEF Sends
<1>14. Kept(e.items, a, e.open)
  <2>1. Kept(e.items, s, e.open)
    BY DEF EmitterOK, s
  <2>2. m.note # "completed"
    BY <1>5
  <2> QED
    BY <1>2, <1>6, <1>11, <1>13, <2>1, <2>2, KeptSending
<1>15. x \notin Closed(a)
  BY <1>9, <1>13, HeardOf
<1>16. /\ items \in Seq(Item) /\ Len(items) = Len(e.items) + 1 /\ Len(e.items) \in Nat
       /\ \A k \in 1 .. Len(e.items) : items[k] = e.items[k]
       /\ items[Len(e.items) + 1] = i
       /\ Kept(items, a, o.open)
  <2>1. Unkept(e.items, i.item)
    BY <1>5, <1>9, HeardOf DEF EmitterOK, Unkept, s
  <2>2. LastStarted(a, i.item)
    <3>1. Len(s) + 1 \in 1 .. Len(a) /\ \A k \in 1 .. Len(a) : k <= Len(s) + 1
      BY <1>11
    <3>2. IsStart(a[Len(s) + 1], i.item)
      BY <1>5, <1>11 DEF IsStart
    <3> QED
      BY <3>1, <3>2 DEF LastStarted
  <2>3. Settled(i, a, o.open)
    BY <1>3, <1>5, <1>8, <1>15 DEF Settled
  <2>4. e.open \subseteq o.open
    BY <1>3
  <2>5. items = Append(e.items, i) /\ e.items \in Seq(Item) /\ a \in Seq(Note) /\ i \in Item
    BY <1>2, <1>3, <1>6, <1>11
  <2>6. Pushes(e.items, i, items) /\ Kept(items, a, o.open)
    BY <1>14, <2>1, <2>2, <2>3, <2>4, <2>5, KeptPush
  <2> QED
    BY <2>6 DEF Pushes
<1>17. o \in Emitter
  BY <1>1, <1>4, <1>6, <1>7, <1>11, <1>16 DEF Emitter
<1>18. Owned(o)
  <2> SUFFICES ASSUME NEW y \in Heard(a) PROVE \E k \in 1 .. Len(items) : items[k].item = y
    BY DEF Owned, a, items
  <2>1. CASE y = x
    BY <1>5, <1>16, <2>1
  <2>2. CASE y # x
    <3>1. PICK k \in 1 .. Len(e.items) : e.items[k].item = y
      BY <1>12, <2>2 DEF EmitterOK, Owned, s
    <3> QED
      BY <1>16, <3>1
  <2> QED
    BY <2>1, <2>2
<1>19. \A y \in Heard(a) \cap TextItems : y[2] < e.textSeq
  BY <1>2, <1>12, NamesApart DEF EmitterOK, s
<1>20. \A u \in Tools : ToolItem(u) = x => u = t
  BY <1>2, <1>8, NamesApart
<1>21. \A u \in Tools : ToolItem(u) \in Heard(a) <=> u \in o.tools
  <2> SUFFICES ASSUME NEW u \in Tools PROVE ToolItem(u) \in Heard(a) <=> u \in o.tools
    OBVIOUS
  <2>1. ToolItem(u) \in Heard(s) <=> u \in e.tools
    BY DEF EmitterOK, s
  <2> QED
    BY <1>3, <1>8, <1>12, <1>20, <2>1
<1>22. \A u \in o.open : ToolItem(u) \notin Closed(a)
  BY <1>3, <1>8, <1>13, <1>15 DEF EmitterOK, s
<1>23. Running(o.run, o.items, o.sent)
  BY <1>3 DEF Running
<1>24. EmitterOK(o)
  BY <1>3, <1>7, <1>11, <1>16, <1>17, <1>18, <1>19, <1>21, <1>22, <1>23 DEF EmitterOK, a, items
<1> QED
  BY <1>3, <1>24 DEF t

\* What is kept of an item is what is kept of it last: there is one.
LEMMA BodyKept ==
    ASSUME NEW e, e.items \in Seq(Item), NEW k \in 1 .. Len(e.items),
           \A l \in 1 .. Len(e.items) : e.items[l].item = e.items[k].item => l = k
    PROVE  BodyOf(e, e.items[k].item) = e.items[k].body
<1> DEFINE I == {l \in 1 .. Len(e.items) : e.items[l].item = e.items[k].item}
<1>1. I = {k}
  OBVIOUS
<1>2. k \in Int
  OBVIOUS
<1>3. Max(I) = k
  BY <1>1, <1>2 DEF Max
<1>4. SelectLastInSeq(e.items, LAMBDA i : i.item = e.items[k].item) = Max(I)
  BY <1>1 DEF SelectLastInSeq
<1> QED
  BY <1>3, <1>4 DEF BodyOf

\* What a tool that is open has said is added to what is kept of it.
Merges(e, t, body, o) ==
    /\ EmitterOK(o) /\ o.run = NoRun
    /\ o.tools = e.tools /\ o.open = e.open /\ o.ended = e.ended
    /\ body \in Bodies
    /\ \A k \in 1 .. Len(o.items) : o.items[k].item = ToolItem(t) => o.items[k].body = body

LEMMA ToolMerged ==
    ASSUME NEW e, EmitterOK(e), e.run = NoRun, NEW t \in e.open, NEW b \in Contents,
           NEW body, body = Append(BodyOf(e, ToolItem(t)), b),
           NEW o, o = ReplaceItem(e, ToolItem(t), body)
    PROVE  Merges(e, t, body, o)
<1> DEFINE x == ToolItem(t)
           s == e.sent
           items == o.items
<1>1. e \in Emitter
  BY DEF EmitterOK
<1>2. /\ e.items \in Seq(Item) /\ s \in Seq(Note) /\ e.open \subseteq e.tools /\ e.tools \subseteq Tools
      /\ t \in Tools
  BY <1>1 DEF EmitterOK, Emitter
<1>3. x \in Names /\ x \in Heard(s) /\ x \notin Closed(s)
  BY <1>2, NamesApart DEF EmitterOK, Names
<1>4. /\ items = Replaced(e.items, x, body)
      /\ o = [e EXCEPT !.items = items]
      /\ o.run = NoRun /\ o.sent = s /\ o.textSeq = e.textSeq
      /\ o.tools = e.tools /\ o.open = e.open /\ o.ended = e.ended
  BY <1>1 DEF Emitter, ReplaceItem, Replaced
<1> HIDE DEF s, items
<1>5. PICK j \in 1 .. Len(e.items) : e.items[j].item = x
  BY <1>3 DEF EmitterOK, Owned, s
<1>6. BodyOf(e, x) \in Bodies
  <2>1. \A l \in 1 .. Len(e.items) : e.items[l].item = e.items[j].item => l = j
    BY DEF EmitterOK, Kept
  <2>2. BodyOf(e, e.items[j].item) = e.items[j].body
    BY <1>2, <2>1, BodyKept
  <2>3. e.items[j] \in Item
    BY <1>2
  <2> QED
    BY <1>5, <2>2, <2>3 DEF Item
<1>7. body \in Bodies
  BY <1>6, BodiesGrow
<1> HIDE DEF x
<1>8. Kept(e.items, s, e.open)
  BY DEF EmitterOK, s
<1>9. /\ items \in Seq(Item) /\ Len(items) = Len(e.items)
      /\ \A k \in 1 .. Len(e.items) : /\ items[k].item = e.items[k].item
                                      /\ items[k].item = x => items[k].body = body
      /\ Kept(items, s, e.open)
  <2>1. x \in Names \ Closed(s)
    BY <1>3
  <2>2. Replaces(e.items, x, body, items) /\ Kept(items, s, e.open)
    BY <1>2, <1>4, <1>7, <1>8, <2>1, KeptReplace
  <2> QED
    BY <2>2 DEF Replaces
<1>10. o \in Emitter
  BY <1>1, <1>4, <1>9 DEF Emitter
<1>11. Owned(o)
  <2> SUFFICES ASSUME NEW y \in Heard(s) PROVE \E k \in 1 .. Len(items) : items[k].item = y
    BY <1>4 DEF Owned, items
  <2>1. PICK k \in 1 .. Len(e.items) : e.items[k].item = y
    BY DEF EmitterOK, Owned, s
  <2> QED
    BY <1>9, <2>1
<1>12. Running(o.run, o.items, o.sent)
  BY <1>4 DEF Running
<1>13. EmitterOK(o)
  BY <1>4, <1>9, <1>10, <1>11, <1>12 DEF EmitterOK, s, items
<1> QED
  BY <1>4, <1>7, <1>9, <1>13 DEF x, items, Merges

\* A tool that is open is completed as it is kept.
CompletedTool(e, t, body) ==
    [Send(e, "completed", ToolItem(t), body) EXCEPT !.open = @ \ {t}, !.ended = @ \cup {t}]

LEMMA ToolCompleted ==
    ASSUME NEW e, EmitterOK(e), e.run = NoRun, NEW t \in e.open, NEW body \in Bodies,
           \A k \in 1 .. Len(e.items) : e.items[k].item = ToolItem(t) => e.items[k].body = body,
           NEW o, o = CompletedTool(e, t, body)
    PROVE  /\ EmitterOK(o) /\ o.run = NoRun
           /\ o.tools = e.tools /\ o.open = e.open \ {t} /\ o.ended = e.ended \cup {t}
<1> DEFINE x == ToolItem(t)
           n == [note |-> "completed", item |-> x, body |-> body]
           s == e.sent
           a == o.sent
<1>1. e \in Emitter
  BY DEF EmitterOK
<1>2. /\ e.items \in Seq(Item) /\ s \in Seq(Note) /\ e.open \subseteq e.tools /\ e.tools \subseteq Tools
      /\ t \in Tools /\ e.ended \subseteq Tools
  BY <1>1 DEF EmitterOK, Emitter
<1>3. x \in ToolItems /\ n \in Note /\ x \in Heard(s) /\ x \notin Closed(s)
  BY <1>2, NamesApart DEF EmitterOK, Names, Note
<1>4. /\ a = Append(s, n) /\ o.run = NoRun /\ o.textSeq = e.textSeq /\ o.items = e.items
      /\ o.tools = e.tools /\ o.open = e.open \ {t} /\ o.ended = e.ended \cup {t}
      /\ o = [e EXCEPT !.sent = a, !.open = o.open, !.ended = o.ended]
  BY <1>1 DEF Emitter, Send, CompletedTool
<1>5. n.note = "completed" /\ n.item = x /\ n.body = body
  OBVIOUS
<1>6. o.open \subseteq o.tools /\ o.open \subseteq Tools /\ o.ended \subseteq Tools
  BY <1>2, <1>4
<1> HIDE DEF n, s, a
<1>7. Sends(s, n, a)
  BY <1>2, <1>3, <1>4, <1>5, Sending DEF Fits, EmitterOK, s
<1>8. /\ a \in Seq(Note) /\ Len(a) = Len(s) + 1 /\ Len(s) \in Nat
      /\ \A k \in 1 .. Len(s) : a[k] = s[k]
      /\ a[Len(s) + 1] = n
      /\ Streams(a)
  BY <1>7 DEF Sends
<1>9. \A y : y \in Heard(a) <=> y \in Heard(s)
  BY <1>3, <1>5, <1>7 DEF Sends
<1>10. \A y : y \in Closed(a) <=> y \in Closed(s) \/ y = x
  BY <1>5, <1>7 DEF Sends
<1>11. Kept(e.items, a, o.open)
  <2>1. Kept(e.items, s, e.open)
    BY DEF EmitterOK, s
  <2>2. n.note = "completed" =>
            \A k \in 1 .. Len(e.items) : e.items[k].item = n.item => e.items[k].body = n.body
    BY <1>5
  <2>3. \A u \in e.open : u \in o.open \/ (n.note = "completed" /\ ToolItem(u) = n.item)
    BY <1>4, <1>5
  <2>typed. e.items \in Seq(Item) /\ s \in Seq(Note) /\ n \in Note
    BY <1>2, <1>3
  <2>4. /\ n.note = "completed" => \A y : y \in Closed(a) <=> y \in Closed(s) \/ y = n.item
        /\ n.note # "completed" => \A y : y \in Closed(a) <=> y \in Closed(s)
    BY <1>5, <1>10
  <2> QED
    BY ONLY <1>8, <2>typed, <2>1, <2>2, <2>3, <2>4, KeptSending,
       SMTT(30)
<1>12. o \in Emitter
  BY <1>1, <1>4, <1>6, <1>8 DEF Emitter
<1>13. Owned(o)
  BY <1>4, <1>9 DEF EmitterOK, Owned, s, a
<1>14. \A y \in Heard(a) \cap TextItems : y[2] < e.textSeq
  BY <1>9 DEF EmitterOK, s
<1>15. \A u \in Tools : ToolItem(u) \in Heard(a) <=> u \in e.tools
  BY <1>9 DEF EmitterOK, s
<1>16. \A u \in o.open : ToolItem(u) \notin Closed(a)
  <2>1. \A u \in o.open : ToolItem(u) # x
    BY <1>2, <1>4, NamesApart
  <2> QED
    BY <1>4, <1>10, <2>1 DEF EmitterOK, s
<1>17. Running(o.run, o.items, o.sent)
  BY <1>4 DEF Running
<1>18. EmitterOK(o)
  BY <1>4, <1>6, <1>8, <1>11, <1>12, <1>13, <1>14, <1>15, <1>16, <1>17 DEF EmitterOK, a
<1> QED
  BY <1>4, <1>18

\* An update, of a tool that is open or has not been announced.
LEMMA ToolUpdated ==
    ASSUME NEW e, EmitterOK(e), e.run = NoRun,
           NEW n, n.tool \in Tools, n.tool \in e.tools => n.tool \in e.open, n.body \in Contents,
           NEW o, o = HandleToolCallUpdate(e, n)
    PROVE  /\ EmitterOK(o) /\ o.run = NoRun
           /\ o.tools = e.tools \cup {n.tool} /\ e.open \subseteq o.open \cup {n.tool}
           /\ n.tool \in o.open \/ n.terminal \/ n.tool \in e.ended
           /\ o.ended \subseteq e.ended \cup {n.tool}
           /\ n.tool \in o.ended => n.terminal \/ n.tool \in e.ended
<1> DEFINE t == n.tool
           a == IF t \in e.tools THEN e ELSE HandleToolCall(e, n)
           body == Append(BodyOf(a, ToolItem(t)), n.body)
           m == ReplaceItem(a, ToolItem(t), body)
<1>1. /\ EmitterOK(a) /\ a.run = NoRun /\ t \in a.open
      /\ a.tools = e.tools \cup {t} /\ e.open \subseteq a.open
      /\ a.ended \subseteq e.ended \cup {t}
      /\ t \in a.ended => n.terminal \/ t \in e.ended
  <2>1. CASE t \in e.tools
    BY <2>1
  <2>2. CASE t \notin e.tools
    <3> DEFINE h == HandleToolCall(e, n)
    <3>1. n.tool \in Tools \ e.tools
      BY <2>2
    <3>2. /\ EmitterOK(h) /\ h.run = NoRun
          /\ h.tools = e.tools \cup {n.tool} /\ h.open = e.open \cup {n.tool}
          /\ h.ended = e.ended \/ (n.terminal /\ h.ended = e.ended \cup {n.tool})
      BY <3>1, ToolAnnounced
    <3>3. a = h
      BY <2>2
    <3> HIDE DEF h, a
    <3> QED
      BY <3>2, <3>3
  <2> QED
    BY <2>1, <2>2
<1>2. o = IF n.terminal \/ t \in a.ended THEN CompletedTool(m, t, body) ELSE m
  BY DEF HandleToolCallUpdate, CompletedTool
<1> HIDE DEF a
<1>3. /\ EmitterOK(m) /\ m.run = NoRun
      /\ m.tools = a.tools /\ m.open = a.open /\ m.ended = a.ended
      /\ body \in Bodies
      /\ \A k \in 1 .. Len(m.items) : m.items[k].item = ToolItem(t) => m.items[k].body = body
  <2>1. Merges(a, t, body, m)
    BY <1>1, ToolMerged
  <2> QED
    BY <2>1 DEF Merges
<1> HIDE DEF m, body
<1>4. CASE n.terminal \/ t \in a.ended
  <2>1. o = CompletedTool(m, t, body) /\ t \in m.open
    BY <1>1, <1>2, <1>3, <1>4
  <2>2. /\ EmitterOK(o) /\ o.run = NoRun
        /\ o.tools = m.tools /\ o.open = m.open \ {t} /\ o.ended = m.ended \cup {t}
    BY <1>3, <2>1, ToolCompleted
  <2> QED
    BY <1>1, <1>3, <1>4, <2>2
<1>5. CASE ~(n.terminal \/ t \in a.ended)
  BY <1>1, <1>2, <1>3, <1>5
<1> QED
  BY <1>4, <1>5

-----------------------------------------------------------------------------
(* The end of a turn.                                                      *)

\* An order of a finite set has each of its members, once.
Orders(order, S) ==
    /\ Len(order) \in Nat /\ \A i \in 1 .. Len(order) : order[i] \in S
    /\ \A i, j \in 1 .. Len(order) : order[i] = order[j] => i = j
    /\ \A x \in S : \E i \in 1 .. Len(order) : order[i] = x

LEMMA Ordering ==
    ASSUME NEW S, IsFiniteSet(S), NEW order \in SetToSeqs(S)
    PROVE  Orders(order, S)
<1> DEFINE n == Cardinality(S)
           I == {order[i] : i \in 1 .. n}
<1>1. n \in Nat
  BY FS_CardinalityType
<1>2. order \in [1 .. n -> S] /\ \A i, j \in 1 .. n : i # j => order[i] # order[j]
  BY DEF SetToSeqs
<1> HIDE DEF n
<1>3. order \in Seq(S) /\ Len(order) = n
  BY <1>1, <1>2
<1>4. IsFiniteSet(1 .. n) /\ Cardinality(1 .. n) = n
  BY <1>1, FS_Interval
<1>5. order \in [1 .. n -> I]
  BY <1>2
<1>10. order \in Bijection(1 .. n, I)
  <2>1. order \in Injection(1 .. n, I)
    BY <1>2, <1>5 DEF Injection, IsInjective
  <2>2. order \in Surjection(1 .. n, I)
    BY <1>5 DEF Surjection
  <2> QED
    BY <2>1, <2>2 DEF Bijection
<1>6. ExistsBijection(1 .. n, I)
  BY <1>10 DEF ExistsBijection
<1>7. Cardinality(I) = n
  BY <1>4, <1>6, FS_Bijection
<1>8. I \in SUBSET S
  BY <1>2
<1>9. S = I
  BY <1>7, <1>8, FS_Subset DEF n
<1> QED
  BY <1>1, <1>2, <1>3, <1>9 DEF Orders

Joins(S, s, t, a) ==
    /\ a \in Seq(S) /\ Len(a) = Len(s) + Len(t)
    /\ \A k \in 1 .. Len(s) : a[k] = s[k]
    /\ \A k \in 1 .. Len(t) : a[Len(s) + k] = t[k]

LEMMA Joining ==
    ASSUME NEW S, NEW s \in Seq(S), NEW t \in Seq(S)
    PROVE  Joins(S, s, t, s \o t)
<1>1. /\ s \o t \in Seq(S) /\ Len(s \o t) = Len(s) + Len(t)
      /\ \A k \in 1 .. Len(s) : (s \o t)[k] = s[k]
  OBVIOUS
<1>2. ASSUME NEW k \in 1 .. Len(t) PROVE (s \o t)[Len(s) + k] = t[k]
  <2>1. /\ Len(s) + k \in 1 .. Len(s) + Len(t) /\ ~(Len(s) + k <= Len(s))
        /\ (Len(s) + k) - Len(s) = k
    OBVIOUS
  <2> QED
    BY <2>1
<1> QED
  BY <1>1, <1>2 DEF Joins

\* What StoredAsStreamed says of a turn.
Stored(items, s) ==
    /\ \A x \in Heard(s) : \E k \in 1 .. Len(items) : items[k].item = x
    /\ \A k \in 1 .. Len(items) : \E j \in 1 .. Len(s) : Completes(s[j], items[k])
    /\ \A k, l \in 1 .. Len(items) : k < l =>
           \E i, j \in 1 .. Len(s) :
               i < j /\ IsStart(s[i], items[k].item) /\ IsStart(s[j], items[l].item)

Ends(o) ==
    /\ o.items \in Seq(Item) /\ o.sent \in Seq(Note)
    /\ Streams(o.sent) /\ Stored(o.items, o.sent)

\* The tools that are open are completed, and with them all that is kept.
LEMMA AllCompleted ==
    ASSUME NEW e, EmitterOK(e), e.run = NoRun, IsFiniteSet(e.open),
           NEW order \in SetToSeqs(e.open), NEW o, o = CompleteAll(e, order)
    PROVE  Ends(o)
<1> DEFINE s == e.sent
           a == o.sent
           n == Len(order)
           m == Len(s)
           items == e.items
           end == [k \in 1 .. n |-> [note |-> "completed", item |-> ToolItem(order[k]),
                                     body |-> BodyOf(e, ToolItem(order[k]))]]
<1>1. e \in Emitter
  BY DEF EmitterOK
<1>2. /\ items \in Seq(Item) /\ s \in Seq(Note) /\ e.open \subseteq e.tools /\ e.tools \subseteq Tools
      /\ m \in Nat
  BY <1>1 DEF EmitterOK, Emitter
<1>3. a = s \o end /\ o.items = items
  BY <1>1 DEF Emitter, CompleteAll
<1>4. /\ \A k \in 1 .. n : order[k] \in e.open
      /\ \A i, j \in 1 .. n : order[i] = order[j] => i = j
      /\ \A t \in e.open : \E i \in 1 .. n : order[i] = t
      /\ n \in Nat
  BY Ordering DEF Orders
<1> HIDE DEF n, m, items
<1>5. \A t \in e.open : \E k \in 1 .. Len(items) : /\ items[k].item = ToolItem(t)
                                                  /\ items[k].body = BodyOf(e, ToolItem(t))
  <2> SUFFICES ASSUME NEW t \in e.open
               PROVE  \E k \in 1 .. Len(items) : /\ items[k].item = ToolItem(t)
                                                 /\ items[k].body = BodyOf(e, ToolItem(t))
    OBVIOUS
  <2>1. ToolItem(t) \in Heard(s)
    BY <1>2 DEF EmitterOK
  <2>2. PICK k \in 1 .. Len(items) : items[k].item = ToolItem(t)
    BY <2>1 DEF EmitterOK, Owned, items
  <2>3. \A l \in 1 .. Len(e.items) : e.items[l].item = e.items[k].item => l = k
    BY DEF EmitterOK, Kept, items
  <2>4. BodyOf(e, e.items[k].item) = e.items[k].body
    BY <1>2, <2>3, BodyKept DEF items
  <2> QED
    BY <2>2, <2>4 DEF items
<1>6. \A k \in 1 .. n : end[k] \in Note
  <2> SUFFICES ASSUME NEW k \in 1 .. n PROVE end[k] \in Note
    OBVIOUS
  <2>1. PICK l \in 1 .. Len(items) : items[l].body = BodyOf(e, ToolItem(order[k]))
    BY <1>4, <1>5
  <2>2. items[l] \in Item
    BY <1>2
  <2>3. ToolItem(order[k]) \in Names /\ BodyOf(e, ToolItem(order[k])) \in Bodies
    BY <1>2, <1>4, <2>1, <2>2, NamesApart DEF Names, Item
  <2>4. end[k] = [note |-> "completed", item |-> ToolItem(order[k]),
                  body |-> BodyOf(e, ToolItem(order[k]))]
    OBVIOUS
  <2> HIDE DEF end
  <2>5. \A x \in Names, b \in Bodies : [note |-> "completed", item |-> x, body |-> b] \in Note
    BY DEF Note
  <2> QED
    BY <2>3, <2>4, <2>5
<1>7. end \in Seq(Note) /\ Len(end) = n
  BY <1>4, <1>6
<1>8. \A k \in 1 .. n : /\ end[k].note = "completed" /\ end[k].item = ToolItem(order[k])
                        /\ end[k].body = BodyOf(e, ToolItem(order[k]))
  OBVIOUS
<1> HIDE DEF end
<1>9. /\ a \in Seq(Note) /\ Len(a) = m + n
      /\ \A k \in 1 .. m : a[k] = s[k]
      /\ \A k \in 1 .. n : a[m + k] = end[k]
  <2>1. Joins(Note, s, end, a)
    BY <1>2, <1>3, <1>7, Joining
  <2> QED
    BY <1>7, <2>1 DEF Joins, m
<1>10. \A k \in 1 .. m + n : k \in 1 .. m \/ \E l \in 1 .. n : k = m + l
  <2> SUFFICES ASSUME NEW k \in 1 .. m + n, k \notin 1 .. m PROVE \E l \in 1 .. n : k = m + l
    OBVIOUS
  <2>1. k - m \in 1 .. n /\ k = m + (k - m)
    BY <1>2, <1>4
  <2> QED
    BY <2>1
<1>11. 1 .. m \subseteq 1 .. m + n /\ \A l \in 1 .. n : m + l \in 1 .. m + n
  BY <1>2, <1>4
<1> HIDE DEF s, a
<1>12. \A k \in 1 .. n : ToolItem(order[k]) \in Heard(s) \ Closed(s)
  BY <1>2, <1>4 DEF EmitterOK, s
<1>13. Streams(a)
  <2> SUFFICES ASSUME NEW k \in 1 .. m + n
               PROVE  /\ a[k].note = "started" <=> {j \in 1 .. k - 1 : a[j].item = a[k].item} = {}
                      /\ \A j \in {j \in 1 .. k - 1 : a[j].item = a[k].item} :
                            a[j].note # "completed"
    BY <1>9 DEF Streams
  <2>1. CASE k \in 1 .. m
    <3>1. \A j \in 1 .. k - 1 : j \in 1 .. m /\ a[j] = s[j]
      BY <1>2, <1>9, <2>1
    <3>2. a[k] = s[k]
      BY <1>9, <2>1
    <3>3. {j \in 1 .. k - 1 : a[j].item = a[k].item} = {j \in 1 .. k - 1 : s[j].item = s[k].item}
      BY <3>1, <3>2
    <3>4. Streams(s)
      BY DEF EmitterOK, s
    <3> QED
      BY <2>1, <3>1, <3>2, <3>3, <3>4 DEF Streams, m
  <2>2. ASSUME NEW l \in 1 .. n, k = m + l
        PROVE  /\ a[k].note = "started" <=> {j \in 1 .. k - 1 : a[j].item = a[k].item} = {}
               /\ \A j \in {j \in 1 .. k - 1 : a[j].item = a[k].item} :
                     a[j].note # "completed"
    <3>1. a[k].note = "completed" /\ a[k].item = ToolItem(order[l])
      BY <1>8, <1>9, <2>2
    <3>2. PICK i \in 1 .. m : s[i].item = ToolItem(order[l])
      BY <1>12 DEF Heard, m
    <3>3. i \in 1 .. k - 1 /\ a[i].item = a[k].item
      BY <1>2, <1>9, <2>2, <3>1, <3>2
    <3>4. ASSUME NEW j \in 1 .. k - 1, a[j].item = a[k].item PROVE a[j].note # "completed"
      <4>1. CASE j \in 1 .. m
        <5>1. s[j].item = ToolItem(order[l]) /\ a[j].note = s[j].note
          BY <1>9, <3>1, <3>4, <4>1
        <5> QED
          BY <1>12, <4>1, <5>1 DEF Closed, m
      <4>2. ASSUME NEW g \in 1 .. n, j = m + g PROVE FALSE
        <5>1. a[j].item = ToolItem(order[g]) /\ g # l
          BY <1>2, <1>8, <1>9, <2>2, <4>2
        <5>2. order[g] \in Tools /\ order[l] \in Tools /\ ToolItem(order[g]) = ToolItem(order[l])
          BY <1>2, <1>4, <3>1, <3>4, <5>1
        <5>3. order[g] = order[l]
          BY <5>2, NamesApart
        <5> QED
          BY <1>4, <5>1, <5>3
      <4>3. j \in 1 .. m + n
        BY <1>2, <1>4
      <4> QED
        BY <1>10, <4>1, <4>2, <4>3
    <3> QED
      BY <3>1, <3>3, <3>4
  <2> QED
    BY <1>10, <2>1, <2>2
<1>14. Stored(items, a)
  <2>1. \A x \in Heard(a) : \E k \in 1 .. Len(items) : items[k].item = x
    <3> SUFFICES ASSUME NEW j \in 1 .. m + n
                 PROVE  \E k \in 1 .. Len(items) : items[k].item = a[j].item
      BY <1>9 DEF Heard
    <3>1. CASE j \in 1 .. m
      <4>1. a[j].item \in Heard(s)
        BY <1>9, <3>1 DEF Heard, m
      <4> QED
        BY <4>1 DEF EmitterOK, Owned, s, items
    <3>2. ASSUME NEW l \in 1 .. n, j = m + l
          PROVE  \E k \in 1 .. Len(items) : items[k].item = a[j].item
      <4>1. a[j].item = ToolItem(order[l]) /\ order[l] \in e.open
        BY <1>4, <1>8, <1>9, <3>2
      <4> QED
        BY <1>5, <4>1
    <3> QED
      BY <1>10, <3>1, <3>2
  <2>2. ASSUME NEW k \in 1 .. Len(items) PROVE \E j \in 1 .. Len(a) : Completes(a[j], items[k])
    <3>1. CASE items[k].item \in Closed(s)
      <4>1. PICK j \in 1 .. m : Completes(s[j], items[k])
        BY <3>1 DEF EmitterOK, Kept, s, m, items
      <4>2. a[j] = s[j] /\ j \in 1 .. Len(a)
        BY <1>9, <1>11
      <4> QED
        BY <4>1, <4>2
    <3>2. CASE items[k].item \notin Closed(s)
      <4>1. PICK t \in e.open : items[k].item = ToolItem(t)
        BY <3>2 DEF EmitterOK, Kept, s, items
      <4>2. PICK i \in 1 .. n : order[i] = t
        BY <1>4
      <4>3. PICK l \in 1 .. Len(items) : /\ items[l].item = ToolItem(t)
                                         /\ items[l].body = BodyOf(e, ToolItem(t))
        BY <1>5
      <4>4. l = k
        BY <4>1, <4>3 DEF EmitterOK, Kept, items
      <4>5. Completes(a[m + i], items[k]) /\ m + i \in 1 .. Len(a)
        BY <1>8, <1>9, <1>11, <4>1, <4>2, <4>3, <4>4 DEF Completes
      <4> QED
        BY <4>5
    <3> QED
      BY <3>1, <3>2
  <2>3. ASSUME NEW k \in 1 .. Len(items), NEW l \in 1 .. Len(items), k < l
        PROVE  \E i, j \in 1 .. Len(a) :
                   i < j /\ IsStart(a[i], items[k].item) /\ IsStart(a[j], items[l].item)
    <3>1. PICK i \in 1 .. m, j \in 1 .. m :
              i < j /\ IsStart(s[i], items[k].item) /\ IsStart(s[j], items[l].item)
      BY <2>3 DEF EmitterOK, Kept, s, m, items
    <3>2. a[i] = s[i] /\ a[j] = s[j] /\ i \in 1 .. Len(a) /\ j \in 1 .. Len(a)
      BY <1>9, <1>11
    <3> QED
      BY <3>1, <3>2
  <2> QED
    BY <2>1, <2>2, <2>3 DEF Stored
<1> QED
  BY <1>2, <1>3, <1>9, <1>13, <1>14 DEF a, items, Ends

LEMMA Finishing ==
    ASSUME NEW e, EmitterOK(e), IsFiniteSet(e.open), NEW order \in SetToSeqs(e.open),
           NEW o, o = Finish(e, order)
    PROVE  Ends(o)
<1> DEFINE f == FlushText(e)
<1>1. EmitterOK(f) /\ f.run = NoRun /\ f.open = e.open
  BY Flushing
<1>2. o = CompleteAll(f, order)
  BY DEF Finish
<1> HIDE DEF f
<1> QED
  BY <1>1, <1>2, AllCompleted

-----------------------------------------------------------------------------
(* What the emitter keeps of the tools, of the notes it was given.         *)

OfTool(r, j, t) == About(Script[r][j], t)

\* Of the first m notes of a script: every tool has one, one that has ended a note that
\* says so, and one that was completed an update that finds it ended.
Tracks(e, r, m) ==
    /\ \A t \in e.tools : \E j \in 1 .. m : OfTool(r, j, t)
    /\ \A t \in e.ended : \E j \in 1 .. m : OfTool(r, j, t) /\ Script[r][j].terminal
    /\ \A t \in e.tools \ e.open :
          \E i, j \in 1 .. m :
              /\ Script[r][j].kind = "tool_call_update" /\ Script[r][j].tool = t /\ i <= j
              /\ OfTool(r, i, t) /\ Script[r][i].terminal

\* The tools that are open are as many as the notes at most.
LEMMA TracksFinite ==
    ASSUME NEW e, NEW r, NEW m \in Nat, Tracks(e, r, m), e.open \subseteq e.tools
    PROVE  IsFiniteSet(e.open)
<1> DEFINE T == {Script[r][j].tool : j \in 1 .. m}
<1>0. 1 \in Int /\ m \in Int
  OBVIOUS
<1>1. IsFiniteSet(1 .. m)
  BY <1>0, FS_Interval
<1>2. IsFiniteSet(T)
  <2> DEFINE toolOf == [j \in 1 .. m |-> Script[r][j].tool]
  <2>1. toolOf \in [1 .. m -> T]
    OBVIOUS
  <2>2. \A t \in T : \E j \in 1 .. m : toolOf[j] = t
    OBVIOUS
  <2>3. toolOf \in Surjection(1 .. m, T)
    BY <2>1, <2>2 DEF Surjection
  <2> HIDE DEF toolOf
  <2> QED
    BY <1>1, <2>3, FS_Surjection
<1>3. e.open \in SUBSET T
  BY DEF Tracks, OfTool, About
<1> QED
  BY <1>2, <1>3, FS_Subset

\* One more note, that is of no tool.
LEMMA TracksText ==
    ASSUME NEW e, NEW o, NEW r, NEW m \in Nat, Tracks(e, r, m),
           o.tools = e.tools, o.open = e.open, o.ended = e.ended
    PROVE  Tracks(o, r, m + 1)
<1>1. 1 .. m \subseteq 1 .. m + 1
  OBVIOUS
<1>2. \A t \in o.tools : \E j \in 1 .. m + 1 : OfTool(r, j, t)
  BY <1>1 DEF Tracks
<1>3. \A t \in o.ended : \E j \in 1 .. m + 1 : OfTool(r, j, t) /\ Script[r][j].terminal
  BY <1>1 DEF Tracks
<1>4. ASSUME NEW t \in o.tools \ o.open
      PROVE  \E i, j \in 1 .. m + 1 :
                 /\ Script[r][j].kind = "tool_call_update" /\ Script[r][j].tool = t /\ i <= j
                 /\ OfTool(r, i, t) /\ Script[r][i].terminal
  BY <1>1, <1>4 DEF Tracks
<1> QED
  BY <1>2, <1>3, <1>4 DEF Tracks

\* One more, of a tool that may be open then, or was found ended.
LEMMA TracksTool ==
    ASSUME NEW e, NEW o, NEW r, NEW m \in Nat, Tracks(e, r, m),
           NEW n, n = Script[r][m + 1], n.kind \in {"tool_call", "tool_call_update"},
           o.tools = e.tools \cup {n.tool}, e.open \subseteq o.open \cup {n.tool},
           o.ended \subseteq e.ended \cup {n.tool},
           n.tool \in o.ended => n.terminal \/ n.tool \in e.ended,
           n.tool \in o.open \/ (n.kind = "tool_call_update" /\ (n.terminal \/ n.tool \in e.ended))
    PROVE  Tracks(o, r, m + 1)
<1>1. 1 .. m \subseteq 1 .. m + 1 /\ m + 1 \in 1 .. m + 1 /\ \A j \in 1 .. m : j <= m + 1
  OBVIOUS
<1>2. OfTool(r, m + 1, n.tool)
  BY DEF OfTool, About
<1>3. \A t \in o.tools : \E j \in 1 .. m + 1 : OfTool(r, j, t)
  BY <1>1, <1>2 DEF Tracks
<1>4. ASSUME NEW t, t \in e.ended \/ (t = n.tool /\ n.terminal)
      PROVE  \E j \in 1 .. m + 1 : OfTool(r, j, t) /\ Script[r][j].terminal
  BY <1>1, <1>2, <1>4 DEF Tracks
<1>5. \A t \in o.ended : \E j \in 1 .. m + 1 : OfTool(r, j, t) /\ Script[r][j].terminal
  BY <1>4
<1>6. ASSUME NEW t \in o.tools \ o.open
      PROVE  \E i, j \in 1 .. m + 1 :
                 /\ Script[r][j].kind = "tool_call_update" /\ Script[r][j].tool = t /\ i <= j
                 /\ OfTool(r, i, t) /\ Script[r][i].terminal
  <2>1. CASE t = n.tool
    <3>1. n.kind = "tool_call_update" /\ (n.terminal \/ n.tool \in e.ended)
      BY <1>6, <2>1
    <3>2. PICK i \in 1 .. m + 1 : OfTool(r, i, t) /\ Script[r][i].terminal
      BY <1>4, <2>1, <3>1
    <3>3. i <= m + 1
      OBVIOUS
    <3> QED
      BY <1>1, <2>1, <3>1, <3>2, <3>3
  <2>2. CASE t # n.tool
    <3>1. t \in e.tools \ e.open
      BY <1>6, <2>2
    <3> QED
      BY <1>1, <3>1 DEF Tracks
  <2> QED
    BY <2>1, <2>2
<1> QED
  BY <1>3, <1>5, <1>6 DEF Tracks

LEMMA Ingesting ==
    ASSUME NEW r \in Requests, NEW m \in Nat, m + 1 \in 1 .. Len(Script[r]),
           NEW e, EmitterOK(e), Tracks(e, r, m),
           NEW n, n = Script[r][m + 1], NEW o, o = Ingest(e, n)
    PROVE  EmitterOK(o) /\ Tracks(o, r, m + 1)
<1> DEFINE f == FlushText(e)
<1>1. n.body \in Contents /\ n.tool \in Tools
  <2>1. Script[r][m + 1].body \in {Script[r][k].body : k \in 1 .. Len(Script[r])}
    OBVIOUS
  <2>2. Script[r][m + 1].tool \in {Script[r][k].tool : k \in 1 .. Len(Script[r])}
    OBVIOUS
  <2> QED
    BY <2>1, <2>2 DEF Contents, Tools
<1>2. /\ EmitterOK(f) /\ f.run = NoRun
      /\ f.tools = e.tools /\ f.open = e.open /\ f.ended = e.ended
  BY Flushing
<1> HIDE DEF f
<1>3. Tracks(f, r, m)
  BY <1>2 DEF Tracks
<1>4. \A j \in 1 .. m : j \in 1 .. Len(Script[r]) /\ j < m + 1
  <2>1. Len(Script[r]) \in Nat
    BY AgentAssumption
  <2> QED
    BY <2>1
<1>5. CASE n.kind \in TextKinds
  <2>1. o = HandleText(e, n)
    BY <1>5 DEF Ingest, TextKinds
  <2>2. EmitterOK(o) /\ o.tools = e.tools /\ o.open = e.open /\ o.ended = e.ended
    BY <1>1, <1>5, <2>1, TextHandled
  <2> QED
    BY <2>2, TracksText
<1>6. CASE n.kind = "tool_call"
  <2>1. o = HandleToolCall(f, n)
    BY <1>6 DEF Ingest, f, TextKinds
  <2>2. n.tool \notin f.tools
    <3> SUFFICES ASSUME n.tool \in f.tools PROVE FALSE
      OBVIOUS
    <3>1. PICK j \in 1 .. m : About(Script[r][j], n.tool)
      BY <1>3 DEF Tracks, OfTool
    <3> QED
      BY <1>4, <1>6, <3>1, AgentAssumption
  <2>3. /\ EmitterOK(o)
        /\ o.tools = f.tools \cup {n.tool} /\ o.open = f.open \cup {n.tool}
        /\ o.ended = f.ended \/ (n.terminal /\ o.ended = f.ended \cup {n.tool})
    BY <1>1, <1>2, <2>1, <2>2, ToolAnnounced
  <2>4. /\ n.kind \in {"tool_call", "tool_call_update"} /\ f.open \subseteq o.open \cup {n.tool}
        /\ o.ended \subseteq f.ended \cup {n.tool}
        /\ n.tool \in o.ended => n.terminal \/ n.tool \in f.ended
        /\ n.tool \in o.open
    BY <1>6, <2>3
  <2> QED
    BY <1>3, <2>3, <2>4, TracksTool
<1>7. CASE n.kind = "tool_call_update"
  <2>1. o = HandleToolCallUpdate(f, n)
    BY <1>7 DEF Ingest, f, TextKinds
  <2>2. n.tool \in f.tools => n.tool \in f.open
    <3> SUFFICES ASSUME n.tool \in f.tools \ f.open PROVE FALSE
      OBVIOUS
    <3>1. PICK i \in 1 .. m, j \in 1 .. m :
              /\ Script[r][j].kind = "tool_call_update" /\ Script[r][j].tool = n.tool /\ i <= j
              /\ About(Script[r][i], n.tool) /\ Script[r][i].terminal
      BY <1>3 DEF Tracks, OfTool
    <3>2. ~About(Script[r][m + 1], Script[r][j].tool)
      BY <1>4, <3>1, AgentAssumption
    <3> QED
      BY <1>7, <3>1, <3>2 DEF About
  <2>3. /\ EmitterOK(o)
        /\ o.tools = f.tools \cup {n.tool} /\ f.open \subseteq o.open \cup {n.tool}
        /\ n.tool \in o.open \/ n.terminal \/ n.tool \in f.ended
        /\ o.ended \subseteq f.ended \cup {n.tool}
        /\ n.tool \in o.ended => n.terminal \/ n.tool \in f.ended
    BY <1>1, <1>2, <2>1, <2>2, ToolUpdated
  <2>4. /\ n.kind \in {"tool_call", "tool_call_update"}
        /\ n.tool \in o.open \/ (n.kind = "tool_call_update" /\ (n.terminal \/ n.tool \in f.ended))
    BY <1>7, <2>3
  <2> QED
    BY <1>3, <2>3, <2>4, TracksTool
<1>8. CASE n.kind \in {"user", "plan"}
  <2>1. o = f
    BY <1>8 DEF Ingest, f, TextKinds
  <2> QED
    BY <1>2, <1>3, <2>1, TracksText
<1>9. CASE n.kind \notin TextKinds \cup {"tool_call", "tool_call_update", "user", "plan"}
  <2>1. o = e
    BY <1>9 DEF Ingest
  <2> QED
    BY <2>1, TracksText
<1> QED
  BY <1>5, <1>6, <1>7, <1>8, <1>9

-----------------------------------------------------------------------------
(* The bridge: the emitter of a turn gets what the agent said for its      *)
(* prompt, and the turn is completed from it.                              *)

\* A notification that was said is one of the script.
Spoken(f) == f.kind = "note" => f.at \in 1 .. Len(Script[f.of])

Legit ==
    /\ \A c \in Clients : \A k \in 1 .. Len(pipe[c]) : Spoken(pipe[c][k])
    /\ \A r \in Requests : \A k \in 1 .. Len(channel[r]) : Spoken(channel[r][k])

Emitting ==
    /\ DOMAIN emitter = Requests /\ DOMAIN payload = Requests
    /\ \A r \in Prompts : EmitterOK(emitter[r]) /\ Tracks(emitter[r], r, Len(heard[r]))
    /\ \A r \in Prompts : Completed(r) =>
          \E order \in SetToSeqs(emitter[r].open) : payload[r] = <<Finish(emitter[r], order)>>

LEMMA SpokenTail ==
    ASSUME NEW s \in Seq(Frame), s # <<>>, \A k \in 1 .. Len(s) : Spoken(s[k])
    PROVE  Spoken(Head(s)) /\ \A k \in 1 .. Len(Tail(s)) : Spoken(Tail(s)[k])
<1>1. /\ Len(s) \in Nat \ {0} /\ Len(Tail(s)) = Len(s) - 1
      /\ \A k \in 1 .. Len(s) - 1 : Tail(s)[k] = s[k + 1]
      /\ Head(s) = s[1]
  BY Taking
<1>2. 1 \in 1 .. Len(s) /\ \A k \in 1 .. Len(s) - 1 : k + 1 \in 1 .. Len(s)
  BY <1>1
<1> QED
  BY <1>1, <1>2

LEMMA SpokenAppend ==
    ASSUME NEW s \in Seq(Frame), NEW f \in Frame, Spoken(f), \A k \in 1 .. Len(s) : Spoken(s[k])
    PROVE  \A k \in 1 .. Len(Append(s, f)) : Spoken(Append(s, f)[k])
<1>1. /\ Len(Append(s, f)) = Len(s) + 1 /\ Len(s) \in Nat
      /\ \A k \in 1 .. Len(s) : Append(s, f)[k] = s[k]
      /\ Append(s, f)[Len(s) + 1] = f
  BY Appending
<1>2. \A k \in 1 .. Len(s) + 1 : k \in 1 .. Len(s) \/ k = Len(s) + 1
  BY <1>1
<1> QED
  BY <1>1, <1>2

LEMMA LegitStep == AcpInv /\ Legit /\ [Next]_vars => Legit'
<1> SUFFICES ASSUME AcpInv, Legit, [Next]_vars PROVE Legit'
  OBVIOUS
<1> USE DEF vars, poolVars, agentVars, innerVars, streamVars, bridgeVars
<1>0. /\ \A c \in Clients : pipe[c] \in Seq(Frame)
      /\ \A r \in Requests : channel[r] \in Seq(Frame) /\ position[r] \in Nat
      /\ pipe \in [Clients -> Seq(Frame)] /\ channel \in [Requests -> Seq(Frame)]
  BY DEF AcpInv, TypeOK
<1>1. ASSUME UNCHANGED <<pipe, channel>> PROVE Legit'
  BY <1>1 DEF Legit
<1>2. ASSUME NEW r \in Requests, GetClient(r) \/ Handler(r) PROVE Legit'
  <2>1. UNCHANGED <<pipe, channel>>
    BY <1>2 DEF GetClient, Handler, CheckCapacity, Insert, SpawnFails, Enqueue, Register, Write,
                WriteFails, Resume, ReturnError, Return, Discard, Complete, AppendTurn,
                TakePending, GetTurns, SetTurns
  <2> QED
    BY <1>1, <2>1
<1>3. ASSUME NEW r \in Requests, Consume(r) PROVE Legit'
  <2>1. channel[r] # <<>> /\ channel' = [channel EXCEPT ![r] = Tail(channel[r])]
        /\ UNCHANGED pipe
    BY <1>3 DEF Consume
  <2>2. \A k \in 1 .. Len(Tail(channel[r])) : Spoken(Tail(channel[r])[k])
    BY <1>0, <2>1, SpokenTail DEF Legit
  <2> QED
    BY <1>0, <2>1, <2>2 DEF Legit
<1>4. ASSUME NEW j \in Keys, RemoveClient(j) PROVE Legit'
  <2>1. /\ pipe' = [pipe EXCEPT ![pool[j]] = <<>>] /\ UNCHANGED channel
    BY <1>4 DEF RemoveClient
  <2>2. \A c \in Clients : pipe'[c] = pipe[c] \/ Len(pipe'[c]) = 0
    BY <1>0, <2>1
  <2> QED
    BY <2>1, <2>2 DEF Legit
<1>5. ASSUME NEW c \in Clients, Kill(c) \/ AgentExits(c) \/ Eof(c) PROVE Legit'
  BY <1>1, <1>5 DEF Kill, AgentExits, AgentGone, Eof
<1>6. ASSUME NEW c \in Clients, AgentSays(c) PROVE Legit'
  <2> DEFINE h == working[c]
             f == NoteFrame(h, position[h] + 1)
  <2>1. /\ h \in Requests /\ position[h] < Len(Script[h])
        /\ pipe' = [pipe EXCEPT ![c] = Append(pipe[c], f)] /\ UNCHANGED channel
    BY <1>0, <1>6 DEF AgentSays, AcpInv, TypeOK, NoteFrame
  <2>2. position[h] + 1 \in 1 .. Len(Script[h])
    <3>1. Len(Script[h]) \in Nat /\ position[h] \in Nat
      BY <1>0, <2>1, AgentAssumption
    <3> QED
      BY <2>1, <3>1
  <2>3. f \in Frame /\ Spoken(f)
    BY <1>0, <2>1, <2>2 DEF Frame, NoteFrame, Spoken
  <2> HIDE DEF f, h
  <2>4. \A k \in 1 .. Len(Append(pipe[c], f)) : Spoken(Append(pipe[c], f)[k])
    BY <1>0, <2>3, SpokenAppend DEF Legit
  <2> QED
    BY <1>0, <2>1, <2>4 DEF Legit
<1>7. ASSUME NEW c \in Clients, AgentAnswers(c) PROVE Legit'
  <2>1. PICK kind \in {"ok", "error"} :
            pipe' = [pipe EXCEPT ![c] = Append(pipe[c],
                                              [kind |-> kind, of |-> working[c], at |-> 0])]
    BY <1>0, <1>7 DEF AgentAnswers
  <2> DEFINE f == [kind |-> kind, of |-> working[c], at |-> 0]
  <2>2. f \in Frame /\ Spoken(f) /\ UNCHANGED channel
    BY <1>7 DEF AgentAnswers, AcpInv, TypeOK, Frame, Spoken
  <2> HIDE DEF f
  <2>3. \A k \in 1 .. Len(Append(pipe[c], f)) : Spoken(Append(pipe[c], f)[k])
    BY <1>0, <2>2, SpokenAppend DEF Legit
  <2>4. pipe' = [pipe EXCEPT ![c] = Append(pipe[c], f)]
    BY <2>1 DEF f
  <2> QED
    BY <1>0, <2>2, <2>3, <2>4 DEF Legit
<1>8. ASSUME NEW c \in Clients, Read(c) PROVE Legit'
  <2> DEFINE f == Head(pipe[c])
             h == subscriber[c]
  <2>1. /\ pipe[c] # <<>> /\ pipe' = [pipe EXCEPT ![c] = Tail(pipe[c])]
        /\ channel' = channel \/ channel' = [channel EXCEPT ![h] = Append(channel[h], f)]
    BY <1>0, <1>8 DEF Read, Dispatch, AcpInv, TypeOK
  <2>2. f \in Frame /\ Spoken(f) /\ \A k \in 1 .. Len(Tail(pipe[c])) : Spoken(Tail(pipe[c])[k])
    BY <1>0, <2>1, SpokenTail, Taking DEF Legit
  <2> HIDE DEF f, h
  <2>3. \A d \in Clients : \A k \in 1 .. Len(pipe'[d]) : Spoken(pipe'[d][k])
    BY <1>0, <2>1, <2>2 DEF Legit
  <2>4. \A r \in Requests : \A k \in 1 .. Len(channel'[r]) : Spoken(channel'[r][k])
    <3> SUFFICES ASSUME NEW r \in Requests
                 PROVE  \A k \in 1 .. Len(channel'[r]) : Spoken(channel'[r][k])
      OBVIOUS
    <3>1. \A k \in 1 .. Len(Append(channel[r], f)) : Spoken(Append(channel[r], f)[k])
      BY <1>0, <2>2, SpokenAppend DEF Legit
    <3>2. channel'[r] = channel[r] \/ channel'[r] = Append(channel[r], f)
      BY <1>0, <2>1
    <3> QED
      BY <3>1, <3>2 DEF Legit
  <2> QED
    BY <2>3, <2>4 DEF Legit
<1>9. CASE UNCHANGED vars
  BY <1>1, <1>9
<1> QED
  BY <1>2, <1>3, <1>4, <1>5, <1>6, <1>7, <1>8, <1>9 DEF Next

\* Nothing is sent yet.
LEMMA FreshEmitter ==
    ASSUME NEW r
    PROVE  EmitterOK(Fresh) /\ Tracks(Fresh, r, 0)
<1>1. /\ Fresh.items = <<>> /\ Fresh.sent = <<>> /\ Fresh.run = NoRun /\ Fresh.textSeq = 0
      /\ Fresh.accumulated = <<>> /\ Fresh.tools = {} /\ Fresh.open = {} /\ Fresh.ended = {}
  BY DEF Fresh
<1>2. <<>> \in Seq(Item) /\ <<>> \in Seq(Note)
  OBVIOUS
<1>3. Fresh \in Emitter
  BY <1>2, BodiesGrow DEF Emitter, Fresh
<1> DEFINE s == <<>>
<1>4. Len(s) = 0 /\ 1 .. Len(s) = {}
  OBVIOUS
<1> HIDE DEF s
<1>5. Heard(s) = {} /\ Closed(s) = {}
  BY <1>4 DEF Heard, Closed
<1>6. Streams(s) /\ Kept(s, s, {})
  BY <1>4 DEF Streams, Kept
<1>7. Owned(Fresh)
  BY <1>1, <1>5 DEF Owned, s
<1>8. EmitterOK(Fresh)
  BY <1>1, <1>3, <1>5, <1>6, <1>7 DEF EmitterOK, Running, s
<1>9. Tracks(Fresh, r, 0)
  BY <1>1 DEF Tracks
<1> QED
  BY <1>8, <1>9

\* What a step does for a turn: nothing to its items, or one of three things.
Spared(r) ==
    /\ emitter'[r] = emitter[r] /\ heard'[r] = heard[r] /\ payload'[r] = payload[r]
    /\ Completed(r)' => Completed(r)

Consumed(r) ==
    /\ channel[r] # <<>> /\ ~Completed(r)'
    /\ emitter'[r] = Ingest(emitter[r], NoteOf(Head(channel[r])))
    /\ heard'[r] = Append(heard[r], Head(channel[r]))

Left(r) == emitter'[r] = Fresh /\ heard'[r] = <<>> /\ ~Completed(r)'

Paid(r) ==
    /\ emitter'[r] = emitter[r] /\ heard'[r] = heard[r]
    /\ \E order \in SetToSeqs(emitter[r].open) : payload'[r] = <<Finish(emitter[r], order)>>

LEMMA WhatBefalls ==
    ASSUME AcpInv, DOMAIN emitter = Requests, DOMAIN payload = Requests, [Next]_vars
    PROVE  /\ DOMAIN emitter' = Requests /\ DOMAIN payload' = Requests
           /\ \A r \in Requests : Spared(r) \/ Consumed(r) \/ Left(r) \/ Paid(r)
<1> DEFINE Domains == DOMAIN emitter' = Requests /\ DOMAIN payload' = Requests
           Each == \A r \in Requests : Spared(r) \/ Consumed(r) \/ Left(r) \/ Paid(r)
<1> SUFFICES Domains /\ Each
  OBVIOUS
<1> USE DEF vars, poolVars, agentVars, innerVars, streamVars, bridgeVars
<1>0. call \in [Requests -> Stages] /\ DOMAIN heard = Requests /\ DOMAIN call = Requests
  BY DEF AcpInv, TypeOK
<1>1. ASSUME UNCHANGED <<emitter, heard, payload>>,
             \A r \in Requests : call'[r] = call[r] \/ call'[r] # "appending"
      PROVE  Domains /\ Each
  BY <1>1 DEF Spared, Completed
<1>2. ASSUME NEW r \in Requests,
             \/ GetClient(r) \/ CheckCapacity(r) \/ Insert(r) \/ SpawnFails(r)
             \/ Enqueue(r) \/ Register(r) \/ Write(r) \/ WriteFails(r) \/ Resume(r)
             \/ Return(r) \/ Discard(r) \/ TakePending(r) \/ GetTurns(r)
      PROVE  Domains /\ Each
  <2>1. UNCHANGED <<emitter, heard, payload>>
    BY <1>2 DEF GetClient, CheckCapacity, Insert, SpawnFails, Enqueue, Register, Write,
                WriteFails, Resume, Return, Discard, TakePending, GetTurns
  <2>2. \E next : next # "appending" /\ Goto(r, next)
    BY <1>2 DEF GetClient, CheckCapacity, Insert, SpawnFails, Enqueue, Register, Write,
                WriteFails, Resume, Return, Discard, TakePending, GetTurns
  <2>3. \A q \in Requests : call'[q] = call[q] \/ call'[q] # "appending"
    BY <1>0, <2>2 DEF Goto
  <2> QED
    BY <1>1, <2>1, <2>3
<1>3. ASSUME NEW r \in Requests, ReturnError(r) \/ AppendTurn(r) \/ SetTurns(r)
      PROVE  Domains /\ Each
  <2>1. PICK end \in {"done", "failed"} : Leave(r, end)
    BY <1>3 DEF ReturnError, AppendTurn, SetTurns
  <2>2. Left(r)
    BY <1>0, <2>1 DEF Leave, Left, Goto, Completed
  <2>3. \A q \in Requests \ {r} : Spared(q)
    BY <1>0, <2>1 DEF Leave, Spared, Goto, Completed
  <2>4. Domains
    BY <2>1 DEF Leave
  <2> QED
    BY <2>2, <2>3, <2>4
<1>4. ASSUME NEW r \in Requests, Consume(r) PROVE Domains /\ Each
  <2>1. call[r] # "appending"
    BY <1>4 DEF Consume, AcpInv, Counted
  <2>2. Consumed(r)
    BY <1>0, <1>4, <2>1 DEF Consume, Consumed, Completed
  <2>3. \A q \in Requests \ {r} : Spared(q)
    BY <1>4 DEF Consume, Spared, Completed
  <2>4. Domains
    BY <1>4 DEF Consume
  <2> QED
    BY <2>2, <2>3, <2>4
<1>5. ASSUME NEW r \in Requests, Complete(r) PROVE Domains /\ Each
  <2>1. PICK order \in SetToSeqs(emitter[r].open) :
            payload' = [payload EXCEPT ![r] = <<Finish(emitter[r], order)>>]
    BY <1>5 DEF Complete
  <2>2. UNCHANGED <<emitter, heard>> /\ Goto(r, "appending")
    BY <1>5 DEF Complete
  <2>3. Paid(r)
    BY <2>1, <2>2 DEF Paid
  <2>4. \A q \in Requests \ {r} : Spared(q)
    BY <1>0, <2>1, <2>2 DEF Spared, Goto, Completed
  <2>5. Domains
    BY <2>1, <2>2
  <2> QED
    BY <2>3, <2>4, <2>5
<1>6. ASSUME NEW k \in Keys, RemoveClient(k) PROVE Domains /\ Each
  BY <1>1, <1>6 DEF RemoveClient
<1>7. ASSUME NEW c \in Clients,
             \/ Kill(c) \/ AgentExits(c) \/ AgentSays(c) \/ AgentAnswers(c) \/ Read(c) \/ Eof(c)
      PROVE  Domains /\ Each
  BY <1>1, <1>7 DEF Kill, AgentExits, AgentGone, AgentSays, AgentAnswers, Read, Eof
<1>8. CASE UNCHANGED vars
  BY <1>1, <1>8
<1> QED
  BY <1>2, <1>3, <1>4, <1>5, <1>6, <1>7, <1>8 DEF Next, Handler

LEMMA EmittingStep == AcpInv /\ Legit /\ Emitting /\ [Next]_vars => Emitting'
<1> SUFFICES ASSUME AcpInv, Legit, Emitting, [Next]_vars PROVE Emitting'
  OBVIOUS
<1>1. /\ DOMAIN emitter' = Requests /\ DOMAIN payload' = Requests
      /\ \A r \in Requests : Spared(r) \/ Consumed(r) \/ Left(r) \/ Paid(r)
  BY WhatBefalls DEF Emitting
<1>2. ASSUME NEW r \in Prompts
      PROVE  /\ EmitterOK(emitter'[r]) /\ Tracks(emitter'[r], r, Len(heard'[r]))
             /\ Completed(r)' => \E order \in SetToSeqs(emitter'[r].open) :
                                     payload'[r] = <<Finish(emitter'[r], order)>>
  <2>0. r \in Requests /\ EmitterOK(emitter[r]) /\ Tracks(emitter[r], r, Len(heard[r]))
    BY AcpBridgeAssumption DEF Emitting
  <2>1. CASE Spared(r)
    BY <2>0, <2>1 DEF Emitting, Spared
  <2>2. CASE Consumed(r)
    <3> DEFINE f == Head(channel[r])
               m == Len(heard[r])
    <3>1. heard[r] \in Seq(Frame) /\ channel[r] \in Seq(Frame)
      BY <2>0, Typed DEF AcpInv
    <3>2. f = channel[r][1] /\ f \in Frame /\ 1 \in 1 .. Len(channel[r]) /\ m \in Nat
      BY <2>2, <3>1 DEF Consumed
    <3>3. f = NoteFrame(r, m + 1)
      BY <2>0, <3>2 DEF AcpInv, Own, OwnFrom
    <3>4. m + 1 \in 1 .. Len(Script[r])
      <4>1. Spoken(f)
        BY <2>0, <3>2 DEF Legit
      <4> QED
        BY <3>3, <4>1 DEF Spoken, NoteFrame
    <3>5. emitter'[r] = Ingest(emitter[r], Script[r][m + 1])
      BY <2>2, <3>3 DEF Consumed, NoteOf, NoteFrame
    <3>6. Len(heard'[r]) = m + 1
      BY <2>2, <3>1, <3>2 DEF Consumed
    <3> HIDE DEF f, m
    <3>7. EmitterOK(emitter'[r]) /\ Tracks(emitter'[r], r, m + 1)
      BY <2>0, <3>2, <3>4, <3>5, Ingesting DEF m
    <3> QED
      BY <2>2, <3>6, <3>7 DEF Consumed
  <2>3. CASE Left(r)
    <3>1. Len(heard'[r]) = 0
      BY <2>3 DEF Left
    <3> QED
      BY <2>3, <3>1, FreshEmitter DEF Left
  <2>4. CASE Paid(r)
    BY <2>0, <2>4 DEF Paid
  <2> QED
    BY <1>1, <2>0, <2>1, <2>2, <2>3, <2>4
<1> QED
  BY <1>1, <1>2 DEF Emitting

LEMMA EmittingInvariance == Spec => [](AcpInv /\ Legit /\ Emitting)
<1>1. Init => Legit /\ Emitting
  <2> SUFFICES ASSUME Init PROVE Legit /\ Emitting
    OBVIOUS
  <2>1. Legit
    BY DEF Init, Legit
  <2>2. DOMAIN emitter = Requests /\ DOMAIN payload = Requests
    BY DEF Init
  <2>3. \A r \in Prompts : emitter[r] = Fresh /\ Len(heard[r]) = 0 /\ ~Completed(r)
    BY AcpBridgeAssumption DEF Init, Completed
  <2> QED
    BY <2>1, <2>2, <2>3, FreshEmitter DEF Emitting
<1> QED
  BY <1>1, InitInv, NextInv, LegitStep, EmittingStep, PTL DEF Spec

\* What was sent about a turn, and what is shown when it is completed.
LEMMA SentOfTurn ==
    ASSUME Emitting, AcpInv, NEW r \in Prompts
    PROVE  /\ Sent(r) \in Seq(Note) /\ Streams(Sent(r))
           /\ Completed(r) => /\ payload[r][1].items \in Seq(Item)
                              /\ Stored(payload[r][1].items, Sent(r))
<1>1. r \in Requests /\ EmitterOK(emitter[r]) /\ Tracks(emitter[r], r, Len(heard[r]))
  BY AcpBridgeAssumption DEF Emitting
<1>2. CASE ~Completed(r)
  BY <1>1, <1>2 DEF Sent, EmitterOK, Emitter
<1>3. CASE Completed(r)
  <2>1. PICK order \in SetToSeqs(emitter[r].open) : payload[r] = <<Finish(emitter[r], order)>>
    BY <1>3 DEF Emitting
  <2>2. Len(heard[r]) \in Nat
    BY <1>1, Typed DEF AcpInv
  <2>3. IsFiniteSet(emitter[r].open)
    BY <1>1, <2>2, TracksFinite DEF EmitterOK
  <2>4. Ends(Finish(emitter[r], order))
    BY <1>1, <2>3, Finishing
  <2>5. payload[r][1] = Finish(emitter[r], order) /\ Sent(r) = payload[r][1].sent
    BY <1>3, <2>1 DEF Sent
  <2> QED
    BY <2>4, <2>5 DEF Ends
<1> QED
  BY <1>2, <1>3

\* streaming.rs: whatever its agent says, in turns, resumes, exits and evictions, every item
\* of a turn is started once, before anything else about it, and completed once, last.
THEOREM TurnItemsStream == Spec => []ItemsStream
<1>1. ASSUME AcpInv, Emitting PROVE ItemsStream
  <2> SUFFICES ASSUME NEW r \in Prompts, NEW k \in DOMAIN Sent(r)
               PROVE  LET n == Sent(r)[k]
                          before == {j \in 1 .. k - 1 : Sent(r)[j].item = n.item}
                      IN  /\ n.note = "started" <=> before = {}
                          /\ \A j \in before : Sent(r)[j].note # "completed"
    BY DEF ItemsStream
  <2> DEFINE s == Sent(r)
  <2>1. s \in Seq(Note) /\ Streams(s)
    BY <1>1, SentOfTurn
  <2> HIDE DEF s
  <2>2. k \in 1 .. Len(s)
    BY <2>1 DEF s
  <2>3. LET before == {j \in 1 .. k - 1 : s[j].item = s[k].item}
        IN  /\ s[k].note = "started" <=> before = {}
            /\ \A j \in before : s[j].note # "completed"
    BY <2>1, <2>2 DEF Streams
  <2> QED
    BY <2>3 DEF s
<1> QED
  BY <1>1, EmittingInvariance, PTL

\* streaming.rs, finish: turn/completed and the stored turn have the items the client has
\* seen start, in that order, each as it was last shown.
THEOREM TurnStoredAsStreamed == Spec => []StoredAsStreamed
<1>1. ASSUME AcpInv, Emitting PROVE StoredAsStreamed
  <2> SUFFICES ASSUME NEW r \in Prompts, Completed(r)
               PROVE  /\ \A j \in DOMAIN Sent(r) : \E k \in DOMAIN payload[r][1].items :
                             payload[r][1].items[k].item = Sent(r)[j].item
                      /\ \A k \in DOMAIN payload[r][1].items : \E j \in DOMAIN Sent(r) :
                             /\ Sent(r)[j].note = "completed"
                             /\ Sent(r)[j].item = payload[r][1].items[k].item
                             /\ Sent(r)[j].body = payload[r][1].items[k].body
                      /\ \A k, l \in DOMAIN payload[r][1].items : k < l =>
                             \E i, j \in DOMAIN Sent(r) :
                                 /\ i < j
                                 /\ Sent(r)[i].note = "started"
                                 /\ Sent(r)[i].item = payload[r][1].items[k].item
                                 /\ Sent(r)[j].note = "started"
                                 /\ Sent(r)[j].item = payload[r][1].items[l].item
    BY DEF StoredAsStreamed
  <2> DEFINE s == Sent(r)
             items == payload[r][1].items
  <2>1. s \in Seq(Note) /\ items \in Seq(Item) /\ Stored(items, s)
    BY <1>1, SentOfTurn
  <2> HIDE DEF s, items
  <2>2. DOMAIN s = 1 .. Len(s) /\ DOMAIN items = 1 .. Len(items)
    BY <2>1
  <2>3. \A j \in DOMAIN s : \E k \in DOMAIN items : items[k].item = s[j].item
    BY <2>1, <2>2 DEF Stored, Heard
  <2>4. \A k \in DOMAIN items : \E j \in DOMAIN s :
            s[j].note = "completed" /\ s[j].item = items[k].item /\ s[j].body = items[k].body
    BY <2>1, <2>2 DEF Stored, Completes
  <2>5. \A k, l \in DOMAIN items : k < l =>
            \E i, j \in DOMAIN s :
                /\ i < j /\ s[i].note = "started" /\ s[i].item = items[k].item
                /\ s[j].note = "started" /\ s[j].item = items[l].item
    BY <2>1, <2>2 DEF Stored, IsStart
  <2> QED
    BY <2>3, <2>4, <2>5 DEF s, items
<1> QED
  BY <1>1, EmittingInvariance, PTL

================================================================================
