-------------------------- MODULE WebConnectionProofs --------------------------
(* The invariants of WebConnection, for any number of attempts.            *)
EXTENDS WebConnection, TLAPS

\* A transport that is not going to be used any more.
Spent(a) == wire[a] = "closed" \/ dial[a] = "refused"

\* The dial of the last attempt still has an outcome to come.
UnderWay ==
    \/ dial[attempt] = "opening"
    \/ dial[attempt] = "initializing" /\ wire[attempt] = "open"

\* The two references of the record, and the attempts made so far.
References ==
    /\ rpc = transport
    /\ dropped => transport = None /\ ~retry /\ soft = None
    /\ status = "new" <=> attempt = 0
    /\ attempt = 0 => ~dropped /\ ~retry /\ transport = None
    /\ transport # None => wire[transport] # "none"
    /\ transport <= attempt

Dials ==
    \A a \in Attempts :
        /\ dial[a] # "none" => a <= attempt
        /\ wire[a] # "none" => dial[a] # "none"
        /\ dial[a] = "opening" => a # transport
        /\ dial[a] = "refused" => asked[a] = {}

\* Only the record's own transport has answers to come, so that only its own client
\* is answered.
Asking ==
    \A a \in Attempts :
        /\ asked[a] # {} => a = transport /\ wire[a] = "open"
        /\ Initialize \in pending[a] =>
               dial[a] = "initializing" /\ asked[a] \subseteq {Initialize}

\* Once a redial is armed the last dial is done with, and a transport that is not of
\* the last attempt always is.
Retrying ==
    ~dropped =>
        /\ retry => Spent(attempt) \/ (dial[attempt] = "over" /\ wire[attempt] = "none")
        /\ transport # None /\ transport # attempt => Spent(transport)

\* The two ways a record may still be waiting: strengthens OfflineRetries.
Waiting ==
    ~dropped =>
        /\ status \in {"connecting", "offline"} => retry \/ UnderWay
        /\ status # "new" /\ wire[attempt] = "closed"
             /\ dial[attempt] \in {"opening", "initializing"} => retry
        /\ status = "connected" => dial[attempt] = "over"

Sound ==
    /\ TypeOK
    /\ References /\ Dials /\ Asking /\ Retrying /\ Waiting
    /\ ConnectedIsCurrent
    /\ NoStrayTransport

\* The invariant holds of a page that has not dialed yet.
LEMMA SoundInit == Init => Sound
<1> SUFFICES ASSUME Init PROVE Sound
  OBVIOUS
<1> USE WebConnectionAssumption DEF Init, None
<1>1. TypeOK
  <2>1. attempt \in 0 .. MaxAttempt
    OBVIOUS
  <2> QED
    BY <2>1 DEF TypeOK
<1>2. References
  BY DEF References
<1>3. Dials
  BY DEF Dials
<1>4. Asking
  BY DEF Asking
<1>5. Retrying
  BY DEF Retrying
<1>6. Waiting
  BY DEF Waiting
<1>7. ConnectedIsCurrent
  BY DEF ConnectedIsCurrent
<1>8. NoStrayTransport
  BY DEF NoStrayTransport
<1> QED
  BY <1>1, <1>2, <1>3, <1>4, <1>5, <1>6, <1>7, <1>8 DEF Sound

\* The first dial of a new record: status, counter and dial agree from the start.
LEMMA ConnectDeviceSound == ASSUME Sound, ConnectDevice PROVE Sound'
<1> USE WebConnectionAssumption DEF Sound, None, ConnectDevice, Dial
<1>1. TypeOK'
  BY DEF TypeOK, net
<1>2. References'
  BY DEF References
<1>3. Dials'
  BY DEF Attempts, References, Dials, net
<1>4. Asking'
  BY DEF References, Dials, Asking, net
<1>5. Retrying'
  BY DEF References, Retrying
<1>6. Waiting'
  BY DEF TypeOK, References, Dials, Waiting, UnderWay, net
<1>7. ConnectedIsCurrent'
  BY DEF ConnectedIsCurrent
<1>8. NoStrayTransport'
  BY DEF NoStrayTransport, net
<1> QED
  BY <1>1, <1>2, <1>3, <1>4, <1>5, <1>6, <1>7, <1>8

\* The soft timer only shows offline what is still connecting, and that dial goes on.
LEMMA SoftTimeoutSound == ASSUME Sound, SoftTimeout PROVE Sound'
<1> USE WebConnectionAssumption DEF Sound, None, SoftTimeout
<1>1. TypeOK'
  BY DEF TypeOK, Failures, net
<1>2. References'
  BY DEF References, net
<1>3. Dials'
  BY DEF Dials, net
<1>4. Asking'
  BY DEF Asking, net
<1>5. Retrying'
  BY DEF Retrying, Spent, net
<1>6. Waiting'
  BY DEF Waiting, UnderWay, net
<1>7. ConnectedIsCurrent'
  BY DEF ConnectedIsCurrent
<1>8. NoStrayTransport'
  BY DEF NoStrayTransport, net
<1> QED
  BY <1>1, <1>2, <1>3, <1>4, <1>5, <1>6, <1>7, <1>8

\* The redial timer starts the next attempt, which nothing older can be mistaken for.
LEMMA RetryFiresSound == ASSUME Sound, RetryFires PROVE Sound'
<1> USE WebConnectionAssumption DEF Sound, None, RetryFires, Dial
<1>1. TypeOK'
  <2>1. attempt' \in 0 .. MaxAttempt
    BY DEF Attempts
  <2> QED
    BY <2>1 DEF TypeOK, net
<1>2. References'
  BY DEF Attempts, TypeOK, References, net
<1>3. Dials'
  BY DEF Attempts, TypeOK, References, Dials, net
<1>4. Asking'
  BY DEF TypeOK, Dials, Asking, net
<1>5. Retrying'
  BY DEF References, Retrying, Spent, net
<1>6. Waiting'
  BY DEF TypeOK, Dials, Waiting, UnderWay, net
<1>7. ConnectedIsCurrent'
  BY DEF ConnectedIsCurrent
<1>8. NoStrayTransport'
  BY DEF NoStrayTransport, net
<1> QED
  BY <1>1, <1>2, <1>3, <1>4, <1>5, <1>6, <1>7, <1>8

\* A reconnect outdates what is under way and closes what the record holds.
LEMMA ReconnectSound == ASSUME Sound, Reconnect PROVE Sound'
<1> USE WebConnectionAssumption DEF Sound, None, Reconnect, CloseRecord, EndedBy
<1>1. TypeOK'
  <2>1. attempt' \in 0 .. MaxAttempt
    BY DEF Attempts
  <2> QED
    BY <2>1 DEF TypeOK, net
<1>2. References'
  BY DEF TypeOK, References
<1>3. Dials'
  BY DEF Attempts, TypeOK, References, Dials
<1>4. Asking'
  BY DEF TypeOK, Dials, Asking
<1>5. Retrying'
  BY DEF Retrying
<1>6. Waiting'
  BY DEF TypeOK, References, Dials, Waiting, UnderWay
<1>7. ConnectedIsCurrent'
  BY DEF ConnectedIsCurrent
<1>8. NoStrayTransport'
  BY DEF NoStrayTransport
<1> QED
  BY <1>1, <1>2, <1>3, <1>4, <1>5, <1>6, <1>7, <1>8

\* A dropped record keeps no transport, no timer and no client.
LEMMA DropSound == ASSUME Sound, Drop PROVE Sound'
<1> USE WebConnectionAssumption DEF Sound, None, Drop, CloseRecord, EndedBy
<1>1. TypeOK'
  BY DEF TypeOK, Failures, Requests, record, net
<1>2. References'
  BY DEF TypeOK, References
<1>3. Dials'
  BY DEF Attempts, References, Dials
<1>4. Asking'
  BY DEF Asking
<1>5. Retrying'
  BY DEF Retrying
<1>6. Waiting'
  BY DEF Waiting
<1>7. ConnectedIsCurrent'
  BY DEF ConnectedIsCurrent
<1>8. NoStrayTransport'
  BY DEF NoStrayTransport
<1> QED
  BY <1>1, <1>2, <1>3, <1>4, <1>5, <1>6, <1>7, <1>8

\* A dial whose connect() throws: a current one arms the redial, a stale one nothing.
LEMMA ConnectFailsSound == ASSUME Sound, NEW a \in Attempts, ConnectFails(a) PROVE Sound'
<1> USE WebConnectionAssumption DEF Sound, None, ConnectFails, Catch
<1>1. CASE Current(a)
  <2> PICK kind \in Failures : Failed(kind)
    BY <1>1
  <2>1. TypeOK'
    BY <1>1 DEF Failed, TypeOK, net
  <2>2. References'
    BY <1>1 DEF Failed, Current, Attempts, Failures, References, net
  <2>3. Dials'
    BY <1>1 DEF Dials, net
  <2>4. Asking'
    BY <1>1 DEF Asking, net
  <2>5. Retrying'
    BY <1>1 DEF Current, TypeOK, Retrying, Spent, net
  <2>6. Waiting'
    BY <1>1 DEF Failed, Current, Attempts, Failures, Requests, Initialize, ThreadList,
       TypeOK, References, Dials, Asking, Retrying, Waiting, UnderWay, Spent,
       ConnectedIsCurrent, NoStrayTransport, net
  <2>7. ConnectedIsCurrent'
    BY <1>1 DEF Failed, Failures, ConnectedIsCurrent
  <2>8. NoStrayTransport'
    BY <1>1 DEF NoStrayTransport, net
  <2> QED
    BY <2>1, <2>2, <2>3, <2>4, <2>5, <2>6, <2>7, <2>8
<1>2. CASE ~Current(a)
  <2>1. TypeOK'
    BY <1>2 DEF TypeOK, net
  <2>2. References'
    BY <1>2 DEF References, net
  <2>3. Dials'
    BY <1>2 DEF Dials, net
  <2>4. Asking'
    BY <1>2 DEF Asking, net
  <2>5. Retrying'
    BY <1>2 DEF Retrying, Spent, net
  <2>6. Waiting'
    BY <1>2 DEF Current, Waiting, UnderWay, net
  <2>7. ConnectedIsCurrent'
    BY <1>2 DEF ConnectedIsCurrent, net
  <2>8. NoStrayTransport'
    BY <1>2 DEF NoStrayTransport, net
  <2> QED
    BY <2>1, <2>2, <2>3, <2>4, <2>5, <2>6, <2>7, <2>8
<1> QED
  BY <1>1, <1>2

\* A stream that opens is looked at by its own dial, whatever has happened meanwhile.
LEMMA TransportOpensSound ==
    ASSUME Sound, NEW a \in Attempts, TransportOpens(a) PROVE Sound'
<1> USE WebConnectionAssumption DEF Sound, None, TransportOpens
<1>1. TypeOK'
  BY DEF TypeOK, record
<1>2. References'
  BY DEF References, record
<1>3. Dials'
  BY DEF Dials, record
<1>4. Asking'
  BY DEF Asking, record
<1>5. Retrying'
  BY DEF Retrying, Spent, record
<1>6. Waiting'
  BY DEF Waiting, UnderWay, record
<1>7. ConnectedIsCurrent'
  BY DEF ConnectedIsCurrent, record
<1>8. NoStrayTransport'
  BY DEF NoStrayTransport, record
<1> QED
  BY <1>1, <1>2, <1>3, <1>4, <1>5, <1>6, <1>7, <1>8

\* A stale dial closes its stream, a current one installs it and its own client.
LEMMA ConnectResolvesSound ==
    ASSUME Sound, NEW a \in Attempts, ConnectResolves(a) PROVE Sound'
<1> USE WebConnectionAssumption DEF Sound, None, ConnectResolves, Current
<1>1. TypeOK'
  BY DEF TypeOK, Requests
<1>2. References'
  BY DEF TypeOK, References
<1>3. Dials'
  BY DEF TypeOK, Dials
<1>4. Asking'
  BY DEF Attempts, TypeOK, Dials, Asking, Retrying, Spent
<1>5. Retrying'
  BY DEF Attempts, TypeOK, Dials, Retrying, Spent
<1>6. Waiting'
  BY DEF Attempts, TypeOK, Dials, Waiting, UnderWay
<1>7. ConnectedIsCurrent'
  BY DEF TypeOK, References, ConnectedIsCurrent
<1>8. NoStrayTransport'
  BY DEF Attempts, TypeOK, Retrying, Spent, NoStrayTransport
<1> QED
  BY <1>1, <1>2, <1>3, <1>4, <1>5, <1>6, <1>7, <1>8

\* A stream that ends by itself: of the current attempt it arms the redial.
LEMMA TransportClosesSound ==
    ASSUME Sound, NEW a \in Attempts, TransportCloses(a) PROVE Sound'
<1> USE WebConnectionAssumption DEF Sound, None, TransportCloses, Closed, Current, Failed
<1>1. TypeOK'
  BY DEF TypeOK, Failures, Requests, record, net
<1>2. References'
  BY DEF Attempts, References
<1>3. Dials'
  BY DEF Dials
<1>4. Asking'
  BY DEF TypeOK, Asking
<1>5. Retrying'
  <2>1. CASE Current(a)
    <3>1. attempt' = a /\ transport' = transport /\ dial' = dial
      BY <2>1
    <3>2. wire'[a] = "closed" /\ \A b \in Attempts \ {a} : wire'[b] = wire[b]
      BY DEF TypeOK
    <3> QED
      BY <2>1, <3>1, <3>2 DEF Retrying, Spent
  <2>2. CASE ~Current(a)
    BY <2>2 DEF Retrying, Spent
  <2> QED
    BY <2>1, <2>2
<1>6. Waiting'
  <2>1. CASE Current(a)
    BY <2>1 DEF Attempts, Failures, Requests, Initialize, ThreadList, TypeOK, References,
       Dials, Asking, Retrying, Waiting, UnderWay, Spent, ConnectedIsCurrent,
       NoStrayTransport, record, net
  <2>2. CASE ~Current(a)
    BY <2>2 DEF Waiting, UnderWay
  <2> QED
    BY <2>1, <2>2
<1>7. ConnectedIsCurrent'
  BY DEF ConnectedIsCurrent
<1>8. NoStrayTransport'
  BY DEF NoStrayTransport
<1> QED
  BY <1>1, <1>2, <1>3, <1>4, <1>5, <1>6, <1>7, <1>8

\* A response that is handled.  Whichever wire is open and asked is the record's own, so that
\* only its client is answered.
LEMMA HandledSound ==
    ASSUME Sound, NEW a \in Attempts, NEW id \in Requests, NEW e \in {id, None}, resuming \/ e = id,
           wire[a] = "open", asked[a] # {}, Handled(id), Sent(a, e), unseen' \subseteq unseen,
           UNCHANGED <<attempt, transport, rpc, dropped, wire, resuming>>
    PROVE  Sound'
<1> USE WebConnectionAssumption DEF Sound, None, Sent
<1>0. a = transport /\ a = rpc
  BY DEF Asking, References
<1>1. ASSUME id = Initialize, Initialize \in pending[a], Initialized(a) PROVE Sound'
  <2>1. TypeOK'
    <3>1. pending' \in [Attempts -> SUBSET Requests]
      BY <1>0, <1>1 DEF Initialized, TypeOK, Requests
    <3> QED
    BY <1>0, <1>1, <3>1 DEF Initialized, Current, TypeOK, Failures, Requests
  <2>2. References'
    BY <1>0, <1>1 DEF Initialized, Attempts, References
  <2>3. Dials'
    BY <1>0, <1>1 DEF Initialized, TypeOK, Dials
  <2>4. Asking'
    BY <1>0, <1>1 DEF Initialized, Initialize, ThreadList, TypeOK, Asking
  <2>5. Retrying'
    BY <1>0, <1>1 DEF Initialized, Asking, Retrying, Spent
  <2>6. Waiting'
    BY <1>0, <1>1 DEF Initialized, Current, TypeOK, Waiting, UnderWay
  <2>7. ConnectedIsCurrent'
    BY <1>0, <1>1 DEF Initialized, Attempts, Asking, Retrying, Spent, ConnectedIsCurrent
  <2>8. NoStrayTransport'
    BY <1>0, <1>1 DEF Initialized, NoStrayTransport
  <2> QED
    BY <2>1, <2>2, <2>3, <2>4, <2>5, <2>6, <2>7, <2>8
<1>2. ASSUME id = Initialize, Initialize \in pending[a], InitializeRefused(a) PROVE Sound'
  <2>1. CASE Current(a)
    <3> PICK kind \in Failures : Failed(kind)
      BY <1>2, <2>1 DEF InitializeRefused, Catch
    <3>1. TypeOK'
      BY <1>0, <1>2, <2>1 DEF InitializeRefused, Catch, Failed, TypeOK
    <3>2. References'
      BY <1>0, <1>2, <2>1 DEF Failed, Attempts, Failures, References
    <3>3. Dials'
      BY <1>0, <1>2, <2>1 DEF InitializeRefused, Catch, Dials, Asking
    <3>4. Asking'
      BY <1>0, <1>2, <2>1 DEF InitializeRefused, Catch, TypeOK, Asking
    <3>5. Retrying'
      <4>1. dial'[a] = "refused" /\ attempt' = a /\ transport' = a
        BY <1>0, <1>2, <2>1 DEF InitializeRefused, Catch, Current, TypeOK
      <4> QED
        BY <4>1 DEF Retrying, Spent
    <3>6. Waiting'
      BY <1>0, <1>2, <2>1 DEF InitializeRefused, Catch, Failed, Current, Attempts,
         Failures, Requests, Initialize, ThreadList, TypeOK, References, Dials, Asking,
         Retrying, Waiting, UnderWay, Spent, ConnectedIsCurrent, NoStrayTransport
    <3>7. ConnectedIsCurrent'
      BY <1>0, <1>2, <2>1 DEF Failed, Failures, ConnectedIsCurrent
    <3>8. NoStrayTransport'
      BY <1>0, <1>2, <2>1 DEF InitializeRefused, Catch, NoStrayTransport
    <3> QED
      BY <3>1, <3>2, <3>3, <3>4, <3>5, <3>6, <3>7, <3>8
  <2>2. CASE ~Current(a)
    <3>1. TypeOK'
      BY <1>0, <1>2, <2>2 DEF InitializeRefused, Catch, TypeOK
    <3>2. References'
      BY <1>0, <1>2, <2>2 DEF InitializeRefused, Catch, References
    <3>3. Dials'
      BY <1>0, <1>2, <2>2 DEF InitializeRefused, Catch, Dials, Asking
    <3>4. Asking'
      BY <1>0, <1>2, <2>2 DEF InitializeRefused, Catch, TypeOK, Asking
    <3>5. Retrying'
      BY <1>0, <1>2, <2>2 DEF InitializeRefused, Catch, Retrying, Spent
    <3>6. Waiting'
      BY <1>0, <1>2, <2>2 DEF InitializeRefused, Catch, Current, Waiting, UnderWay
    <3>7. ConnectedIsCurrent'
      BY <1>0, <1>2, <2>2 DEF InitializeRefused, Catch, ConnectedIsCurrent
    <3>8. NoStrayTransport'
      BY <1>0, <1>2, <2>2 DEF InitializeRefused, Catch, NoStrayTransport
    <3> QED
      BY <3>1, <3>2, <3>3, <3>4, <3>5, <3>6, <3>7, <3>8
  <2> QED
    BY <2>1, <2>2
<1>3. ASSUME id = ThreadList, ThreadList \in pending[a], ListLoaded(a) PROVE Sound'
  <2>1. TypeOK'
    BY <1>0, <1>3 DEF ListLoaded, TypeOK, Failures, Requests
  <2>2. References'
    BY <1>0, <1>3 DEF ListLoaded, References
  <2>3. Dials'
    BY <1>0, <1>3 DEF ListLoaded, Dials
  <2>4. Asking'
    BY <1>0, <1>3 DEF ListLoaded, Asking
  <2>5. Retrying'
    BY <1>0, <1>3 DEF ListLoaded, Retrying, Spent
  <2>6. Waiting'
    BY <1>0, <1>3 DEF ListLoaded, Waiting, UnderWay
  <2>7. ConnectedIsCurrent'
    BY <1>0, <1>3 DEF ListLoaded, ConnectedIsCurrent
  <2>8. NoStrayTransport'
    BY <1>0, <1>3 DEF ListLoaded, NoStrayTransport
  <2> QED
    BY <2>1, <2>2, <2>3, <2>4, <2>5, <2>6, <2>7, <2>8
<1>4. ASSUME UNCHANGED <<status, soft, retry, dial, loading, pending>> PROVE Sound'
  <2>1. TypeOK'
    BY <1>0, <1>4 DEF TypeOK
  <2>2. References'
    BY <1>0, <1>4 DEF References
  <2>3. Dials'
    BY <1>0, <1>4 DEF Dials
  <2>4. Asking'
    BY <1>0, <1>4 DEF Asking
  <2>5. Retrying'
    BY <1>0, <1>4 DEF Retrying, Spent
  <2>6. Waiting'
    BY <1>0, <1>4 DEF Waiting, UnderWay
  <2>7. ConnectedIsCurrent'
    BY <1>0, <1>4 DEF ConnectedIsCurrent
  <2>8. NoStrayTransport'
    BY <1>0, <1>4 DEF NoStrayTransport
  <2> QED
    BY <2>1, <2>2, <2>3, <2>4, <2>5, <2>6, <2>7, <2>8
<1> QED
  BY <1>0, <1>1, <1>2, <1>3, <1>4 DEF Handled, Requests

\* A response of the daemon.
LEMMA AnswerSound ==
    ASSUME Sound, NEW a \in Attempts, NEW id \in Requests, Answer(a, id) PROVE Sound'
BY HandledSound DEF Answer

\* A response the resumed session replays.
LEMMA ReplaySound ==
    ASSUME Sound, NEW a \in Attempts, NEW id \in Requests, Replay(a, id) PROVE Sound'
BY HandledSound DEF Replay

\* The invariant is inductive.
LEMMA SoundStep == Sound /\ [Next]_vars => Sound'
<1> SUFFICES ASSUME Sound, [Next]_vars PROVE Sound'
  OBVIOUS
<1>1. CASE UNCHANGED vars
  BY <1>1 DEF vars, record, net, Sound, TypeOK, References, Dials, Asking, Retrying,
     Waiting,
              UnderWay, Spent, ConnectedIsCurrent, NoStrayTransport
<1> QED
  BY <1>1, ConnectDeviceSound, SoftTimeoutSound, RetryFiresSound, ReconnectSound, DropSound,
     ConnectFailsSound, TransportOpensSound, ConnectResolvesSound, TransportClosesSound,
     AnswerSound, ReplaySound DEF Next

-----------------------------------------------------------------------------
\* A record shown offline always has a redial armed or under way: no order of dials,
\* timers, closed streams and clicks leaves it offline for good (connections.js).
THEOREM NeverWedged == Spec => []OfflineRetries
<1>1. Sound => OfflineRetries
  BY DEF Sound, Waiting, UnderWay, OfflineRetries
<1> QED
  BY <1>1, SoundInit, SoundStep, PTL DEF Spec

\* A record shown connected uses the transport and the client of its last attempt, and
\* no timer is left over (connections.js).
THEOREM ShownAsConnected == Spec => []ConnectedIsCurrent
<1>1. Sound => ConnectedIsCurrent
  BY DEF Sound
<1> QED
  BY <1>1, SoundInit, SoundStep, PTL DEF Spec

\* Every stream that is open belongs to the record, or is about to be looked at by its
\* dial, or was refused by its agent (connections.js).
THEOREM NoStreamLeaks == Spec => []NoStrayTransport
<1>1. Sound => NoStrayTransport
  BY DEF Sound
<1> QED
  BY <1>1, SoundInit, SoundStep, PTL DEF Spec

\* The record, its dials and its streams keep their types (connections.js, rpc.js).
THEOREM WebTypeCorrect == Spec => []TypeOK
<1>1. Sound => TypeOK
  BY DEF Sound
<1> QED
  BY <1>1, SoundInit, SoundStep, PTL DEF Spec
=============================================================================
