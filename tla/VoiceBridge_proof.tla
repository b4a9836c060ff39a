------------------------- MODULE VoiceBridge_proof -------------------------
(***************************************************************************)
(* The safety properties of voice_bridge, for any answers of the agent and *)
(* any number of ASR events: no motion follows the stop that was spoken    *)
(* after it was asked for, and a session that waits has somebody to wait   *)
(* for.  Then those of its agent client, for any number of requests,       *)
(* transports and aborts: no tool call becomes a command twice, an answer  *)
(* has the calls of its own request while no turn was left, and a process  *)
(* that failed is not asked again.                                         *)
(***************************************************************************)
EXTENDS VoiceBridge, PiAgent, SequenceTheorems, WellFoundedInduction, TLAPS

----------------------------------------------------------------------------
(* The inductive invariant.                                                 *)

\* Where on_asr will still number a request, or invalidate one: each event
\* does so at most once.
BeforeNumbering ==
  {"expire", "expireRest", "decide", "stopRest", "invalidate", "submit"}

NumbersBounded ==
  requests.generation + (IF ros.at \in BeforeNumbering THEN 1 ELSE 0) <= heard

\* The thread that holds the lock is the worker, while it publishes.
LockHeld ==
  /\ lock # "ros"
  /\ lock = "agent" <=> agent.at \in {"publishing", "waiting", "done", "doneRest"}

\* A request names a session, and nobody asked for a later one.
AsksForSession(r) == r.session # None /\ r.generation <= requests.generation

RequestsReal ==
  /\ \A k \in DOMAIN queue : AsksForSession(queue[k])
  /\ agent.request # None => AsksForSession(agent.request)
  /\ agent.request = None <=> agent.at = "idle"
  /\ agent.at = "waiting" => agent.commands # <<>>

SpokenStop(e) == e.kind = "stop" /\ e.by = "ros"

\* Between the invalidation and the end of on_asr no request is current.
NoneCurrent == ros.at \in {"stop", "abort"} => requests.session = None

\* A stop is younger than the requests before it, and older than any after.
StopsNumbered ==
  \A i \in DOMAIN bus :
    /\ bus[i].generation <= requests.generation
    /\ SpokenStop(bus[i]) /\ bus[i].generation = requests.generation
         => requests.session = None

\* The worker publishes no motion of a request that a published stop ended.
WorkerIsYounger ==
  agent.at \in {"publishing", "waiting"} /\ agent.commands # <<>> =>
    \A i \in DOMAIN bus :
      SpokenStop(bus[i]) => bus[i].generation < agent.request.generation

\* A session shows that it waits.
Waiting == session.state = "AGENT_PENDING" /\ session.id # None

HasCurrent ==
  \/ \E k \in DOMAIN queue : Current(queue[k])
  \/ agent.request # None /\ Current(agent.request)

\* Whoever makes a session wait has a request for it; a stop and an expiry leave
\* none that waits, and the worker leaves its request only when none does.
WaitsForRequest ==
  /\ Waiting => ros.at = "submit" \/ HasCurrent
  /\ ros.at \in {"expireRest", "stopRest", "invalidate", "stop", "abort"}
       => session.state # "AGENT_PENDING"
  /\ agent.at \in {"doneRest", "state"} /\ Current(agent.request) /\ Waiting
       => ros.at = "submit"

Typed == TypeOK /\ NumbersBounded /\ LockHeld /\ RequestsReal
StopInv == NoneCurrent /\ StopsNumbered /\ WorkerIsYounger /\ NoMotionAfterStop
VoiceInv == Typed /\ StopInv /\ WaitsForRequest

----------------------------------------------------------------------------
(* Steps of one thread that leave alone what the other one reads.           *)

SessionType == [state : {"IDLE", "ACTIVE", "AGENT_PENDING"}, id : Sessions]

LEMMA InitVoiceInv == Init => VoiceInv
<1> SUFFICES ASSUME Init PROVE VoiceInv
  OBVIOUS
<1> USE BoundAssumption, NoneAssumption DEF Init
<1>1. Typed
  <2>1. TypeOK
    <3>1. heard \in 0 .. MaxHeard /\ ros \in RosThread
      BY DEF RosThread
    <3>2. None \in Sessions /\ 0 \in 0 .. MaxHeard
      BY DEF Sessions
    <3>3. requests \in Request /\ session \in SessionType
      BY <3>2 DEF Request, SessionType
    <3>4. queue \in Seq(Request) /\ bus \in Seq(Published) /\ <<>> \in Seq(Commands)
      OBVIOUS
    <3>5. agent \in AgentThread
      BY <3>4 DEF AgentThread
    <3>6. QED
      BY <3>1, <3>3, <3>4, <3>5 DEF TypeOK, SessionType
  <2>2. QED
    BY <2>1 DEF Typed, NumbersBounded, BeforeNumbering, LockHeld, RequestsReal
<1>2. StopInv
  BY DEF StopInv, NoneCurrent, StopsNumbered, WorkerIsYounger, NoMotionAfterStop
<1>3. WaitsForRequest
  BY DEF WaitsForRequest, Waiting
<1>4. QED
  BY <1>1, <1>2, <1>3 DEF VoiceInv

\* The ROS thread between two steps that number, invalidate or publish.
RosMove ==
  /\ UNCHANGED <<requests, queue, agent, lock, bus>>
  /\ heard' \in 0 .. MaxHeard /\ heard <= heard'
  /\ ros' \in RosThread /\ session' \in SessionType
  /\ awake' \in BOOLEAN /\ unasked' \in BOOLEAN
  /\ ros'.at \in BeforeNumbering => ros.at \in BeforeNumbering \/ heard' = heard + 1
  /\ ros'.at \notin {"stop", "abort"}
  /\ ros'.at \in {"expireRest", "stopRest", "invalidate"}
       => session'.state # "AGENT_PENDING"
  /\ Waiting' => ros'.at = "submit" \/ (Waiting /\ ros.at # "submit")

LEMMA RosMoves ==
  ASSUME VoiceInv, RosMove
  PROVE  VoiceInv'
<1> USE DEF RosMove
<1>1. Typed'
  <2>1. TypeOK'
    BY DEF VoiceInv, Typed, TypeOK, SessionType
  <2>2. NumbersBounded'
    BY BoundAssumption DEF VoiceInv, Typed, NumbersBounded, TypeOK, Request
  <2>3. LockHeld' /\ RequestsReal'
    BY DEF VoiceInv, Typed, LockHeld, RequestsReal, AsksForSession
  <2>4. QED
    BY <2>1, <2>2, <2>3 DEF Typed
<1>2. StopInv'
  BY DEF VoiceInv, StopInv, NoneCurrent, StopsNumbered, WorkerIsYounger, NoMotionAfterStop,
         SpokenStop
<1>3. WaitsForRequest'
  <2>1. HasCurrent' = HasCurrent /\ Current(agent.request)' = Current(agent.request)
    BY DEF HasCurrent, Current
  <2>2. QED
    BY <2>1 DEF VoiceInv, WaitsForRequest
<1>4. QED
  BY <1>1, <1>2, <1>3 DEF VoiceInv

\* The worker between two steps that take a request or publish.
AgentMove ==
  /\ UNCHANGED <<heard, ros, requests, queue, bus, awake, unasked>>
  /\ session' = session \/ (session' \in SessionType /\ session'.state = "ACTIVE")
  /\ agent' \in AgentThread /\ lock' \in {"free", "agent"}
  /\ lock' = "agent" <=> agent'.at \in {"publishing", "waiting", "done", "doneRest"}
  /\ agent'.request = None <=> agent'.at = "idle"
  /\ agent'.request # None => agent'.request = agent.request
  /\ agent'.at = "waiting" => agent'.commands # <<>>
  /\ agent'.at \in {"publishing", "waiting"} /\ agent'.commands # <<>> =>
       \/ agent.at \in {"publishing", "waiting"} /\ agent.commands # <<>>
       \/ Current(agent.request)
  /\ agent'.request = None /\ agent.request # None
       => ~Current(agent.request) \/ agent.at = "state"
  /\ agent'.at \in {"doneRest", "state"} /\ Current(agent.request)
       => agent.at \in {"doneRest", "state"} \/ ~Waiting'

LEMMA AgentMoves ==
  ASSUME VoiceInv, AgentMove
  PROVE  VoiceInv'
<1> USE DEF AgentMove
<1>0. \A r : Current(r)' = Current(r)
  BY DEF Current
<1>1. Typed'
  <2>1. TypeOK'
    BY DEF VoiceInv, Typed, TypeOK, SessionType
  <2>2. NumbersBounded'
    BY DEF VoiceInv, Typed, NumbersBounded
  <2>3. LockHeld'
    BY DEF LockHeld
  <2>4. RequestsReal'
    BY DEF VoiceInv, Typed, RequestsReal, AsksForSession
  <2>5. QED
    BY <2>1, <2>2, <2>3, <2>4 DEF Typed
<1>2. StopInv'
  <2>1. NoneCurrent' /\ StopsNumbered' /\ NoMotionAfterStop'
    BY DEF VoiceInv, StopInv, NoneCurrent, StopsNumbered, NoMotionAfterStop, SpokenStop
  <2>2. WorkerIsYounger'
    <3> SUFFICES ASSUME agent'.at \in {"publishing", "waiting"}, agent'.commands # <<>>,
                        NEW i \in DOMAIN bus, SpokenStop(bus[i])
                 PROVE  bus[i].generation < agent.request.generation
      BY DEF WorkerIsYounger, SpokenStop
    <3>1. CASE agent.at \in {"publishing", "waiting"} /\ agent.commands # <<>>
      BY <3>1 DEF VoiceInv, StopInv, WorkerIsYounger
    <3>2. CASE Current(agent.request)
      <4>1. agent.request # None /\ agent.request.session # None
        BY DEF VoiceInv, Typed, RequestsReal, AsksForSession
      <4>2. bus[i] \in Published /\ requests \in Request
        BY DEF VoiceInv, Typed, TypeOK
      <4>3. /\ bus[i].generation <= requests.generation
            /\ bus[i].generation # requests.generation
        BY <3>2, <4>1 DEF VoiceInv, StopInv, StopsNumbered, Current
      <4>4. QED
        BY <3>2, <4>2, <4>3, BoundAssumption DEF Current, Published, Request
    <3>3. QED
      BY <3>1, <3>2
  <2>3. QED
    BY <2>1, <2>2 DEF StopInv
<1>3. WaitsForRequest'
  <2>1. Waiting' => Waiting
    BY DEF Waiting
  <2>2. ASSUME HasCurrent, Waiting, ros.at # "submit" PROVE HasCurrent'
    <3>1. CASE \E k \in DOMAIN queue : Current(queue[k])
      BY <3>1, <1>0 DEF HasCurrent
    <3>2. CASE agent.request # None /\ Current(agent.request)
      <4>1. agent.at # "state"
        BY <2>2, <3>2 DEF VoiceInv, WaitsForRequest
      <4>2. QED
        BY <3>2, <4>1, <1>0 DEF HasCurrent
    <3>3. QED
      BY <2>2, <3>1, <3>2 DEF HasCurrent
  <2>3. Waiting' => ros'.at = "submit" \/ HasCurrent'
    BY <2>1, <2>2 DEF VoiceInv, WaitsForRequest
  <2>4. ros'.at \in {"expireRest", "stopRest", "invalidate", "stop", "abort"}
          => session'.state # "AGENT_PENDING"
    BY DEF VoiceInv, WaitsForRequest
  <2>5. ASSUME agent'.at \in {"doneRest", "state"}, Current(agent.request)', Waiting'
        PROVE  ros'.at = "submit"
    <3>1. Current(agent'.request) /\ agent'.request = agent.request
      BY <2>5, <1>0
    <3>2. agent.at \in {"doneRest", "state"}
      BY <2>5, <3>1
    <3>3. QED
      BY <2>1, <2>5, <3>1, <3>2 DEF VoiceInv, WaitsForRequest
  <2>6. QED
    BY <2>3, <2>4, <2>5 DEF WaitsForRequest
<1>4. QED
  BY <1>1, <1>2, <1>3 DEF VoiceInv

----------------------------------------------------------------------------
(* The ROS thread.                                                          *)

RosFacts ==
  /\ heard \in 0 .. MaxHeard /\ ros \in RosThread /\ session \in SessionType
  /\ awake \in BOOLEAN /\ unasked \in BOOLEAN
  /\ ros.at \in {"expireRest", "stopRest"} => session.state # "AGENT_PENDING"

LEMMA RosTyped == VoiceInv => RosFacts
BY DEF RosFacts, VoiceInv, Typed, TypeOK, SessionType, WaitsForRequest

LEMMA HearStep ==
  ASSUME VoiceInv, NEW text \in Texts, Hear(text)
  PROVE  VoiceInv'
<1>1. RosMove
  BY RosTyped, BoundAssumption DEF Hear, RosMove, RosFacts, RosThread, SessionType,
     Texts, BeforeNumbering, Waiting
<1>2. QED
  BY <1>1, RosMoves

LEMMA StillFreshStep ==
  ASSUME VoiceInv, StillFresh
  PROVE  VoiceInv'
<1>1. RosMove
  BY RosTyped, BoundAssumption DEF StillFresh, RosAt, RosMove, RosFacts, RosThread,
     SessionType, BeforeNumbering, Waiting
<1>2. QED
  BY <1>1, RosMoves

LEMMA ExpireStep ==
  ASSUME VoiceInv, Expire
  PROVE  VoiceInv'
<1>1. RosMove
  BY RosTyped, BoundAssumption DEF Expire, RosAt, RosMove, RosFacts, RosThread,
     SessionType, BeforeNumbering, Waiting
<1>2. QED
  BY <1>1, RosMoves

LEMMA ExpireRestStep ==
  ASSUME VoiceInv, ExpireRest
  PROVE  VoiceInv'
<1>1. session' \in SessionType /\ session'.state = session.state /\ session'.id = None
  BY RosTyped DEF ExpireRest, RosFacts, SessionType, Sessions
<1>2. awake' \in BOOLEAN
  BY DEF ExpireRest
<1>3. RosMove
  BY <1>1, <1>2, RosTyped, BoundAssumption DEF ExpireRest, RosAt, RosMove, RosFacts, RosThread,
     BeforeNumbering, Waiting
<1>4. QED
  BY <1>3, RosMoves

LEMMA HearStopStep ==
  ASSUME VoiceInv, HearStop
  PROVE  VoiceInv'
<1>1. RosMove
  BY RosTyped, BoundAssumption DEF HearStop, RosAt, RosMove, RosFacts, RosThread,
     SessionType, BeforeNumbering, Waiting
<1>2. QED
  BY <1>1, RosMoves

LEMMA HearStopRestStep ==
  ASSUME VoiceInv, HearStopRest
  PROVE  VoiceInv'
<1>1. session' \in SessionType /\ session'.state = session.state /\ session'.id = None
  BY RosTyped DEF HearStopRest, RosFacts, SessionType, Sessions
<1>2. awake' \in BOOLEAN
  BY DEF HearStopRest
<1>3. RosMove
  BY <1>1, <1>2, RosTyped, BoundAssumption DEF HearStopRest, RosAt, RosMove, RosFacts, RosThread,
     BeforeNumbering, Waiting
<1>4. QED
  BY <1>3, RosMoves

LEMMA IgnoreStep ==
  ASSUME VoiceInv, Ignore
  PROVE  VoiceInv'
<1>1. RosMove
  BY RosTyped, BoundAssumption DEF Ignore, RosAt, RosMove, RosFacts, RosThread,
     SessionType, BeforeNumbering, Waiting
<1>2. QED
  BY <1>1, RosMoves

LEMMA WakeUpStep ==
  ASSUME VoiceInv, WakeUp
  PROVE  VoiceInv'
<1>1. RosMove
  BY RosTyped, BoundAssumption DEF WakeUp, RosAt, RosMove, RosFacts, RosThread,
     SessionType, Sessions, NewSession, BeforeNumbering, Waiting
<1>2. QED
  BY <1>1, RosMoves

LEMMA AskAgentStep ==
  ASSUME VoiceInv, AskAgent
  PROVE  VoiceInv'
<1>1. RosMove
  BY RosTyped, BoundAssumption DEF AskAgent, RosAt, RosMove, RosFacts, RosThread,
     SessionType, Sessions, NewSession, BeforeNumbering, Waiting
<1>2. QED
  BY <1>1, RosMoves

LEMMA AbortStep ==
  ASSUME VoiceInv, Abort
  PROVE  VoiceInv'
<1>1. RosMove
  BY RosTyped, BoundAssumption DEF Abort, RosAt, RosMove, RosFacts, RosThread,
     SessionType, BeforeNumbering, Waiting
<1>2. QED
  BY <1>1, RosMoves

LEMMA RosPublishesStateStep ==
  ASSUME VoiceInv, RosPublishesState
  PROVE  VoiceInv'
<1>1. RosMove
  BY RosTyped, BoundAssumption DEF RosPublishesState, RosMove, RosFacts, RosThread,
     SessionType, BeforeNumbering, Waiting
<1>2. QED
  BY <1>1, RosMoves

\* The requests made so far are all older than the number a stop takes.
LEMMA InvalidateStep ==
  ASSUME VoiceInv, Invalidate
  PROVE  VoiceInv'
<1> USE BoundAssumption DEF Invalidate, RosAt, InvalidateRequests
<1>1. /\ heard \in 0 .. MaxHeard /\ ros \in RosThread /\ requests \in Request
      /\ requests.generation + 1 <= heard
  BY DEF VoiceInv, Typed, TypeOK, NumbersBounded, BeforeNumbering
<1>2. /\ ros' \in RosThread /\ ros'.at = "stop" /\ requests' \in Request
      /\ requests'.generation = requests.generation + 1 /\ requests'.session = None
  BY <1>1 DEF RosThread, Request, Sessions
<1>3. Typed'
  <2>0. TypeOK'
    BY <1>1, <1>2 DEF VoiceInv, Typed, TypeOK
  <2>1. NumbersBounded'
    <3>1. heard' = heard /\ "stop" \notin BeforeNumbering
      BY DEF BeforeNumbering
    <3>2. QED
      BY <1>1, <1>2, <3>1 DEF NumbersBounded, Request
  <2>2. LockHeld'
    BY DEF VoiceInv, Typed, LockHeld
  <2>3. \A r \in Request : AsksForSession(r) => AsksForSession(r)'
    BY <1>1, <1>2 DEF AsksForSession, Request
  <2>4. RequestsReal'
    BY <2>3 DEF VoiceInv, Typed, TypeOK, RequestsReal, AgentThread
  <2>5. QED
    BY <2>0, <2>1, <2>2, <2>4 DEF Typed
<1>4. StopInv'
  <2>1. NoneCurrent' /\ NoMotionAfterStop' /\ WorkerIsYounger'
    BY <1>2 DEF VoiceInv, StopInv, NoneCurrent, NoMotionAfterStop, WorkerIsYounger, SpokenStop
  <2>2. \A i \in DOMAIN bus : bus[i].generation <= requests.generation /\ bus[i] \in Published
    BY DEF VoiceInv, Typed, TypeOK, StopInv, StopsNumbered
  <2>3. StopsNumbered'
    BY <1>1, <1>2, <2>2 DEF StopsNumbered, Published, Request
  <2>4. QED
    BY <2>1, <2>3 DEF StopInv
<1>5. WaitsForRequest'
  <2>1. session.state # "AGENT_PENDING"
    BY DEF VoiceInv, WaitsForRequest
  <2>2. QED
    BY <1>2, <2>1 DEF WaitsForRequest, Waiting
<1>6. QED
  BY <1>3, <1>4, <1>5 DEF VoiceInv

\* The stop on the bus is as young as any request was, and none is current.
LEMMA PublishStopStep ==
  ASSUME VoiceInv, PublishStop
  PROVE  VoiceInv'
<1> USE BoundAssumption DEF PublishStop, RosAt
<1> DEFINE e == [kind |-> "stop", by |-> "ros", generation |-> requests.generation]
<1>1. /\ ros \in RosThread /\ requests \in Request /\ bus \in Seq(Published)
      /\ requests.session = None /\ lock = "free"
  BY DEF VoiceInv, Typed, TypeOK, StopInv, NoneCurrent
<1>2. e \in Published /\ bus' = Append(bus, e)
  BY <1>1 DEF Published, Request, Publish
<1>3. /\ e.kind = "stop" /\ e.generation = requests.generation
      /\ ros' \in RosThread /\ ros'.at = "abort"
  BY <1>1 DEF RosThread
<1> HIDE DEF e
<1>4. /\ bus' \in Seq(Published) /\ Len(bus') = Len(bus) + 1
      /\ \A i \in 1..Len(bus) : bus'[i] = bus[i]
      /\ bus'[Len(bus) + 1] = e
  BY <1>1, <1>2, AppendProperties
<1>5. Typed'
  <2>1. TypeOK' /\ NumbersBounded'
    BY <1>3, <1>4 DEF VoiceInv, Typed, TypeOK, NumbersBounded, BeforeNumbering
  <2>2. LockHeld' /\ RequestsReal'
    BY DEF VoiceInv, Typed, LockHeld, RequestsReal, AsksForSession
  <2>3. QED
    BY <2>1, <2>2 DEF Typed
<1>6. StopInv'
  <2>1. NoneCurrent'
    BY <1>1 DEF NoneCurrent
  <2>2. \A i \in DOMAIN bus' : i \in DOMAIN bus \/ (i = Len(bus) + 1 /\ bus'[i] = e)
    BY <1>1, <1>4
  <2>3. StopsNumbered'
    <3> SUFFICES ASSUME NEW i \in DOMAIN bus'
                 PROVE  bus'[i].generation <= requests.generation
      BY <1>1 DEF StopsNumbered
    <3>1. CASE i \in DOMAIN bus
      BY <1>1, <1>4, <3>1 DEF VoiceInv, StopInv, StopsNumbered
    <3>2. CASE bus'[i] = e
      BY <1>1, <1>3, <3>2 DEF Request
    <3>3. QED
      BY <2>2, <3>1, <3>2
  <2>4. WorkerIsYounger'
    BY <1>1 DEF VoiceInv, Typed, LockHeld, WorkerIsYounger
  <2>5. NoMotionAfterStop'
    <3> SUFFICES ASSUME NEW i \in DOMAIN bus', NEW j \in DOMAIN bus', i < j,
                        bus'[i].kind = "stop", bus'[i].by = "ros",
                        bus'[j].kind \in {"loco", "textop"}
                 PROVE  bus'[j].generation > bus'[i].generation
      BY DEF NoMotionAfterStop
    <3>1. j \in DOMAIN bus /\ i \in DOMAIN bus
      BY <1>1, <1>3, <1>4, <2>2
    <3>2. bus'[i] = bus[i] /\ bus'[j] = bus[j]
      BY <1>1, <1>4, <3>1
    <3>3. QED
      BY <3>1, <3>2 DEF VoiceInv, StopInv, NoMotionAfterStop
  <2>6. QED
    BY <2>1, <2>3, <2>4, <2>5 DEF StopInv
<1>7. WaitsForRequest'
  <2>1. session.state # "AGENT_PENDING"
    BY DEF VoiceInv, WaitsForRequest
  <2>2. QED
    BY <2>1 DEF WaitsForRequest, Waiting
<1>8. QED
  BY <1>5, <1>6, <1>7 DEF VoiceInv

\* A new request is younger than every stop, and the session waits for it.
LEMMA SubmitStep ==
  ASSUME VoiceInv, Submit
  PROVE  VoiceInv'
<1> USE BoundAssumption, NoneAssumption
<1>0. PICK r : r = [generation |-> requests.generation + 1,
                    session |-> IF session.id = None THEN NewSession ELSE session.id]
  OBVIOUS
<1>1. /\ heard \in 0 .. MaxHeard /\ ros \in RosThread /\ requests \in Request
      /\ queue \in Seq(Request) /\ session \in SessionType
      /\ requests.generation + 1 <= heard
  BY DEF VoiceInv, Typed, TypeOK, NumbersBounded, BeforeNumbering, SessionType, Submit
<1>2. /\ requests' = r /\ queue' = Append(queue, r)
      /\ ros' = [ros EXCEPT !.at = "state"]
      /\ UNCHANGED <<heard, session, agent, lock, bus, awake, unasked>>
  BY <1>0 DEF Submit, RosAt
<1>3. /\ r \in Request /\ r.session # None
      /\ r.generation = requests.generation + 1
      /\ requests.generation \in Nat
  BY <1>0, <1>1 DEF Request, Sessions, SessionType, NewSession
<1>4. ros' \in RosThread /\ ros'.at = "state"
  BY <1>1, <1>2 DEF RosThread
<1>5. /\ queue' \in Seq(Request) /\ Len(queue') = Len(queue) + 1
      /\ \A k \in 1..Len(queue) : queue'[k] = queue[k]
      /\ queue'[Len(queue) + 1] = r
  BY <1>1, <1>2, <1>3, AppendProperties
<1>6. \A q \in Request : AsksForSession(q) => AsksForSession(q)' /\ ~Current(q)'
  BY <1>2, <1>3 DEF AsksForSession, Current, Request
<1>7. AsksForSession(r)' /\ Current(r)'
  BY <1>2, <1>3 DEF AsksForSession, Current
<1>8. Typed'
  <2>1. TypeOK' /\ NumbersBounded'
    BY <1>1, <1>2, <1>3, <1>4, <1>5 DEF VoiceInv, Typed, TypeOK, NumbersBounded, BeforeNumbering
  <2>2. LockHeld'
    BY <1>2 DEF VoiceInv, Typed, LockHeld
  <2>3. \A k \in DOMAIN queue' : AsksForSession(queue[k])'
    <3> SUFFICES ASSUME NEW k \in DOMAIN queue' PROVE AsksForSession(queue[k])'
      OBVIOUS
    <3>1. CASE k \in DOMAIN queue
      <4>1. queue'[k] = queue[k] /\ queue[k] \in Request /\ AsksForSession(queue[k])
        BY <1>1, <1>5, <3>1 DEF VoiceInv, Typed, RequestsReal
      <4>2. QED
        BY <1>6, <4>1
    <3>2. CASE k = Len(queue) + 1
      BY <1>5, <1>7, <3>2
    <3>3. QED
      BY <1>1, <1>5, <3>1, <3>2
  <2>4. RequestsReal'
    <3>1. agent.request # None => agent.request \in Request /\ AsksForSession(agent.request)
      BY DEF VoiceInv, Typed, TypeOK, RequestsReal, AgentThread
    <3>2. QED
      BY <1>2, <1>6, <2>3, <3>1 DEF VoiceInv, Typed, RequestsReal
  <2>5. QED
    BY <2>1, <2>2, <2>4 DEF Typed
<1>9. StopInv'
  <2>1. NoneCurrent' /\ NoMotionAfterStop' /\ WorkerIsYounger'
    BY <1>2, <1>4 DEF VoiceInv, StopInv, NoneCurrent, NoMotionAfterStop, WorkerIsYounger, SpokenStop
  <2>2. \A i \in DOMAIN bus : bus[i].generation <= requests.generation /\ bus[i] \in Published
    BY DEF VoiceInv, Typed, TypeOK, StopInv, StopsNumbered
  <2>3. StopsNumbered'
    BY <1>2, <1>3, <2>2 DEF StopsNumbered, Published
  <2>4. QED
    BY <2>1, <2>3 DEF StopInv
<1>10. WaitsForRequest'
  <2>1. HasCurrent'
    <3>1. Len(queue) + 1 \in DOMAIN queue' /\ queue'[Len(queue) + 1] = r
      BY <1>1, <1>5, <1>7
    <3>2. QED
      BY <1>7, <3>1 DEF HasCurrent, Current
  <2>2. agent.at \in {"doneRest", "state"} => ~Current(agent.request)'
    <3>1. agent.at # "idle" => agent.request # None /\ AsksForSession(agent.request)
      BY DEF VoiceInv, Typed, RequestsReal
    <3>2. agent.request \in Request \cup {None}
      BY DEF VoiceInv, Typed, TypeOK, AgentThread
    <3>3. \A q \in Request : AsksForSession(q) => ~Current(q)'
      BY <1>6
    <3>4. QED
      BY <1>2, <3>1, <3>2, <3>3 DEF Current
  <2>3. QED
    BY <1>2, <1>4, <2>1, <2>2 DEF WaitsForRequest
<1>11. QED
  BY <1>8, <1>9, <1>10 DEF VoiceInv

----------------------------------------------------------------------------
(* The worker.                                                              *)

WorkerFacts ==
  /\ agent \in AgentThread /\ session \in SessionType
  /\ lock \in {"free", "agent"}
  /\ lock = "agent" <=> agent.at \in {"publishing", "waiting", "done", "doneRest"}
  /\ agent.request = None <=> agent.at = "idle"
  /\ agent.at = "waiting" => agent.commands # <<>>

LEMMA WorkerTyped == VoiceInv => WorkerFacts
BY DEF WorkerFacts, VoiceInv, Typed, TypeOK, LockHeld, RequestsReal, SessionType

LEMMA CommandsLeft ==
  ASSUME NEW c \in Seq(Commands), c # <<>>
  PROVE  Tail(c) \in Seq(Commands)
BY HeadTailProperties

LEMMA FinishedTyped == Finished \in AgentThread
<1>1. <<>> \in Seq(Commands)
  OBVIOUS
<1>2. QED
  BY <1>1 DEF Finished, AgentThread

LEMMA AgentAnswersStep ==
  ASSUME VoiceInv, NEW commands \in Answers, AgentAnswers(commands)
  PROVE  VoiceInv'
<1>1. WorkerFacts
  BY WorkerTyped
<1>2. agent' \in AgentThread
  <2>1. [agent EXCEPT !.at = "answered", !.commands = commands] \in AgentThread
    BY <1>1, AnswerAssumption DEF WorkerFacts, AgentThread
  <2>2. QED
    BY <2>1, FinishedTyped DEF AgentAnswers, Finished
<1>3. AgentMove
  BY <1>1, <1>2 DEF AgentMove, WorkerFacts, AgentThread, SessionType, Waiting,
     AgentAnswers, Finished
<1>4. QED
  BY <1>3, AgentMoves

LEMMA AgentFailsStep ==
  ASSUME VoiceInv, AgentFails
  PROVE  VoiceInv'
<1>1. WorkerFacts
  BY WorkerTyped
<1>2. agent' \in AgentThread
  BY <1>1, FinishedTyped DEF WorkerFacts, AgentThread, AgentFails, Finished
<1>3. AgentMove
  BY <1>1, <1>2 DEF AgentMove, WorkerFacts, AgentThread, SessionType, Waiting,
     AgentFails, Finished
<1>4. QED
  BY <1>3, AgentMoves

LEMMA TakeAnswerStep ==
  ASSUME VoiceInv, TakeAnswer
  PROVE  VoiceInv'
<1>1. WorkerFacts
  BY WorkerTyped
<1>2. agent' \in AgentThread
  <2>1. [agent EXCEPT !.at = "publishing"] \in AgentThread
    BY <1>1 DEF WorkerFacts, AgentThread
  <2>2. QED
    BY <2>1, FinishedTyped DEF TakeAnswer, Finished, AgentAt, AnswerWanted
<1>3. AgentMove
  BY <1>1, <1>2 DEF AgentMove, WorkerFacts, AgentThread, SessionType, Waiting,
     TakeAnswer, Finished, AgentAt, AnswerWanted
<1>4. QED
  BY <1>3, AgentMoves

LEMMA SpeakStep ==
  ASSUME VoiceInv, Speak
  PROVE  VoiceInv'
<1>1. WorkerFacts
  BY WorkerTyped
<1>2. agent' \in AgentThread
  BY <1>1, CommandsLeft DEF WorkerFacts, AgentThread, Speak, CommandDone
<1>3. AgentMove
  BY <1>1, <1>2 DEF AgentMove, WorkerFacts, AgentThread, SessionType, Waiting,
     Speak, CommandDone
<1>4. QED
  BY <1>3, AgentMoves

LEMMA WaitForServerStep ==
  ASSUME VoiceInv, WaitForServer
  PROVE  VoiceInv'
<1>1. WorkerFacts
  BY WorkerTyped
<1>2. agent' \in AgentThread
  BY <1>1 DEF WorkerFacts, AgentThread, WaitForServer, AgentAt
<1>3. AgentMove
  BY <1>1, <1>2 DEF AgentMove, WorkerFacts, AgentThread, SessionType, Waiting,
     WaitForServer, AgentAt
<1>4. QED
  BY <1>3, AgentMoves

LEMMA ServerUnavailableStep ==
  ASSUME VoiceInv, ServerUnavailable
  PROVE  VoiceInv'
<1>1. WorkerFacts
  BY WorkerTyped
<1>2. agent' \in AgentThread
  BY <1>1, CommandsLeft DEF WorkerFacts, AgentThread, ServerUnavailable, CommandDone
<1>3. AgentMove
  BY <1>1, <1>2 DEF AgentMove, WorkerFacts, AgentThread, SessionType, Waiting,
     ServerUnavailable, CommandDone
<1>4. QED
  BY <1>3, AgentMoves

LEMMA PublishFailsStep ==
  ASSUME VoiceInv, PublishFails
  PROVE  VoiceInv'
<1>1. WorkerFacts
  BY WorkerTyped
<1>2. agent' \in AgentThread
  <2>1. <<>> \in Seq(Commands)
    OBVIOUS
  <2>2. [agent EXCEPT !.at = "failed", !.commands = <<>>] \in AgentThread
    BY <1>1, <2>1 DEF WorkerFacts, AgentThread
  <2>3. QED
    BY <2>2, FinishedTyped DEF PublishFails, Finished
<1>3. AgentMove
  BY <1>1, <1>2 DEF AgentMove, WorkerFacts, AgentThread, SessionType, Waiting,
     PublishFails, Finished
<1>4. QED
  BY <1>3, AgentMoves

LEMMA MarkDoneStep ==
  ASSUME VoiceInv, MarkDone
  PROVE  VoiceInv'
<1>1. WorkerFacts
  BY WorkerTyped
<1>2. agent' \in AgentThread
  BY <1>1 DEF WorkerFacts, AgentThread, MarkDone, AgentAt
<1>3. AgentMove
  BY <1>1, <1>2 DEF AgentMove, WorkerFacts, AgentThread, SessionType, Waiting,
     MarkDone, AgentAt
<1>4. QED
  BY <1>3, AgentMoves

LEMMA MarkActiveStep ==
  ASSUME VoiceInv, MarkActive
  PROVE  VoiceInv'
<1>1. WorkerFacts
  BY WorkerTyped
<1>2. agent' \in AgentThread
  BY <1>1 DEF WorkerFacts, AgentThread, MarkActive, AgentAt
<1>3. AgentMove
  BY <1>1, <1>2 DEF AgentMove, WorkerFacts, AgentThread, SessionType, Waiting,
     MarkActive, AgentAt
<1>4. QED
  BY <1>3, AgentMoves

LEMMA ReleaseStep ==
  ASSUME VoiceInv, Release
  PROVE  VoiceInv'
<1>1. WorkerFacts
  BY WorkerTyped
<1>2. agent' \in AgentThread
  BY <1>1 DEF WorkerFacts, AgentThread, Release, AgentAt
<1>3. AgentMove
  BY <1>1, <1>2 DEF AgentMove, WorkerFacts, AgentThread, SessionType, Waiting,
     Release, AgentAt
<1>4. QED
  BY <1>3, AgentMoves

LEMMA ReportFailureStep ==
  ASSUME VoiceInv, ReportFailure
  PROVE  VoiceInv'
<1>1. WorkerFacts
  BY WorkerTyped
<1>2. agent' \in AgentThread
  <2>1. <<>> \in Seq(Commands)
    OBVIOUS
  <2>2. QED
    BY <1>1, <2>1 DEF WorkerFacts, AgentThread, ReportFailure, AgentAt
<1>3. AgentMove
  BY <1>1, <1>2 DEF AgentMove, WorkerFacts, AgentThread, SessionType, Waiting,
     ReportFailure, AgentAt
<1>4. QED
  BY <1>3, AgentMoves

LEMMA AgentPublishesStateStep ==
  ASSUME VoiceInv, AgentPublishesState
  PROVE  VoiceInv'
<1>1. WorkerFacts
  BY WorkerTyped
<1>2. agent' \in AgentThread
  BY FinishedTyped DEF AgentPublishesState, Finished
<1>3. AgentMove
  BY <1>1, <1>2 DEF AgentMove, WorkerFacts, AgentThread, SessionType, Waiting,
     AgentPublishesState, Finished
<1>4. QED
  BY <1>3, AgentMoves

\* The worker takes the first of the queue when it is current, and drops it
\* when it is not.
LEMMA BeginStep ==
  ASSUME VoiceInv, Begin
  PROVE  VoiceInv'
<1> USE DEF Begin
<1>1. WorkerFacts /\ agent.at = "idle" /\ agent.request = None
  BY WorkerTyped DEF WorkerFacts
<1>2. queue \in Seq(Request) /\ queue # <<>>
  BY DEF VoiceInv, Typed, TypeOK
<1>3. PICK r : r = Head(queue)
  OBVIOUS
<1>4. /\ r \in Request /\ queue' \in Seq(Request) /\ Len(queue) \in Nat
      /\ r = queue[1] /\ 1 \in DOMAIN queue
      /\ Len(queue') = Len(queue) - 1
      /\ \A k \in 1 .. Len(queue) - 1 : queue'[k] = queue[k + 1]
  BY <1>2, <1>3, HeadTailProperties
<1>5. \A q : Current(q)' = Current(q) /\ AsksForSession(q)' = AsksForSession(q)
  BY DEF Current, AsksForSession
<1>6. /\ UNCHANGED <<heard, ros, session, requests, lock, bus, awake, unasked>>
      /\ \/ agent' = [agent EXCEPT !.at = "asking", !.request = r]
         \/ agent' = agent /\ ~Current(r)
  BY <1>3
<1>7. /\ agent' \in AgentThread /\ agent'.at \in {"idle", "asking"}
      /\ agent'.at = "asking" => agent'.request = r
      /\ agent'.at = "idle" => agent'.request = None /\ ~Current(r)
  BY <1>1, <1>4, <1>6 DEF WorkerFacts, AgentThread
<1>8. r # None /\ AsksForSession(r)
  <2>1. AsksForSession(r)
    BY <1>4 DEF VoiceInv, Typed, RequestsReal
  <2>2. r # None
    BY <2>1, <1>4, NoRequestAssumption
  <2>3. QED
    BY <2>1, <2>2
<1>9. Typed'
  <2>1. TypeOK' /\ NumbersBounded'
    BY <1>4, <1>6, <1>7 DEF VoiceInv, Typed, TypeOK, NumbersBounded
  <2>2. LockHeld'
    BY <1>1, <1>6, <1>7 DEF VoiceInv, Typed, LockHeld
  <2>3. \A k \in DOMAIN queue' : AsksForSession(queue'[k])
    <3>1. \A k \in DOMAIN queue' : queue'[k] = queue[k + 1] /\ k + 1 \in DOMAIN queue
      BY <1>2, <1>4
    <3>2. QED
      BY <3>1 DEF VoiceInv, Typed, RequestsReal
  <2>4. RequestsReal'
    BY <1>6, <1>7, <1>8, <2>3 DEF RequestsReal, AsksForSession
  <2>5. QED
    BY <2>1, <2>2, <2>4 DEF Typed
<1>10. StopInv'
  BY <1>6, <1>7 DEF VoiceInv, StopInv, NoneCurrent, StopsNumbered, WorkerIsYounger,
                    NoMotionAfterStop, SpokenStop
<1>11. WaitsForRequest'
  <2>1. HasCurrent => HasCurrent'
    <3>1. SUFFICES ASSUME NEW k \in DOMAIN queue, Current(queue[k]) PROVE HasCurrent'
      BY <1>1 DEF HasCurrent
    <3>2. CASE k = 1
      <4>1. agent'.request = r /\ Current(r) /\ r # None
        BY <1>4, <1>7, <1>8, <3>1, <3>2
      <4>2. agent'.request # None /\ Current(r)'
        BY <1>5, <4>1
      <4>3. QED
        BY <4>1, <4>2 DEF HasCurrent, Current
    <3>3. CASE k # 1
      <4>1. k - 1 \in DOMAIN queue' /\ queue'[k - 1] = queue[k]
        BY <1>2, <1>4, <3>3
      <4>2. Current(queue'[k - 1])
        BY <3>1, <4>1
      <4>3. QED
        BY <4>1, <4>2, <1>6 DEF HasCurrent, Current
    <3>4. QED
      BY <3>2, <3>3
  <2>2. QED
    BY <2>1, <1>6, <1>7 DEF VoiceInv, WaitsForRequest, Waiting
<1>12. QED
  BY <1>9, <1>10, <1>11 DEF VoiceInv

\* What the worker publishes is of a request younger than any stop on the bus.
LEMMA AgentPublishes ==
  ASSUME VoiceInv, NEW kind \in {"loco", "textop", "stop"},
         agent.at \in {"publishing", "waiting"}, agent.commands # <<>>,
         Publish(kind, "agent", agent.request.generation), CommandDone("publishing"),
         UNCHANGED <<heard, ros, session, requests, queue, lock, awake, unasked>>
  PROVE  VoiceInv'
<1>1. WorkerFacts /\ requests \in Request /\ bus \in Seq(Published)
  BY WorkerTyped DEF VoiceInv, Typed, TypeOK
<1>2. agent.request \in Request /\ AsksForSession(agent.request)
  BY <1>1 DEF WorkerFacts, AgentThread, VoiceInv, Typed, RequestsReal
<1>3. PICK e : e = [kind |-> kind, by |-> "agent", generation |-> agent.request.generation]
  OBVIOUS
<1>4. /\ e \in Published /\ ~SpokenStop(e)
      /\ e.generation = agent.request.generation
      /\ bus' = Append(bus, e)
  BY <1>2, <1>3 DEF Published, Request, SpokenStop, Publish
<1>5. /\ bus' \in Seq(Published) /\ Len(bus') = Len(bus) + 1 /\ Len(bus) \in Nat
      /\ \A i \in 1..Len(bus) : bus'[i] = bus[i]
      /\ bus'[Len(bus) + 1] = e
  BY <1>1, <1>4, AppendProperties
<1>6. \A i \in DOMAIN bus' :
        (i \in DOMAIN bus /\ bus'[i] = bus[i]) \/ (i = Len(bus) + 1 /\ bus'[i] = e)
  BY <1>1, <1>5
<1>7. agent' \in AgentThread /\ agent'.at = "publishing" /\ agent'.request = agent.request
  BY <1>1, CommandsLeft DEF WorkerFacts, AgentThread, CommandDone
<1>8. \A i \in DOMAIN bus : SpokenStop(bus[i]) => bus[i].generation < agent.request.generation
  BY DEF VoiceInv, StopInv, WorkerIsYounger
<1>9. Typed'
  <2>1. TypeOK' /\ NumbersBounded'
    BY <1>5, <1>7 DEF VoiceInv, Typed, TypeOK, NumbersBounded
  <2>2. LockHeld'
    BY <1>7 DEF VoiceInv, Typed, LockHeld
  <2>3. RequestsReal'
    BY <1>7 DEF VoiceInv, Typed, RequestsReal, AsksForSession
  <2>4. QED
    BY <2>1, <2>2, <2>3 DEF Typed
<1>10. StopInv'
  <2>1. NoneCurrent'
    BY DEF VoiceInv, StopInv, NoneCurrent
  <2>2. StopsNumbered'
    <3>1. SUFFICES ASSUME NEW i \in DOMAIN bus'
                   PROVE  /\ bus'[i].generation <= requests.generation
                          /\ SpokenStop(bus'[i]) /\ bus'[i].generation = requests.generation
                               => requests.session = None
      BY DEF StopsNumbered, SpokenStop
    <3>2. CASE i \in DOMAIN bus /\ bus'[i] = bus[i]
      BY <3>2 DEF VoiceInv, StopInv, StopsNumbered
    <3>3. CASE bus'[i] = e
      BY <1>2, <1>4, <3>3 DEF AsksForSession
    <3>4. QED
      BY <1>6, <3>2, <3>3
  <2>3. WorkerIsYounger'
    <3>1. SUFFICES ASSUME NEW i \in DOMAIN bus', SpokenStop(bus'[i])
                   PROVE  bus'[i].generation < agent.request.generation
      BY <1>7 DEF WorkerIsYounger, SpokenStop
    <3>2. QED
      BY <1>4, <1>6, <1>8, <3>1
  <2>4. NoMotionAfterStop'
    <3>1. SUFFICES ASSUME NEW i \in DOMAIN bus', NEW j \in DOMAIN bus', i < j,
                          SpokenStop(bus'[i]), bus'[j].kind \in {"loco", "textop"}
                   PROVE  bus'[j].generation > bus'[i].generation
      BY DEF NoMotionAfterStop, SpokenStop
    <3>2. i \in DOMAIN bus /\ bus'[i] = bus[i]
      BY <1>4, <1>6, <3>1
    <3>3. CASE j \in DOMAIN bus /\ bus'[j] = bus[j]
      BY <3>1, <3>2, <3>3 DEF VoiceInv, StopInv, NoMotionAfterStop, SpokenStop
    <3>4. CASE bus'[j] = e
      <4>1. bus[i].generation < e.generation /\ bus[i] \in Published
        BY <1>1, <1>4, <1>8, <3>1, <3>2
      <4>2. QED
        BY <3>2, <3>4, <4>1, <1>4 DEF Published
    <3>5. QED
      BY <1>6, <3>3, <3>4
  <2>5. QED
    BY <2>1, <2>2, <2>3, <2>4 DEF StopInv
<1>11. WaitsForRequest'
  <2>1. HasCurrent' = HasCurrent
    BY <1>7 DEF HasCurrent, Current
  <2>2. QED
    BY <2>1, <1>7 DEF VoiceInv, WaitsForRequest, Waiting
<1>12. QED
  BY <1>9, <1>10, <1>11 DEF VoiceInv

LEMMA PublishCommandStep ==
  ASSUME VoiceInv, PublishCommand
  PROVE  VoiceInv'
BY AgentPublishes DEF PublishCommand

LEMMA SendGoalStep ==
  ASSUME VoiceInv, SendGoal
  PROVE  VoiceInv'
<1>1. agent.commands # <<>>
  BY WorkerTyped DEF WorkerFacts, SendGoal
<1>2. QED
  BY <1>1, AgentPublishes DEF SendGoal

----------------------------------------------------------------------------
(* Every step, and the theorems.                                            *)

LEMMA StutterStep ==
  ASSUME VoiceInv, UNCHANGED vars
  PROVE  VoiceInv'
<1> USE DEF vars
<1>1. Typed'
  BY DEF VoiceInv, Typed, TypeOK, NumbersBounded, LockHeld, RequestsReal, AsksForSession
<1>2. StopInv'
  BY DEF VoiceInv, StopInv, NoneCurrent, StopsNumbered, WorkerIsYounger, NoMotionAfterStop,
         SpokenStop
<1>3. WaitsForRequest'
  BY DEF VoiceInv, WaitsForRequest, Waiting, HasCurrent, Current
<1>4. QED
  BY <1>1, <1>2, <1>3 DEF VoiceInv

LEMMA NextVoiceInv == VoiceInv /\ [Next]_vars => VoiceInv'
<1> SUFFICES ASSUME VoiceInv, [Next]_vars PROVE VoiceInv'
  OBVIOUS
<1>1. ASSUME NEW text \in Texts, Hear(text) PROVE VoiceInv'
  BY <1>1, HearStep
<1>2. CASE RosSteps
  BY <1>2, StillFreshStep, ExpireStep, ExpireRestStep, HearStopStep, HearStopRestStep,
     IgnoreStep, WakeUpStep, AskAgentStep, InvalidateStep, PublishStopStep, AbortStep,
     SubmitStep, RosPublishesStateStep DEF RosSteps
<1>3. CASE AgentSteps
  BY <1>3, BeginStep, TakeAnswerStep, PublishCommandStep, SpeakStep, WaitForServerStep,
     SendGoalStep, ServerUnavailableStep, PublishFailsStep, MarkDoneStep, MarkActiveStep,
     ReleaseStep, ReportFailureStep, AgentPublishesStateStep DEF AgentSteps
<1>4. CASE AgentDecides
  BY <1>4, AgentAnswersStep, AgentFailsStep DEF AgentDecides
<1>5. CASE UNCHANGED vars
  BY <1>5, StutterStep
<1>6. QED
  BY <1>1, <1>2, <1>3, <1>4, <1>5 DEF Next

LEMMA VoiceInvariant == Spec => []VoiceInv
BY InitVoiceInv, NextVoiceInv, PTL DEF Spec

(* Every variable keeps its type: in particular the numbers that requests   *)
(* and stops get never outrun the ASR events, one each at most.             *)
THEOREM VoiceTypeOK == Spec => []TypeOK
<1>1. VoiceInv => TypeOK
  BY DEF VoiceInv, Typed
<1>2. QED
  BY <1>1, VoiceInvariant, PTL

(* Whatever an agent answers and however late, no motion of a request made  *)
(* before a spoken stop follows that stop on the command topics.            *)
THEOREM VoiceNoMotionAfterStop == Spec => []NoMotionAfterStop
<1>1. VoiceInv => NoMotionAfterStop
  BY DEF VoiceInv, StopInv
<1>2. QED
  BY <1>1, VoiceInvariant, PTL

(* A session that shows AGENT_PENDING while on_asr is not running has its   *)
(* current request in the executor's queue or with the worker.              *)
THEOREM VoicePendingHasARequest == Spec => []PendingHasARequest
<1>1. VoiceInv => PendingHasARequest
  BY DEF VoiceInv, WaitsForRequest, Waiting, HasCurrent, PendingHasARequest
<1>2. QED
  BY <1>1, VoiceInvariant, PTL

----------------------------------------------------------------------------
(* The agent client (PiAgent): where its tool calls are, and what its queues *)
(* hold.  The inductive invariant.                                           *)

\* The worker has a transport while it is in decide(), which is the client's
\* once it was started, unless somebody closed the client.
Attached ==
    /\ worker.at = "idle" <=> worker.on = None
    /\ worker.at = "idle" => worker.confirmed = {}
    /\ worker.at # "idle" => turn # 0
    /\ worker.on # None => transport[worker.on].state # "new"
    /\ client # None => transport[client].state # "new"
    /\ worker.at = "starting" => client = None
    /\ worker.at \notin {"idle", "starting"} => client \in {worker.on, None}

\* A transport nobody started is untouched, and its process dies once.
Unstarted ==
    \A n \in Transports :
        /\ transport[n].state = "new" => transport[n] = NewTransport /\ pi[n] = Resting(<<>>)
        /\ transport[n].state # "closed" => transport[n].generation = 0

\* A transport that failed a request is out of reach.
GivenUp ==
    \A i \in DOMAIN answers :
        /\ transport[answers[i].on].state # "new"
        /\ answers[i].failed => answers[i].on # client /\ answers[i].on # worker.on

Reach == PiTypeOK /\ Attached /\ Unstarted /\ GivenUp /\ FailedIsReplaced

\* A tool call of a turn is, at most, in one of these places, and in each of them
\* once: a prompt, a process that may still finish it, a queue, the worker, an
\* answer.
Prompt(n, k, t) == k \in DOMAIN pi[n].inbox /\ pi[n].inbox[k] = t
MayFinish(n, t) == pi[n].turn = t /\ (pi[n].called => pi[n].open)
CallDone(n, k, t) ==
    /\ k \in DOMAIN transport[n].events
    /\ transport[n].events[k].kind = "done" /\ transport[n].events[k].turn = t
Answered(t) == \E i \in DOMAIN answers : t \in answers[i].calls

\* Where it has gone on from each place.
Collected(t) == t \in worker.confirmed \/ Answered(t)
Said(t) == Collected(t) \/ \E n \in Transports, k \in Nat : CallDone(n, k, t)
Begun(t) == Said(t) \/ \E n \in Transports : MayFinish(n, t)
Asked(t) == t < turn \/ (t = turn /\ worker.at \notin {"starting", "asking"})

InOnePlace(t) ==
    /\ \A n \in Transports, k \in Nat : Prompt(n, k, t) =>
          /\ Asked(t) /\ ~Begun(t)
          /\ \A m \in Transports, l \in Nat : Prompt(m, l, t) => m = n /\ l = k
    /\ Begun(t) => Asked(t)
    /\ \A n \in Transports : MayFinish(n, t) =>
          ~Said(t) /\ \A m \in Transports : MayFinish(m, t) => m = n
    /\ \A n \in Transports, k \in Nat : CallDone(n, k, t) =>
          /\ ~Collected(t)
          /\ \A m \in Transports, l \in Nat : CallDone(m, l, t) => m = n /\ l = k
    /\ t \in worker.confirmed => ~Answered(t)

CallFirst == \A n \in Transports : pi[n].open => pi[n].called

Once == CallFirst /\ (\A t \in Turns : InOnePlace(t)) /\ NoCallTwice

\* What a transport that was never left may hold of the turn under way on it.
Mine(n) ==
    IF worker.on = n /\ worker.at \notin {"starting", "asking"} THEN {turn, None} ELSE {None}

Clean(n) ==
    /\ \A k \in DOMAIN pi[n].inbox : pi[n].inbox[k] \in Mine(n)
    /\ pi[n].turn \in Mine(n)
    /\ \A k \in DOMAIN transport[n].events : transport[n].events[k].turn \in Mine(n)
    /\ \A k, l \in DOMAIN pi[n].inbox :
          pi[n].inbox[k] # None /\ pi[n].inbox[l] # None => k = l
    /\ \A k \in DOMAIN pi[n].inbox : pi[n].inbox[k] # None => pi[n].turn = None
    /\ worker.on = n => worker.confirmed \subseteq Mine(n)

\* After the end of the prompt nothing comes of it.
EndIsLast(n) ==
    \A k \in DOMAIN transport[n].events : transport[n].events[k].kind = "end" =>
        /\ pi[n].turn = None
        /\ \A l \in DOMAIN pi[n].inbox : pi[n].inbox[l] = None
        /\ \A l \in DOMAIN transport[n].events : l > k => transport[n].events[l].turn = None

EventNamed ==
    \A n \in Transports : \A k \in DOMAIN transport[n].events :
        transport[n].events[k].turn = None <=> transport[n].events[k].kind = "wake"

Reached(n) == n \in {client, worker.on} /\ ~transport[n].left

Own ==
    /\ EventNamed
    /\ \A n \in Transports : Reached(n) => Clean(n) /\ EndIsLast(n)
    /\ OwnTurnUntilLeft


PiInv == Reach /\ Once /\ Own

-----------------------------------------------------------------------------
(* The types of the parts.                                                  *)

EventKind == {"call", "done", "failed", "end", "retry", "wake"}
WorkerType == [at : {"idle", "starting", "asking", "asked", "test", "get"},
               on : Transports \cup {None}, generation : {0, 1}, late : BOOLEAN,
               called : SUBSET Turns, confirmed : SUBSET Turns]
TransportType == [state : {"new", "running", "closed"}, generation : {0, 1},
                  events : Seq(Event), left : BOOLEAN]
ProcessType == [inbox : Seq(Turns \cup {None}), turn : Turns \cup {None},
                called : BOOLEAN, open : BOOLEAN, retried : BOOLEAN]
AnswerType == [turn : Turns, on : Transports, calls : SUBSET Turns,
               failed : BOOLEAN, left : BOOLEAN]

PiTypes ==
    /\ turn \in 0 .. MaxTurns
    /\ worker \in WorkerType /\ worker.confirmed \subseteq worker.called
    /\ aborted \in BOOLEAN /\ shutDown \in BOOLEAN
    /\ client \in Transports \cup {None}
    /\ transport \in [Transports -> TransportType]
    /\ pi \in [Transports -> ProcessType]
    /\ senders \in [Transports -> Nat]
    /\ aborts \in 0 .. MaxAborts
    /\ answers \in Seq(AnswerType)

LEMMA PiTyped == PiTypeOK <=> PiTypes
BY DEF PiTypeOK, PiTypes, WorkerType, TransportType, ProcessType, AnswerType

LEMMA PiTypedThen == PiTypeOK' <=> PiTypes'
BY DEF PiTypeOK, PiTypes, WorkerType, TransportType, ProcessType, AnswerType

LEMMA NoneIsNone == None \notin Turns /\ None \notin Transports
BY NoneAssumption DEF Turns, Transports

-----------------------------------------------------------------------------
(* Queues: what is left of one, or has a wake-up more.                      *)

EventsFrom(new, old) ==
    \E d \in Nat : \A k \in DOMAIN new :
        \/ k + d \in DOMAIN old /\ new[k] = old[k + d]
        \/ new[k].kind = "wake" /\ new[k].turn = None

InboxFrom(new, old) ==
    \E d \in Nat : \A k \in DOMAIN new :
        (k + d \in DOMAIN old /\ new[k] = old[k + d]) \/ new[k] = None

LEMMA Head1 ==
  ASSUME NEW S, NEW q \in Seq(S), q # <<>>
  PROVE  /\ Head(q) \in S /\ Head(q) = q[1] /\ 1 \in DOMAIN q
         /\ Tail(q) \in Seq(S)
         /\ \A j \in DOMAIN Tail(q) : Tail(q)[j] = q[j + 1] /\ j + 1 \in DOMAIN q
BY HeadTailProperties

LEMMA OneMore ==
  ASSUME NEW S, NEW q \in Seq(S), NEW e \in S
  PROVE  /\ Append(q, e) \in Seq(S)
         /\ Len(q) + 1 \in DOMAIN Append(q, e) /\ Append(q, e)[Len(q) + 1] = e
         /\ \A j \in DOMAIN Append(q, e) :
              (j \in DOMAIN q /\ Append(q, e)[j] = q[j]) \/ (j = Len(q) + 1 /\ j \notin DOMAIN q)
         /\ \A j \in DOMAIN q : j \in DOMAIN Append(q, e) /\ Append(q, e)[j] = q[j]
BY AppendProperties

LEMMA AfterFirst ==
  ASSUME NEW S, NEW q \in Seq(S), NEW n \in 0 .. Len(q)
  PROVE  /\ SubSeq(q, n + 1, Len(q)) \in Seq(S)
         /\ \A j \in DOMAIN SubSeq(q, n + 1, Len(q)) :
              SubSeq(q, n + 1, Len(q))[j] = q[j + n] /\ j + n \in DOMAIN q
<1>1. n \in Nat /\ n + 1 \in Int /\ Len(q) \in Int /\ DOMAIN q = 1 .. Len(q)
  OBVIOUS
<1>2. PICK m \in Int : m = n + 1
  BY <1>1
<1>3. PICK len \in Int : len = Len(q)
  BY <1>1
<1>4. PICK r : r = SubSeq(q, m, len)
  OBVIOUS
<1>5. /\ r \in Seq(S) /\ Len(r) = (IF m <= len THEN len - m + 1 ELSE 0)
      /\ \A i \in 1 .. len - m + 1 : r[i] = q[m + i - 1]
  <2>1. \A i \in m .. len : q[i] \in S
    BY <1>1, <1>2, <1>3
  <2>2. QED
    BY <1>4, <2>1, SubSeqProperties
<1>6. \A j \in DOMAIN r : r[j] = q[j + n] /\ j + n \in DOMAIN q
  <2> SUFFICES ASSUME NEW j \in DOMAIN r
               PROVE  r[j] = q[j + n] /\ j + n \in DOMAIN q
    OBVIOUS
  <2>1. j \in Int /\ 1 <= j /\ j <= Len(r)
    BY <1>5
  <2>2. m <= len /\ Len(r) = len - m + 1
    <3>1. PICK k : k = Len(r)
      OBVIOUS
    <3>2. k = (IF m <= len THEN len - m + 1 ELSE 0)
      BY <3>1, <1>5
    <3>3. QED
      BY <3>1, <3>2, <2>1
  <2>3. j \in 1 .. len - m + 1 /\ m + j - 1 = j + n /\ j + n \in 1 .. len
    BY <2>1, <2>2, <1>1, <1>2, <1>3
  <2>4. QED
    BY <2>3, <1>1, <1>3, <1>5
<1>7. QED
  BY <1>2, <1>3, <1>4, <1>5, <1>6

LEMMA SameFrom ==
  ASSUME NEW q \in Seq(Event)
  PROVE  EventsFrom(q, q)
<1>1. \A k \in DOMAIN q : k + 0 = k
  OBVIOUS
<1>2. QED
  BY <1>1 DEF EventsFrom

LEMMA NothingFrom ==
  ASSUME NEW q
  PROVE  EventsFrom(<<>>, q) /\ InboxFrom(<<>>, q)
BY DEF EventsFrom, InboxFrom

LEMMA WakeFrom ==
  ASSUME NEW q \in Seq(Event), NEW e \in Event, e.kind = "wake", e.turn = None
  PROVE  EventsFrom(Append(q, e), q) /\ EventsFrom(Append(Append(q, e), e), q)
<1>1. Append(q, e) \in Seq(Event)
  BY OneMore
<1>2. \A k \in DOMAIN Append(q, e) :
        (k + 0 \in DOMAIN q /\ Append(q, e)[k] = q[k + 0]) \/ Append(q, e)[k] = e
  BY OneMore
<1>3. \A k \in DOMAIN Append(Append(q, e), e) :
        \/ k \in DOMAIN Append(q, e) /\ Append(Append(q, e), e)[k] = Append(q, e)[k]
        \/ Append(Append(q, e), e)[k] = e
  BY <1>1, OneMore
<1>4. QED
  BY <1>2, <1>3 DEF EventsFrom

LEMMA RestFrom ==
  ASSUME NEW q \in Seq(Event), NEW n \in 0 .. Len(q)
  PROVE  EventsFrom(SubSeq(q, n + 1, Len(q)), q)
<1>1. n \in Nat
  OBVIOUS
<1>2. QED
  BY <1>1, AfterFirst DEF EventsFrom

LEMMA SameInbox ==
  ASSUME NEW q \in Seq(Turns \cup {None})
  PROVE  InboxFrom(q, q)
<1>1. \A k \in DOMAIN q : k + 0 = k
  OBVIOUS
<1>2. QED
  BY <1>1 DEF InboxFrom

LEMMA TailInbox ==
  ASSUME NEW q \in Seq(Turns \cup {None}), q # <<>>
  PROVE  InboxFrom(Tail(q), q)
BY Head1 DEF InboxFrom

LEMMA AbortInbox ==
  ASSUME NEW q \in Seq(Turns \cup {None})
  PROVE  InboxFrom(Append(q, None), q)
<1>1. \A k \in DOMAIN Append(q, None) :
        (k + 0 \in DOMAIN q /\ Append(q, None)[k] = q[k + 0]) \/ Append(q, None)[k] = None
  BY OneMore
<1>2. QED
  BY <1>1 DEF InboxFrom

\* Where the wanted event stands, if there is one.
LEMMA Foremost ==
  ASSUME NEW T, T \subseteq Nat, T # {}
  PROVE  Min(T) \in T
<1>1. PICK R : R = {p \in Nat \X Nat : p[1] < p[2]}
  OBVIOUS
<1>2. IsWellFoundedOn(R, Nat)
  BY <1>1, NatLessThanWellFounded DEF OpToRel
<1>3. PICK x \in T : \A y \in T : ~ (<<y, x>> \in R)
  BY <1>2, WFMin
<1>4. ASSUME NEW y \in T PROVE x <= y
  <2>1. x \in Nat /\ y \in Nat /\ <<y, x>> \notin R
    BY <1>3
  <2>2. <<y, x>>[1] = y /\ <<y, x>>[2] = x /\ <<y, x>> \in Nat \X Nat
    BY <2>1
  <2>3. ~ (y < x)
    BY <1>1, <2>1, <2>2
  <2>4. QED
    BY <2>1, <2>3
<1>5. QED
  BY <1>4 DEF Min

LEMMA AtPosition ==
  ASSUME PiTypeOK, worker.on \in Transports
  PROVE  Position \in 0 .. Len(Queue) /\ Queue \in Seq(Event)
<1>1. Queue \in Seq(Event)
  BY PiTyped DEF PiTypes, TransportType, Queue
<1>2. PICK T : T = {i \in 1 .. Len(Queue) : Wanted(Queue[i])}
  OBVIOUS
<1>3. Position = IF T # {} THEN Min(T) ELSE 0
  BY <1>2 DEF Position, SelectInSeq
<1>4. T \subseteq 1 .. Len(Queue) /\ Len(Queue) \in Nat
  BY <1>1, <1>2
<1>5. CASE T = {}
  BY <1>1, <1>3, <1>4, <1>5
<1>6. CASE T # {}
  <2>1. T \subseteq Nat
    BY <1>4
  <2>2. Min(T) \in T
    BY <2>1, <1>6, Foremost
  <2>3. QED
    <3>1. PICK len \in Nat : len = Len(Queue)
      BY <1>4
    <3>2. Position \in 1 .. len
      BY <2>2, <1>3, <1>4, <1>6, <3>1
    <3>3. Position \in 0 .. len
      BY <3>2
    <3>4. QED
      BY <3>1, <3>3, <1>1
<1>7. QED
  BY <1>5, <1>6

-----------------------------------------------------------------------------
(* What a step makes of a transport and its process.                        *)

LEMMA QueuedIs ==
  ASSUME NEW t \in TransportType, NEW kind \in EventKind, NEW who \in Turns \cup {None},
         NEW e, e = [kind |-> kind, turn |-> who, generation |-> t.generation]
  PROVE  /\ e \in Event
         /\ Queued(t, kind, who) = [t EXCEPT !.events = Append(t.events, e)]
         /\ Queued(t, kind, who) \in TransportType
         /\ Queued(t, kind, who).state = t.state
         /\ Queued(t, kind, who).generation = t.generation
         /\ Queued(t, kind, who).left = t.left
         /\ Queued(t, kind, who).events = Append(t.events, e)
<1>1. e \in Event /\ t.events \in Seq(Event)
  BY DEF TransportType, Event, EventKind
<1>2. Append(t.events, e) \in Seq(Event)
  BY <1>1, OneMore
<1>3. QED
  BY <1>1, <1>2 DEF Queued, TransportType

LEMMA WokenIs ==
  ASSUME NEW t \in TransportType
  PROVE  /\ Woken(t) \in TransportType
         /\ Woken(t).state = t.state /\ Woken(t).generation = t.generation
         /\ Woken(t).left = t.left
         /\ EventsFrom(Woken(t).events, t.events)
         /\ EventsFrom(Woken(Woken(t)).events, t.events)
<1>1. PICK e : e = [kind |-> "wake", turn |-> None, generation |-> t.generation]
  OBVIOUS
<1>2. /\ e \in Event /\ Woken(t) \in TransportType
      /\ Woken(t).state = t.state /\ Woken(t).generation = t.generation
      /\ Woken(t).left = t.left /\ Woken(t).events = Append(t.events, e)
  BY <1>1, QueuedIs DEF Woken, EventKind
<1>3. Woken(Woken(t)).events = Append(Append(t.events, e), e)
  BY <1>1, <1>2, QueuedIs DEF Woken, EventKind
<1>4. t.events \in Seq(Event) /\ e.kind = "wake" /\ e.turn = None
  BY <1>1 DEF TransportType
<1>5. EventsFrom(Append(t.events, e), t.events)
      /\ EventsFrom(Append(Append(t.events, e), e), t.events)
  BY <1>2, <1>4, WakeFrom
<1>6. QED
  BY <1>2, <1>3, <1>5

LEMMA ClosedIs ==
  ASSUME NEW t \in TransportType
  PROVE  /\ Closed(t) \in TransportType
         /\ Closed(t).generation = t.generation /\ Closed(t).left = t.left
         /\ t.state = "new" => Closed(t) = t
         /\ t.state # "new" => Closed(t).state = "closed"
         /\ EventsFrom(Closed(t).events, t.events)
<1>1. CASE t.state = "running"
  <2>1. PICK s : s = [t EXCEPT !.state = "closed"]
    OBVIOUS
  <2>2. /\ s \in TransportType /\ s.state = "closed" /\ s.generation = t.generation
        /\ s.left = t.left /\ s.events = t.events
    BY <2>1 DEF TransportType
  <2>3. Closed(t) = Woken(Woken(s))
    BY <1>1, <2>1 DEF Closed
  <2>4. QED
    BY <1>1, <2>2, <2>3, WokenIs
<1>2. CASE t.state # "running"
  <2>1. Closed(t) = t /\ t.state \in {"new", "closed"}
    BY <1>2 DEF Closed, TransportType
  <2>2. QED
    BY <2>1, SameFrom DEF TransportType
<1>3. QED
  BY <1>1, <1>2

LEMMA DiedIs ==
  ASSUME NEW t \in TransportType, t.generation = 0
  PROVE  /\ Died(t) \in TransportType /\ Died(t).state = "closed"
         /\ Died(t).left = t.left
         /\ EventsFrom(Died(t).events, t.events)
<1>1. PICK s : s = [t EXCEPT !.state = "closed", !.generation = t.generation + 1]
  OBVIOUS
<1>2. /\ s \in TransportType /\ s.state = "closed" /\ s.left = t.left
      /\ s.events = t.events
  <2>1. t.generation + 1 = 1
    OBVIOUS
  <2>2. s = [t EXCEPT !.state = "closed", !.generation = 1]
    BY <1>1, <2>1
  <2>3. QED
    BY <2>2 DEF TransportType
<1>3. Died(t) = Woken(s)
  BY <1>1 DEF Died
<1>4. QED
  BY <1>2, <1>3, WokenIs

LEMMA RestingEmpty ==
  /\ Resting(<<>>) \in ProcessType /\ Resting(<<>>).inbox = <<>>
  /\ Resting(<<>>).turn = None /\ ~Resting(<<>>).open
<1>1. <<>> \in Seq(Turns \cup {None})
  OBVIOUS
<1>2. QED
  BY <1>1 DEF Resting, ProcessType

LEMMA RestingIs ==
  ASSUME NEW inbox \in Seq(Turns \cup {None})
  PROVE  /\ Resting(inbox) \in ProcessType /\ Resting(inbox).inbox = inbox
         /\ Resting(inbox).turn = None /\ ~Resting(inbox).open
BY DEF Resting, ProcessType

-----------------------------------------------------------------------------
(* A step that adds nothing to what a transport and its process hold.       *)

Kept(n) ==
    /\ transport[n].state = "new" => transport'[n] = transport[n] /\ pi'[n] = pi[n]
    /\ transport[n].state # "new" => transport'[n].state # "new"
    /\ transport'[n].state # "closed" =>
          transport[n].state # "closed" /\ transport'[n].generation = transport[n].generation

Quiet(n) ==
    /\ EventsFrom(transport'[n].events, transport[n].events)
    /\ InboxFrom(pi'[n].inbox, pi[n].inbox)
    /\ \/ pi'[n].turn = None /\ ~pi'[n].open
       \/ /\ pi'[n].turn = pi[n].turn
          /\ pi'[n].called = pi[n].called /\ pi'[n].open = pi[n].open
    /\ transport[n].left => transport'[n].left

LEMMA Untouched ==
  ASSUME PiTypeOK, NEW n \in Transports, transport'[n] = transport[n], pi'[n] = pi[n]
  PROVE  Kept(n) /\ Quiet(n)
<1>1. transport[n].events \in Seq(Event) /\ pi[n].inbox \in Seq(Turns \cup {None})
  BY PiTyped DEF PiTypes, TransportType, ProcessType
<1>2. QED
  BY <1>1, SameFrom, SameInbox DEF Kept, Quiet

\* What holds of the transports reached while the worker is in one request.
LEMMA ReachKept ==
  ASSUME Reach, PiTypeOK', \A n \in Transports : Kept(n), UNCHANGED answers,
         worker'.on = worker.on, worker'.at = "idle" <=> worker.at = "idle",
         worker'.at = "idle" => worker'.confirmed = {}, turn # 0 => turn' # 0,
         client' \in {client, None, worker.on},
         worker'.at = "starting" => worker.at = "starting" /\ client' = None,
         worker.at = "starting" \/ client' \in {client, None},
         worker'.at = worker.at \/ worker.at \notin {"idle", "starting"} \/ client' = worker.on
  PROVE  Reach'
<1>1. Attached'
  BY PiTyped, NoneIsNone DEF Reach, Attached, PiTypes, WorkerType, Kept
<1>2. Unstarted'
  BY DEF Reach, Unstarted, Kept
<1>3. GivenUp'
  <2> SUFFICES ASSUME NEW i \in DOMAIN answers
               PROVE  /\ transport'[answers[i].on].state # "new"
                      /\ answers[i].failed => answers[i].on # client' /\ answers[i].on # worker'.on
    BY DEF GivenUp
  <2>1. answers[i].on \in Transports
    <3>1. answers \in Seq(AnswerType)
      BY PiTyped DEF Reach, PiTypes
    <3>2. answers[i] \in AnswerType
      BY <3>1
    <3>3. QED
      BY <3>2 DEF AnswerType
  <2>2. QED
    BY <2>1, NoneIsNone DEF Reach, GivenUp, Kept
<1>4. FailedIsReplaced'
  BY DEF Reach, FailedIsReplaced
<1>5. QED
  BY <1>1, <1>2, <1>3, <1>4 DEF Reach

\* The answer that decide() gives.
Given(calls, failed) ==
    [turn |-> turn, on |-> worker.on, calls |-> calls, failed |-> failed,
     left |-> transport[worker.on].left]

LEMMA Returned ==
  ASSUME Reach, worker.at # "idle", NEW calls \in SUBSET Turns, NEW failed \in BOOLEAN,
         Return(calls, failed)
  PROVE  /\ worker.on \in Transports /\ turn \in Turns
         /\ worker' = Idle /\ Idle \in WorkerType /\ aborted' = FALSE
         /\ Given(calls, failed) \in AnswerType
         /\ answers' = Append(answers, Given(calls, failed))
         /\ answers' \in Seq(AnswerType)
<1>1. worker.on \in Transports /\ turn \in Turns
  <2>1. worker \in WorkerType /\ turn \in 0 .. MaxTurns /\ turn # 0 /\ worker.on # None
    BY PiTyped DEF Reach, Attached, PiTypes
  <2>2. QED
    BY <2>1, PiBoundAssumption DEF WorkerType, Turns
<1>2. Given(calls, failed) \in AnswerType
  BY <1>1, PiTyped DEF Reach, PiTypes, AnswerType, Given, TransportType
<1>3. answers' = Append(answers, Given(calls, failed))
  BY DEF Return, Given
<1>4. answers' \in Seq(AnswerType)
  BY <1>2, <1>3, OneMore, PiTyped DEF Reach, PiTypes
<1>5. Idle \in WorkerType
  BY DEF Idle, WorkerType
<1>6. QED
  BY <1>1, <1>2, <1>3, <1>4, <1>5 DEF Return

LEMMA ReachReturned ==
  ASSUME Reach, PiTypeOK', \A n \in Transports : Kept(n), worker.at # "idle",
         NEW calls \in SUBSET Turns, NEW failed \in BOOLEAN, Return(calls, failed),
         UNCHANGED turn, client' \in {client, None}, failed => client' = None
  PROVE  Reach'
<1>1. PICK a : a = Given(calls, failed)
  OBVIOUS
<1>2. /\ a \in AnswerType /\ a.on = worker.on /\ a.failed = failed
      /\ answers' = Append(answers, a) /\ worker' = Idle /\ worker.on \in Transports
  BY <1>1, Returned DEF Given
<1>3. /\ \A j \in DOMAIN answers' : (j \in DOMAIN answers /\ answers'[j] = answers[j])
                                     \/ (j = Len(answers) + 1 /\ answers'[j] = a)
      /\ answers \in Seq(AnswerType)
  BY <1>2, OneMore, PiTyped DEF Reach, PiTypes
<1>4. Attached'
  <2>1. client' # None => transport'[client'].state # "new"
    BY PiTyped DEF Reach, Attached, PiTypes, Kept
  <2>2. QED
    BY <1>2, <2>1, NoneIsNone DEF Idle, Attached
<1>5. Unstarted'
  BY DEF Reach, Unstarted, Kept
<1>6. GivenUp'
  <2> SUFFICES ASSUME NEW i \in DOMAIN answers'
               PROVE  /\ transport'[answers'[i].on].state # "new"
                      /\ answers'[i].failed
                           => answers'[i].on # client' /\ answers'[i].on # worker'.on
    BY DEF GivenUp
  <2>1. answers'[i].on \in Transports
    <3>1. answers'[i] \in AnswerType
      BY <1>2, <1>3
    <3>2. QED
      BY <3>1 DEF AnswerType
  <2>2. worker'.on = None
    BY <1>2 DEF Idle
  <2>3. CASE i \in DOMAIN answers /\ answers'[i] = answers[i]
    BY <2>1, <2>2, <2>3, NoneIsNone DEF Reach, GivenUp, Kept
  <2>4. CASE answers'[i] = a
    <3>1. transport[worker.on].state # "new"
      BY <1>2, NoneIsNone DEF Reach, Attached
    <3>2. QED
      BY <2>1, <2>2, <2>4, <3>1, <1>2, NoneIsNone DEF Kept
  <2>5. QED
    BY <1>3, <2>3, <2>4
<1>7. FailedIsReplaced'
  <2> SUFFICES ASSUME NEW i \in DOMAIN answers', NEW j \in DOMAIN answers',
                      i < j, answers'[i].failed
               PROVE  answers'[j].on # answers'[i].on
    BY DEF FailedIsReplaced
  <2>1. i \in DOMAIN answers /\ answers'[i] = answers[i]
    <3>1. DOMAIN answers' = 1 .. Len(answers) + 1 /\ Len(answers) \in Nat
      BY <1>2, <1>3, AppendProperties
    <3>2. QED
      BY <1>3, <3>1
  <2>2. QED
    BY <1>2, <1>3, <2>1 DEF Reach, GivenUp, FailedIsReplaced
<1>8. QED
  BY <1>4, <1>5, <1>6, <1>7 DEF Reach

-----------------------------------------------------------------------------
(* Where a tool call is after a step.                                       *)

PromptFrom(n, t) == \E d \in Nat : \A k \in Nat : Prompt(n, k, t)' => Prompt(n, k + d, t)
DoneFrom(n, t) == \E d \in Nat : \A k \in Nat : CallDone(n, k, t)' => CallDone(n, k + d, t)

NoNearer(n, t) ==
    /\ PromptFrom(n, t) /\ DoneFrom(n, t)
    /\ MayFinish(n, t)' => MayFinish(n, t)

LEMMA TokenStays ==
  ASSUME NEW t \in Turns, InOnePlace(t), \A n \in Transports : NoNearer(n, t),
         Asked(t) => Asked(t)', Collected(t)' => Collected(t),
         t \in worker'.confirmed => t \in worker.confirmed /\ (Answered(t)' => Answered(t))
  PROVE  InOnePlace(t)'
<1>1. Said(t)' => Said(t)
  <2>1. ASSUME NEW n \in Transports, NEW k \in Nat, CallDone(n, k, t)'
        PROVE  \E l \in Nat : CallDone(n, l, t)
    BY <2>1 DEF NoNearer, DoneFrom
  <2>2. QED
    BY <2>1 DEF Said
<1>2. Begun(t)' => Begun(t)
  BY <1>1 DEF Begun, NoNearer
<1>3. ASSUME NEW n \in Transports, NEW k \in Nat, Prompt(n, k, t)'
      PROVE  /\ Asked(t)' /\ ~Begun(t)'
             /\ \A m \in Transports, l \in Nat : Prompt(m, l, t)' => m = n /\ l = k
  <2>1. PICK d \in Nat : \A j \in Nat : Prompt(n, j, t)' => Prompt(n, j + d, t)
    BY DEF NoNearer, PromptFrom
  <2>2. Prompt(n, k + d, t) /\ k + d \in Nat
    BY <1>3, <2>1
  <2>3. Asked(t) /\ ~Begun(t)
    BY <2>2 DEF InOnePlace
  <2>4. ASSUME NEW m \in Transports, NEW l \in Nat, Prompt(m, l, t)'
        PROVE  m = n /\ l = k
    <3>1. \E j \in Nat : Prompt(m, j, t)
      BY <2>4 DEF NoNearer, PromptFrom
    <3>2. m = n
      BY <2>2, <3>1 DEF InOnePlace
    <3>3. Prompt(n, l + d, t) /\ l + d \in Nat
      BY <2>1, <2>4, <3>2
    <3>4. l + d = k + d
      BY <2>2, <3>3 DEF InOnePlace
    <3>5. QED
      BY <3>2, <3>4
  <2>5. QED
    BY <1>2, <2>3, <2>4
<1>4. ASSUME NEW n \in Transports, NEW k \in Nat, CallDone(n, k, t)'
      PROVE  /\ ~Collected(t)'
             /\ \A m \in Transports, l \in Nat : CallDone(m, l, t)' => m = n /\ l = k
  <2>1. PICK d \in Nat : \A j \in Nat : CallDone(n, j, t)' => CallDone(n, j + d, t)
    BY DEF NoNearer, DoneFrom
  <2>2. CallDone(n, k + d, t) /\ k + d \in Nat
    BY <1>4, <2>1
  <2>3. ~Collected(t)
    BY <2>2 DEF InOnePlace
  <2>4. ASSUME NEW m \in Transports, NEW l \in Nat, CallDone(m, l, t)'
        PROVE  m = n /\ l = k
    <3>1. \E j \in Nat : CallDone(m, j, t)
      BY <2>4 DEF NoNearer, DoneFrom
    <3>2. m = n
      BY <2>2, <3>1 DEF InOnePlace
    <3>3. CallDone(n, l + d, t) /\ l + d \in Nat
      BY <2>1, <2>4, <3>2
    <3>4. l + d = k + d
      BY <2>2, <3>3 DEF InOnePlace
    <3>5. QED
      BY <3>2, <3>4
  <2>5. QED
    BY <2>3, <2>4
<1>5. \A n \in Transports : MayFinish(n, t)' =>
        ~Said(t)' /\ \A m \in Transports : MayFinish(m, t)' => m = n
  BY <1>1 DEF NoNearer, InOnePlace
<1>6. (Begun(t)' => Asked(t)') /\ (t \in worker'.confirmed => ~Answered(t)')
  BY <1>2 DEF InOnePlace
<1>7. QED
  BY <1>3, <1>4, <1>5, <1>6 DEF InOnePlace

LEMMA QuietToken ==
  ASSUME NEW n \in Transports, NEW t \in Turns, Quiet(n)
  PROVE  NoNearer(n, t)
<1>1. PromptFrom(n, t)
  <2>1. PICK d \in Nat : \A k \in DOMAIN pi'[n].inbox :
          (k + d \in DOMAIN pi[n].inbox /\ pi'[n].inbox[k] = pi[n].inbox[k + d])
            \/ pi'[n].inbox[k] = None
    BY DEF Quiet, InboxFrom
  <2>2. QED
    BY <2>1, NoneIsNone DEF PromptFrom, Prompt
<1>2. DoneFrom(n, t)
  <2>1. PICK d \in Nat : \A k \in DOMAIN transport'[n].events :
          \/ /\ k + d \in DOMAIN transport[n].events
             /\ transport'[n].events[k] = transport[n].events[k + d]
          \/ transport'[n].events[k].kind = "wake" /\ transport'[n].events[k].turn = None
    BY DEF Quiet, EventsFrom
  <2>2. QED
    BY <2>1, NoneIsNone DEF DoneFrom, CallDone
<1>3. MayFinish(n, t)' => MayFinish(n, t)
  BY NoneIsNone DEF Quiet, MayFinish
<1>4. QED
  BY <1>1, <1>2, <1>3 DEF NoNearer

LEMMA OnceKept ==
  ASSUME Once, \A n \in Transports : Quiet(n), UNCHANGED answers,
         worker'.confirmed \subseteq worker.confirmed, \A t \in Turns : Asked(t) => Asked(t)'
  PROVE  Once'
<1>1. ASSUME NEW t \in Turns PROVE InOnePlace(t)'
  <2>1. Answered(t)' = Answered(t)
    BY DEF Answered
  <2>2. Collected(t)' => Collected(t)
    BY <2>1 DEF Collected
  <2>3. QED
    BY <2>1, <2>2, QuietToken, TokenStays DEF Once
<1>2. CallFirst'
  BY DEF Once, CallFirst, Quiet
<1>3. NoCallTwice'
  BY DEF Once, NoCallTwice
<1>4. QED
  BY <1>1, <1>2, <1>3 DEF Once

LEMMA OnceReturned ==
  ASSUME Reach, Once, \A n \in Transports : Quiet(n), worker.at # "idle",
         NEW calls \in SUBSET worker.confirmed, NEW failed \in BOOLEAN,
         Return(calls, failed), UNCHANGED turn
  PROVE  Once'
<1>0. calls \in SUBSET Turns
  BY PiTyped DEF Reach, PiTypes, WorkerType
<1>1. PICK a : a = Given(calls, failed)
  OBVIOUS
<1>2. /\ a \in AnswerType /\ a.calls = calls
      /\ answers' = Append(answers, a) /\ worker' = Idle
  BY <1>0, <1>1, Returned DEF Given
<1>3. /\ \A j \in DOMAIN answers' : (j \in DOMAIN answers /\ answers'[j] = answers[j])
                                     \/ (j = Len(answers) + 1 /\ answers'[j] = a)
      /\ answers \in Seq(AnswerType)
  BY <1>2, OneMore, PiTyped DEF Reach, PiTypes
<1>4. ASSUME NEW t \in Turns PROVE InOnePlace(t)'
  <2>1. Answered(t)' => Collected(t)
    BY <1>2, <1>3 DEF Answered, Collected
  <2>2. t \notin worker'.confirmed
    BY <1>2 DEF Idle
  <2>3. Collected(t)' => Collected(t)
    BY <2>1, <2>2 DEF Collected
  <2>4. Asked(t) => Asked(t)'
    BY <1>2 DEF Asked, Idle
  <2>5. QED
    BY <2>2, <2>3, <2>4, QuietToken, TokenStays DEF Once
<1>5. CallFirst'
  BY DEF Once, CallFirst, Quiet
<1>6. NoCallTwice'
  <2>1. \A i \in DOMAIN answers : answers[i].calls \cap calls = {}
    BY <1>0 DEF Once, InOnePlace, Answered
  <2>2. QED
    BY <1>2, <1>3, <2>1 DEF Once, NoCallTwice
<1>7. QED
  BY <1>4, <1>5, <1>6 DEF Once

-----------------------------------------------------------------------------
(* What a transport holds that no turn has left.                            *)

LEMMA NamesKept ==
  ASSUME EventNamed, \A n \in Transports : Quiet(n)
  PROVE  EventNamed'
<1> SUFFICES ASSUME NEW n \in Transports, NEW k \in DOMAIN transport'[n].events
             PROVE  transport'[n].events[k].turn = None <=> transport'[n].events[k].kind = "wake"
  BY DEF EventNamed
<1>1. QED
  BY DEF EventNamed, Quiet, EventsFrom

LEMMA StaysClean ==
  ASSUME PiTypeOK', Own, NEW n \in Transports, Reached(n), Quiet(n), EventNamed',
         Mine(n) \subseteq Mine(n)', worker'.on = n => worker'.confirmed \subseteq Mine(n)'
  PROVE  Clean(n)' /\ EndIsLast(n)'
<1>0. Clean(n) /\ EndIsLast(n) /\ None \in Mine(n)'
  BY DEF Own, Mine
<1>1. PICK d \in Nat : \A k \in DOMAIN pi'[n].inbox :
        (k + d \in DOMAIN pi[n].inbox /\ pi'[n].inbox[k] = pi[n].inbox[k + d])
          \/ pi'[n].inbox[k] = None
  BY DEF Quiet, InboxFrom
<1>2. PICK c \in Nat : \A k \in DOMAIN transport'[n].events :
        \/ /\ k + c \in DOMAIN transport[n].events
           /\ transport'[n].events[k] = transport[n].events[k + c]
        \/ transport'[n].events[k].kind = "wake" /\ transport'[n].events[k].turn = None
  BY DEF Quiet, EventsFrom
<1>3. pi'[n].turn \in {pi[n].turn, None}
  BY DEF Quiet
<1>4. DOMAIN pi'[n].inbox \subseteq Nat /\ DOMAIN transport'[n].events \subseteq Nat
  <2>1. pi'[n].inbox \in Seq(Turns \cup {None}) /\ transport'[n].events \in Seq(Event)
    BY PiTypedThen DEF PiTypes, ProcessType, TransportType
  <2>2. QED
    BY <2>1
<1>5. Clean(n)'
  <2>1. \A k \in DOMAIN pi'[n].inbox : pi'[n].inbox[k] \in Mine(n)'
    BY <1>0, <1>1 DEF Clean
  <2>2. pi'[n].turn \in Mine(n)'
    BY <1>0, <1>3 DEF Clean
  <2>3. \A k \in DOMAIN transport'[n].events : transport'[n].events[k].turn \in Mine(n)'
    BY <1>0, <1>2 DEF Clean
  <2>4. ASSUME NEW k \in DOMAIN pi'[n].inbox, NEW l \in DOMAIN pi'[n].inbox,
               pi'[n].inbox[k] # None, pi'[n].inbox[l] # None
        PROVE  k = l
    <3>1. k + d = l + d
      BY <1>0, <1>1, <2>4 DEF Clean
    <3>2. k \in Nat /\ l \in Nat
      BY <1>4, <2>4
    <3>3. QED
      BY <3>1, <3>2, <1>1
  <2>5. \A k \in DOMAIN pi'[n].inbox : pi'[n].inbox[k] # None => pi'[n].turn = None
    BY <1>0, <1>1, <1>3 DEF Clean
  <2>6. QED
    BY <2>1, <2>2, <2>3, <2>4, <2>5 DEF Clean
<1>6. EndIsLast(n)'
  <2> SUFFICES ASSUME NEW k \in DOMAIN transport'[n].events,
                      transport'[n].events[k].kind = "end"
               PROVE  /\ pi'[n].turn = None
                      /\ \A l \in DOMAIN pi'[n].inbox : pi'[n].inbox[l] = None
                      /\ \A l \in DOMAIN transport'[n].events :
                            l > k => transport'[n].events[l].turn = None
    BY DEF EndIsLast
  <2>1. k + c \in DOMAIN transport[n].events /\ transport[n].events[k + c].kind = "end"
    BY <1>2
  <2>2. /\ pi[n].turn = None
        /\ \A l \in DOMAIN pi[n].inbox : pi[n].inbox[l] = None
        /\ \A l \in DOMAIN transport[n].events :
              l > k + c => transport[n].events[l].turn = None
    BY <1>0, <2>1 DEF EndIsLast
  <2>3. ASSUME NEW l \in DOMAIN transport'[n].events, l > k
        PROVE  transport'[n].events[l].turn = None
    <3>1. l + c > k + c
      BY <1>4, <2>3
    <3>2. QED
      BY <1>2, <2>2, <3>1
  <2>4. pi'[n].turn = None
    BY <1>3, <2>2
  <2>5. \A l \in DOMAIN pi'[n].inbox : pi'[n].inbox[l] = None
    BY <1>1, <2>2
  <2>6. QED
    BY <2>3, <2>4, <2>5
<1>7. QED
  BY <1>5, <1>6

LEMMA OwnKept ==
  ASSUME PiTypeOK', Own, \A n \in Transports : Quiet(n), UNCHANGED answers,
         \A n \in Transports : Reached(n)' =>
           /\ Reached(n) /\ Mine(n) \subseteq Mine(n)'
           /\ worker'.on = n => worker'.confirmed \subseteq Mine(n)'
  PROVE  Own'
<1>1. EventNamed'
  BY NamesKept DEF Own
<1>2. \A n \in Transports : Reached(n)' => Clean(n)' /\ EndIsLast(n)'
  BY <1>1, StaysClean
<1>3. OwnTurnUntilLeft'
  BY DEF Own, OwnTurnUntilLeft
<1>4. QED
  BY <1>1, <1>2, <1>3 DEF Own

LEMMA OwnAnswered ==
  ASSUME Reach, OwnTurnUntilLeft, worker.at # "idle", NEW calls \in SUBSET Turns,
         NEW failed \in BOOLEAN, Return(calls, failed),
         transport[worker.on].left \/ calls \subseteq {turn}
  PROVE  OwnTurnUntilLeft'
<1>1. PICK a : a = Given(calls, failed)
  OBVIOUS
<1>2. /\ a \in AnswerType /\ (a.left \/ a.calls \subseteq {a.turn})
      /\ answers' = Append(answers, a)
  BY <1>1, Returned DEF Given
<1>3. \A j \in DOMAIN answers' : (j \in DOMAIN answers /\ answers'[j] = answers[j])
                                  \/ answers'[j] = a
  BY <1>2, OneMore, PiTyped DEF Reach, PiTypes
<1>4. QED
  BY <1>2, <1>3 DEF OwnTurnUntilLeft

\* A turn that ends otherwise than by agent_end takes its transport out of reach.
LEMMA OwnLeft ==
  ASSUME Reach, Own, \A n \in Transports : Quiet(n), worker.at # "idle",
         NEW failed \in BOOLEAN, Return({}, failed), \A n \in Transports : ~Reached(n)'
  PROVE  Own'
<1>1. OwnTurnUntilLeft'
  BY OwnAnswered DEF Own
<1>2. QED
  BY <1>1, NamesKept DEF Own

-----------------------------------------------------------------------------
(* The steps that add nothing.                                              *)

LEMMA QuietStep ==
  ASSUME PiInv, PiTypeOK', \A n \in Transports : Kept(n) /\ Quiet(n),
         UNCHANGED <<turn, answers>>, client' \in {client, None},
         worker'.on = worker.on, worker'.confirmed \subseteq worker.confirmed,
         worker'.at = worker.at
           \/ (worker.at \in {"asked", "test", "get"} /\ worker'.at \in {"asked", "test", "get"})
  PROVE  PiInv'
<1>1. Reach'
  <2>1. worker'.at = "idle" => worker'.confirmed = {}
    BY DEF PiInv, Reach, Attached
  <2>2. worker'.at = "starting" => client' = None
    BY DEF PiInv, Reach, Attached
  <2>3. QED
    BY <2>1, <2>2, ReachKept DEF PiInv
<1>2. Once'
  BY OnceKept DEF PiInv, Asked
<1>3. Own'
  <2> SUFFICES ASSUME NEW n \in Transports, Reached(n)'
               PROVE  /\ Reached(n) /\ Mine(n) \subseteq Mine(n)'
                      /\ worker'.on = n => worker'.confirmed \subseteq Mine(n)'
    BY OwnKept DEF PiInv
  <2>1. Reached(n)
    BY NoneIsNone DEF Reached, Quiet
  <2>2. Mine(n) \subseteq Mine(n)'
    BY DEF Mine
  <2>3. QED
    BY <2>1, <2>2 DEF PiInv, Own, Clean
<1>4. QED
  BY <1>1, <1>2, <1>3 DEF PiInv

LEMMA AllUntouched ==
  ASSUME PiTypeOK, UNCHANGED <<transport, pi>>
  PROVE  \A n \in Transports : Kept(n) /\ Quiet(n)
BY Untouched

LEMMA OneTouched ==
  ASSUME PiTypeOK, NEW n \in Transports, Kept(n) /\ Quiet(n),
         \A m \in Transports \ {n} : transport'[m] = transport[m] /\ pi'[m] = pi[m]
  PROVE  \A m \in Transports : Kept(m) /\ Quiet(m)
BY Untouched

LEMMA ContinuePi ==
  ASSUME PiInv, Continue
  PROVE  PiInv'
<1>1. PiTypes
  BY PiTyped DEF PiInv, Reach
<1>2. worker' \in WorkerType /\ worker' = [worker EXCEPT !.at = "get"]
  BY <1>1 DEF Continue, PiTypes, WorkerType
<1>3. PiTypeOK'
  BY <1>1, <1>2, PiTypedThen DEF PiTypes, Continue, WorkerType
<1>4. QED
  BY <1>1, <1>2, <1>3, AllUntouched, QuietStep DEF PiInv, Reach, Continue, PiTypes, WorkerType

LEMMA TimePassesPi ==
  ASSUME PiInv, TimePasses
  PROVE  PiInv'
<1>1. PiTypes
  BY PiTyped DEF PiInv, Reach
<1>2. worker' \in WorkerType /\ worker' = [worker EXCEPT !.late = TRUE]
  BY <1>1 DEF TimePasses, PiTypes, WorkerType
<1>3. PiTypeOK'
  BY <1>1, <1>2, PiTypedThen DEF PiTypes, TimePasses, WorkerType
<1>4. QED
  BY <1>1, <1>2, <1>3, AllUntouched, QuietStep DEF PiInv, Reach, TimePasses, PiTypes, WorkerType

\* The transport of the request, and the place of an event in its queue.
LEMMA InRequest ==
  ASSUME PiInv, worker.at # "idle"
  PROVE  /\ PiTypes /\ worker.on \in Transports /\ turn \in Turns
         /\ transport[worker.on] \in TransportType /\ transport[worker.on].state # "new"
         /\ Queue = transport[worker.on].events /\ Position \in 0 .. Len(Queue)
         /\ Queue \in Seq(Event)
<1>1. PiTypes
  BY PiTyped DEF PiInv, Reach
<1>2. worker.on \in Transports
  BY <1>1 DEF PiInv, Reach, Attached, PiTypes, WorkerType
<1>3. turn \in Turns
  BY <1>1, PiBoundAssumption DEF PiInv, Reach, Attached, PiTypes, Turns
<1>4. transport[worker.on].state # "new"
  BY <1>2, NoneIsNone DEF PiInv, Reach, Attached
<1>5. transport[worker.on] \in TransportType
  BY <1>1, <1>2 DEF PiTypes
<1>6. QED
  BY <1>1, <1>2, <1>3, <1>4, <1>5, AtPosition DEF PiInv, Reach, Queue

\* Without its first events, and perhaps left.
Shortened(t, n, left) == [t EXCEPT !.events = SubSeq(t.events, n + 1, Len(t.events)), !.left = left]

LEMMA ShortenedIs ==
  ASSUME NEW t \in TransportType, NEW n \in 0 .. Len(t.events), NEW left \in {t.left, TRUE}
  PROVE  /\ Shortened(t, n, left) \in TransportType
         /\ Shortened(t, n, left).state = t.state
         /\ Shortened(t, n, left).generation = t.generation
         /\ Shortened(t, n, left).left = left
         /\ Shortened(t, n, left).events = SubSeq(t.events, n + 1, Len(t.events))
         /\ EventsFrom(Shortened(t, n, left).events, t.events)
<1>1. t.events \in Seq(Event) /\ left \in BOOLEAN
  BY DEF TransportType
<1>2. PICK q : q = SubSeq(t.events, n + 1, Len(t.events))
  OBVIOUS
<1>3. q \in Seq(Event) /\ EventsFrom(q, t.events)
  BY <1>1, <1>2, AfterFirst, RestFrom
<1>4. Shortened(t, n, left) = [t EXCEPT !.events = q, !.left = left]
  BY <1>2 DEF Shortened
<1>5. QED
  BY <1>1, <1>2, <1>3, <1>4 DEF TransportType

LEMMA TakePi ==
  ASSUME PiInv, worker.at # "idle", NEW i \in 0 .. Len(Queue), Take(i), UNCHANGED pi
  PROVE  /\ transport' \in [Transports -> TransportType]
         /\ transport'[worker.on].events = SubSeq(Queue, i + 1, Len(Queue))
         /\ transport'[worker.on].left = transport[worker.on].left
         /\ \A n \in Transports : Kept(n) /\ Quiet(n)
<1>1. /\ PiTypes /\ worker.on \in Transports /\ transport[worker.on] \in TransportType
      /\ transport[worker.on].state # "new" /\ Queue = transport[worker.on].events
  BY InRequest
<1>2. PICK t : t = transport[worker.on]
  OBVIOUS
<1>3. t \in TransportType /\ i \in 0 .. Len(t.events) /\ t.left \in {t.left, TRUE}
  BY <1>1, <1>2
<1>4. PICK s : s = Shortened(t, i, t.left)
  OBVIOUS
<1>5. /\ s \in TransportType /\ s.state = t.state /\ s.generation = t.generation
      /\ s.left = t.left /\ s.events = SubSeq(t.events, i + 1, Len(t.events))
      /\ EventsFrom(s.events, t.events)
  BY <1>3, <1>4, ShortenedIs
<1>6. transport' = [transport EXCEPT ![worker.on] = s]
  <2>1. s = [t EXCEPT !.events = SubSeq(t.events, i + 1, Len(t.events))]
    BY <1>3, <1>4 DEF Shortened, TransportType
  <2>2. QED
    BY <2>1, <1>1, <1>2 DEF Take, PiTypes
<1>7. /\ transport' \in [Transports -> TransportType] /\ transport'[worker.on] = s
      /\ \A m \in Transports \ {worker.on} : transport'[m] = transport[m]
  BY <1>1, <1>5, <1>6 DEF PiTypes
<1>8. Kept(worker.on) /\ Quiet(worker.on)
  <2>1. InboxFrom(pi'[worker.on].inbox, pi[worker.on].inbox)
    BY <1>1, SameInbox DEF PiTypes, ProcessType
  <2>2. QED
    BY <1>1, <1>2, <1>5, <1>7, <2>1 DEF Kept, Quiet
<1>9. QED
  BY <1>1, <1>2, <1>5, <1>7, <1>8, OneTouched, PiTyped

LEMMA GetNothingPi ==
  ASSUME PiInv, GetNothing
  PROVE  PiInv'
<1>1. PiTypes /\ Len(Queue) \in 0 .. Len(Queue) /\ worker.at = "get"
  BY InRequest DEF GetNothing
<1>2. worker' \in WorkerType /\ worker' = [worker EXCEPT !.at = "test"]
  BY <1>1 DEF GetNothing, PiTypes, WorkerType
<1>3. transport' \in [Transports -> TransportType] /\ \A n \in Transports : Kept(n) /\ Quiet(n)
  BY <1>1, TakePi DEF GetNothing
<1>4. PiTypeOK'
  BY <1>1, <1>2, <1>3, PiTypedThen DEF PiTypes, GetNothing, WorkerType
<1>5. QED
  BY <1>1, <1>2, <1>3, <1>4, QuietStep DEF PiInv, Reach, GetNothing, PiTypes, WorkerType

LEMMA AbortAgentPi ==
  ASSUME PiInv, AbortAgent
  PROVE  PiInv'
<1>1. PiTypes
  BY PiTyped DEF PiInv, Reach
<1>2. ASSUME NEW n \in Transports
      PROVE  transport'[n] \in TransportType /\ Kept(n) /\ Quiet(n)
  <2>1. transport[n] \in TransportType /\ pi'[n] = pi[n]
    BY <1>1 DEF PiTypes, AbortAgent
  <2>2. CASE n = client
    <3>1. transport'[n] = Woken(transport[n]) /\ transport[n].state # "new"
      BY <2>2, NoneIsNone DEF AbortAgent, PiInv, Reach, Attached
    <3>2. InboxFrom(pi'[n].inbox, pi[n].inbox)
      BY <1>1, <2>1, SameInbox DEF PiTypes, ProcessType
    <3>3. QED
      BY <2>1, <3>1, <3>2, WokenIs DEF Kept, Quiet
  <2>3. CASE n # client
    <3>1. transport'[n] = transport[n]
      BY <2>3 DEF AbortAgent
    <3>2. QED
      BY <2>1, <3>1, Untouched, PiTyped, <1>1
  <2>4. QED
    BY <2>2, <2>3
<1>3. transport' \in [Transports -> TransportType]
  BY <1>2 DEF AbortAgent
<1>4. senders' \in [Transports -> Nat] /\ aborts' \in 0 .. MaxAborts
  BY <1>1, PiBoundAssumption DEF AbortAgent, PiTypes
<1>5. PiTypeOK'
  BY <1>1, <1>3, <1>4, PiTypedThen DEF PiTypes, AbortAgent
<1>6. QED
  BY <1>2, <1>5, QuietStep DEF AbortAgent

LEMMA SendAbortPi ==
  ASSUME PiInv, NEW n \in Transports, SendAbort(n)
  PROVE  PiInv'
<1>1. PiTypes
  BY PiTyped DEF PiInv, Reach
<1>2. pi[n] \in ProcessType /\ transport'[n] = transport[n]
  BY <1>1 DEF PiTypes, SendAbort
<1>3. senders' \in [Transports -> Nat]
  BY <1>1 DEF PiTypes, SendAbort
<1>4. CASE transport[n].state = "running"
  <2>1. PICK q : q = Append(pi[n].inbox, None)
    OBVIOUS
  <2>2. q \in Seq(Turns \cup {None}) /\ InboxFrom(q, pi[n].inbox)
    BY <1>2, <2>1, OneMore, AbortInbox DEF ProcessType
  <2>3. /\ pi' \in [Transports -> ProcessType] /\ pi'[n] = [pi[n] EXCEPT !.inbox = q]
        /\ \A m \in Transports \ {n} : pi'[m] = pi[m]
    BY <1>1, <1>2, <1>4, <2>1, <2>2 DEF PiTypes, SendAbort, ProcessType
  <2>4. EventsFrom(transport'[n].events, transport[n].events)
    BY <1>1, <1>2, SameFrom DEF PiTypes, TransportType
  <2>5. Kept(n) /\ Quiet(n)
    BY <1>2, <1>4, <2>2, <2>3, <2>4 DEF Kept, Quiet, ProcessType
  <2>6. \A m \in Transports : Kept(m) /\ Quiet(m)
    BY <1>1, <2>3, <2>5, OneTouched, PiTyped DEF SendAbort
  <2>7. PiTypeOK'
    BY <1>1, <1>3, <2>3, PiTypedThen DEF PiTypes, SendAbort
  <2>8. QED
    BY <2>6, <2>7, QuietStep DEF SendAbort
<1>5. CASE transport[n].state # "running"
  <2>1. PiTypeOK' /\ UNCHANGED <<transport, pi>>
    BY <1>1, <1>3, <1>5, PiTypedThen DEF PiTypes, SendAbort
  <2>2. QED
    BY <1>1, <2>1, AllUntouched, QuietStep, PiTyped DEF SendAbort
<1>6. QED
  BY <1>4, <1>5

\* Closing the client.
LEMMA Closes ==
  ASSUME PiInv, CloseClient
  PROVE  /\ client' = None /\ transport' \in [Transports -> TransportType]
         /\ pi' \in [Transports -> ProcessType]
         /\ \A n \in Transports : Kept(n) /\ Quiet(n)
<1>1. PiTypes
  BY PiTyped DEF PiInv, Reach
<1>2. ASSUME NEW n \in Transports
      PROVE  /\ transport'[n] \in TransportType /\ pi'[n] \in ProcessType
             /\ Kept(n) /\ Quiet(n)
  <2>1. transport[n] \in TransportType /\ pi[n] \in ProcessType
    BY <1>1 DEF PiTypes
  <2>2. CASE n = client
    <3>1. /\ transport'[n] = Closed(transport[n]) /\ pi'[n] = Resting(<<>>)
          /\ transport[n].state # "new"
      BY <2>2, NoneIsNone DEF CloseClient, PiInv, Reach, Attached
    <3>2. /\ Resting(<<>>) \in ProcessType /\ Resting(<<>>).inbox = <<>>
          /\ Resting(<<>>).turn = None /\ ~Resting(<<>>).open
      BY RestingEmpty
    <3>3. InboxFrom(pi'[n].inbox, pi[n].inbox)
      BY <3>1, <3>2, NothingFrom
    <3>4. QED
      BY <2>1, <3>1, <3>2, <3>3, ClosedIs DEF Kept, Quiet
  <2>3. CASE n # client
    <3>1. transport'[n] = transport[n] /\ pi'[n] = pi[n]
      BY <2>3 DEF CloseClient
    <3>2. QED
      BY <2>1, <3>1, Untouched, PiTyped, <1>1
  <2>4. QED
    BY <2>2, <2>3
<1>3. transport' \in [Transports -> TransportType] /\ pi' \in [Transports -> ProcessType]
  BY <1>2 DEF CloseClient
<1>4. QED
  BY <1>2, <1>3 DEF CloseClient

LEMMA ShutdownPi ==
  ASSUME PiInv, Shutdown
  PROVE  PiInv'
<1>1. PiTypes
  BY PiTyped DEF PiInv, Reach
<1>2. PiTypeOK'
  BY <1>1, Closes, PiTypedThen DEF PiTypes, Shutdown
<1>3. QED
  BY <1>2, Closes, QuietStep DEF Shutdown

LEMMA PiRefusesPi ==
  ASSUME PiInv, NEW n \in Transports, PiRefuses(n)
  PROVE  PiInv'
<1>1. PiTypes
  BY PiTyped DEF PiInv, Reach
<1>2. pi[n] \in ProcessType /\ transport'[n] = transport[n] /\ transport[n] \in TransportType
  BY <1>1 DEF PiTypes, PiRefuses
<1>3. PICK q : q = Tail(pi[n].inbox)
  OBVIOUS
<1>4. q \in Seq(Turns \cup {None}) /\ InboxFrom(q, pi[n].inbox)
  BY <1>2, <1>3, Head1, TailInbox DEF ProcessType, PiRefuses
<1>5. /\ pi' \in [Transports -> ProcessType] /\ pi'[n] = [pi[n] EXCEPT !.inbox = q]
      /\ \A m \in Transports \ {n} : pi'[m] = pi[m]
  BY <1>1, <1>2, <1>3, <1>4 DEF PiTypes, PiRefuses, ProcessType
<1>6. transport[n].state # "new"
  <2>1. ASSUME transport[n].state = "new" PROVE FALSE
    <3>1. pi[n].inbox = <<>>
      BY <2>1, RestingEmpty DEF PiInv, Reach, Unstarted
    <3>2. QED
      BY <3>1 DEF PiRefuses
  <2>2. QED
    BY <2>1
<1>7. Kept(n) /\ Quiet(n)
  BY <1>2, <1>4, <1>5, <1>6, SameFrom DEF Kept, Quiet, ProcessType, TransportType
<1>8. \A m \in Transports : Kept(m) /\ Quiet(m)
  BY <1>1, <1>5, <1>7, OneTouched, PiTyped DEF PiRefuses
<1>9. PiTypeOK'
  BY <1>1, <1>5, PiTypedThen DEF PiTypes, PiRefuses
<1>10. QED
  BY <1>8, <1>9, QuietStep DEF PiRefuses

LEMMA PiDiesPi ==
  ASSUME PiInv, NEW n \in Transports, PiDies(n)
  PROVE  PiInv'
<1>1. PiTypes
  BY PiTyped DEF PiInv, Reach
<1>2. transport[n] \in TransportType /\ transport[n].state = "running" /\ transport[n].generation = 0
  BY <1>1 DEF PiTypes, PiDies, PiInv, Reach, Unstarted
<1>3. /\ Died(transport[n]) \in TransportType /\ Died(transport[n]).state = "closed"
      /\ Died(transport[n]).left = transport[n].left
      /\ EventsFrom(Died(transport[n]).events, transport[n].events)
  BY <1>2, DiedIs
<1>4. /\ Resting(<<>>) \in ProcessType /\ Resting(<<>>).inbox = <<>>
      /\ Resting(<<>>).turn = None /\ ~Resting(<<>>).open
  BY RestingEmpty
<1>5. /\ transport' \in [Transports -> TransportType] /\ transport'[n] = Died(transport[n])
      /\ pi' \in [Transports -> ProcessType] /\ pi'[n] = Resting(<<>>)
      /\ \A m \in Transports \ {n} : transport'[m] = transport[m] /\ pi'[m] = pi[m]
  BY <1>1, <1>3, <1>4 DEF PiTypes, PiDies
<1>6. Kept(n) /\ Quiet(n)
  <2>1. InboxFrom(pi'[n].inbox, pi[n].inbox)
    BY <1>4, <1>5, NothingFrom
  <2>2. QED
    BY <1>2, <1>3, <1>4, <1>5, <2>1 DEF Kept, Quiet
<1>7. \A m \in Transports : Kept(m) /\ Quiet(m)
  BY <1>1, <1>5, <1>6, OneTouched, PiTyped
<1>8. PiTypeOK'
  BY <1>1, <1>5, PiTypedThen DEF PiTypes, PiDies
<1>9. QED
  BY <1>7, <1>8, QuietStep DEF PiDies

-----------------------------------------------------------------------------
(* The turns that end without an answer.                                    *)

LEMMA GivesUp ==
  ASSUME PiInv, \A n \in Transports : Kept(n) /\ Quiet(n), worker.at # "idle",
         NEW failed \in BOOLEAN, Return({}, failed), UNCHANGED <<turn, aborts, shutDown>>,
         transport' \in [Transports -> TransportType], pi' \in [Transports -> ProcessType],
         senders' \in [Transports -> Nat], client' \in {client, None}, failed => client' = None,
         client' \in Transports => transport'[client'].left
  PROVE  PiInv'
<1>1. PiTypes
  BY PiTyped DEF PiInv, Reach
<1>2. /\ worker' = Idle /\ Idle \in WorkerType /\ aborted' = FALSE
      /\ answers' \in Seq(AnswerType)
  BY Returned DEF PiInv
<1>3. PiTypeOK'
  BY <1>1, <1>2, PiTypedThen DEF PiTypes, Idle
<1>4. Reach'
  BY <1>3, ReachReturned DEF PiInv
<1>5. Once'
  BY OnceReturned DEF PiInv
<1>6. \A n \in Transports : ~Reached(n)'
  BY <1>2, NoneIsNone DEF Reached, Idle
<1>7. Own'
  BY <1>6, OwnLeft DEF PiInv
<1>8. QED
  BY <1>4, <1>5, <1>7 DEF PiInv

\* The client's transport is the one the request runs on.
LEMMA ClientsOwn ==
  ASSUME PiInv, worker.at = "test" \/ worker.at = "get" \/ worker.at = "asked", client \in Transports
  PROVE  client = worker.on
BY NoneIsNone DEF PiInv, Reach, Attached

LEMMA LeavePi ==
  ASSUME PiInv, Leave
  PROVE  PiInv'
<1>1. /\ PiTypes /\ worker.on \in Transports /\ transport[worker.on] \in TransportType
      /\ transport[worker.on].state # "new" /\ worker.at = "test"
  BY InRequest DEF Leave
<1>2. PICK t : t = transport[worker.on]
  OBVIOUS
<1>3. PICK s : s = [t EXCEPT !.left = TRUE]
  OBVIOUS
<1>4. /\ s \in TransportType /\ s.state = t.state /\ s.generation = t.generation
      /\ s.left = TRUE /\ s.events = t.events
  BY <1>1, <1>2, <1>3 DEF TransportType
<1>5. /\ transport' \in [Transports -> TransportType] /\ transport'[worker.on] = s
      /\ \A m \in Transports \ {worker.on} : transport'[m] = transport[m]
  BY <1>1, <1>2, <1>3, <1>4 DEF PiTypes, Leave
<1>6. Kept(worker.on) /\ Quiet(worker.on)
  <2>1. InboxFrom(pi[worker.on].inbox, pi[worker.on].inbox)
    BY <1>1, SameInbox DEF PiTypes, ProcessType
  <2>2. EventsFrom(t.events, t.events)
    BY <1>1, <1>2, SameFrom DEF TransportType
  <2>3. QED
    BY <1>1, <1>2, <1>4, <1>5, <2>1, <2>2 DEF Kept, Quiet, Leave
<1>7. \A n \in Transports : Kept(n) /\ Quiet(n)
  BY <1>1, <1>5, <1>6, OneTouched, PiTyped DEF Leave
<1>8. client' \in Transports => transport'[client'].left
  BY <1>1, <1>4, <1>5, ClientsOwn DEF Leave
<1>9. pi' \in [Transports -> ProcessType] /\ senders' \in [Transports -> Nat]
  BY <1>1 DEF PiTypes, Leave
<1>10. Return({}, FALSE) /\ UNCHANGED <<turn, aborts, shutDown, client>>
  BY DEF Leave
<1>11. QED
  BY <1>1, <1>5, <1>7, <1>8, <1>9, <1>10, GivesUp

LEMMA TimeUpPi ==
  ASSUME PiInv, TimeUp
  PROVE  PiInv'
<1>1. /\ PiTypes /\ worker.on \in Transports /\ transport[worker.on] \in TransportType
      /\ transport[worker.on].state # "new" /\ worker.at = "test"
  BY InRequest DEF TimeUp
<1>2. ASSUME NEW n \in Transports
      PROVE  /\ transport'[n] \in TransportType /\ Kept(n) /\ Quiet(n)
             /\ n = worker.on => transport'[n].left
  <2>1. transport[n] \in TransportType /\ pi'[n] = pi[n]
    BY <1>1 DEF PiTypes, TimeUp
  <2>2. PICK t : t = IF n = client THEN Woken(transport[n]) ELSE transport[n]
    OBVIOUS
  <2>3. /\ t \in TransportType /\ t.state = transport[n].state
        /\ t.generation = transport[n].generation /\ t.left = transport[n].left
        /\ EventsFrom(t.events, transport[n].events)
    BY <2>1, <2>2, WokenIs, SameFrom DEF TransportType
  <2>4. transport'[n] = IF n = worker.on THEN [t EXCEPT !.left = TRUE] ELSE t
    BY <2>2 DEF TimeUp
  <2>5. /\ transport'[n] \in TransportType /\ transport'[n].state = t.state
        /\ transport'[n].generation = t.generation /\ transport'[n].events = t.events
        /\ t.left => transport'[n].left
        /\ n = worker.on => transport'[n].left
    BY <2>3, <2>4 DEF TransportType
  <2>6. InboxFrom(pi'[n].inbox, pi[n].inbox)
    BY <1>1, <2>1, SameInbox DEF PiTypes, ProcessType
  <2>7. Quiet(n)
    BY <2>1, <2>3, <2>5, <2>6 DEF Quiet
  <2>8. ASSUME transport[n].state = "new" PROVE transport'[n] = transport[n]
    <3>1. n # worker.on /\ n # client
      BY <1>1, <2>8, NoneIsNone DEF PiInv, Reach, Attached
    <3>2. QED
      BY <2>2, <2>4, <3>1
  <2>9. QED
    BY <2>1, <2>3, <2>5, <2>7, <2>8 DEF Kept
<1>3. transport' \in [Transports -> TransportType]
  BY <1>2 DEF TimeUp
<1>4. client' \in Transports => transport'[client'].left
  BY <1>1, <1>2, ClientsOwn DEF TimeUp
<1>5. pi' \in [Transports -> ProcessType] /\ senders' \in [Transports -> Nat]
  BY <1>1 DEF PiTypes, TimeUp
<1>6. Return({}, FALSE) /\ UNCHANGED <<turn, aborts, shutDown, client>>
  BY DEF TimeUp
<1>7. QED
  BY <1>1, <1>2, <1>3, <1>4, <1>5, <1>6, GivesUp

LEMMA GetWakePi ==
  ASSUME PiInv, GetWake
  PROVE  PiInv'
<1>1. /\ PiTypes /\ worker.on \in Transports /\ transport[worker.on] \in TransportType
      /\ transport[worker.on].state # "new" /\ worker.at = "get"
      /\ Position \in 0 .. Len(transport[worker.on].events)
  BY InRequest DEF GetWake
<1>2. PICK t : t = transport[worker.on]
  OBVIOUS
<1>3. PICK s : s = Shortened(t, Position, TRUE)
  OBVIOUS
<1>4. t \in TransportType /\ Position \in 0 .. Len(t.events) /\ TRUE \in {t.left, TRUE}
  BY <1>1, <1>2
<1>5. /\ s \in TransportType /\ s.state = t.state /\ s.generation = t.generation
      /\ s.left = TRUE /\ EventsFrom(s.events, t.events)
  BY <1>3, <1>4, ShortenedIs
<1>6. transport' = [transport EXCEPT ![worker.on] = s]
  BY <1>1, <1>2, <1>3 DEF GetWake, Shortened, PiTypes
<1>7. /\ transport' \in [Transports -> TransportType] /\ transport'[worker.on] = s
      /\ \A m \in Transports \ {worker.on} : transport'[m] = transport[m]
  BY <1>1, <1>5, <1>6 DEF PiTypes
<1>8. Kept(worker.on) /\ Quiet(worker.on)
  <2>1. InboxFrom(pi[worker.on].inbox, pi[worker.on].inbox)
    BY <1>1, SameInbox DEF PiTypes, ProcessType
  <2>2. QED
    BY <1>1, <1>2, <1>5, <1>7, <2>1 DEF Kept, Quiet, GetWake
<1>9. \A n \in Transports : Kept(n) /\ Quiet(n)
  BY <1>1, <1>7, <1>8, OneTouched, PiTyped DEF GetWake
<1>10. client' \in Transports => transport'[client'].left
  BY <1>1, <1>5, <1>7, ClientsOwn DEF GetWake
<1>11. pi' \in [Transports -> ProcessType] /\ senders' \in [Transports -> Nat]
  BY <1>1 DEF PiTypes, GetWake
<1>12. Return({}, FALSE) /\ UNCHANGED <<turn, aborts, shutDown, client>>
  BY DEF GetWake
<1>13. QED
  BY <1>1, <1>7, <1>9, <1>10, <1>11, <1>12, GivesUp

LEMMA FailsPi ==
  ASSUME PiInv, Fails
  PROVE  PiInv'
<1>1. PiTypes /\ worker.at # "idle"
  BY InRequest DEF Fails
<1>2. Return({}, TRUE) /\ CloseClient /\ UNCHANGED <<turn, senders, aborts, shutDown>>
  BY DEF Fails
<1>3. /\ client' = None /\ transport' \in [Transports -> TransportType]
      /\ pi' \in [Transports -> ProcessType]
      /\ \A n \in Transports : Kept(n) /\ Quiet(n)
  BY <1>2, Closes
<1>4. senders' \in [Transports -> Nat]
  BY <1>1, <1>2 DEF PiTypes
<1>5. QED
  BY <1>1, <1>2, <1>3, <1>4, NoneIsNone, GivesUp

-----------------------------------------------------------------------------
(* A request begins.                                                        *)

LEMMA BegunIs ==
  ASSUME PiInv, NEW n \in Transports, NEW at \in {"asking", "starting"}, BeginOn(n, at)
  PROVE  /\ PiTypes /\ worker.on = None /\ worker.confirmed = {} /\ aborted' = FALSE
         /\ worker' \in WorkerType /\ worker'.at = at /\ worker'.on = n
         /\ worker'.called = {} /\ worker'.confirmed = {}
         /\ turn' \in 0 .. MaxTurns /\ turn' = turn + 1 /\ turn' # 0 /\ turn \in Nat
<1>1. PiTypes
  BY PiTyped DEF PiInv, Reach
<1>2. worker.on = None /\ worker.confirmed = {}
  BY DEF BeginOn, PiInv, Reach, Attached
<1>3. turn' \in 0 .. MaxTurns /\ turn' # 0 /\ turn \in Nat
  BY <1>1, PiBoundAssumption DEF PiTypes, BeginOn
<1>4. worker' = [Idle EXCEPT !.at = at, !.on = n, !.called = {}, !.confirmed = {}]
  BY DEF BeginOn, NoTools
<1>5. QED
  BY <1>1, <1>2, <1>3, <1>4 DEF BeginOn, Idle, WorkerType

LEMMA OnceBegun ==
  ASSUME PiInv, NEW n \in Transports, NEW at \in {"asking", "starting"}, BeginOn(n, at),
         \A m \in Transports : Quiet(m)
  PROVE  Once'
<1>1. worker'.confirmed = {} /\ turn' = turn + 1 /\ turn \in Nat
  BY BegunIs
<1>2. \A t \in Turns : Asked(t) => Asked(t)'
  <2> SUFFICES ASSUME NEW t \in Turns, Asked(t) PROVE t < turn'
    BY DEF Asked
  <2>1. t \in Nat /\ (t < turn \/ t = turn)
    BY PiBoundAssumption DEF Turns, Asked
  <2>2. QED
    BY <1>1, <2>1
<1>3. QED
  BY <1>1, <1>2, OnceKept DEF PiInv, BeginOn

LEMMA BeginAgainPi ==
  ASSUME PiInv, BeginAgain
  PROVE  PiInv'
<1>1. PiTypes /\ client \in Transports
  BY PiTyped DEF PiInv, Reach, BeginAgain, PiTypes
<1>2. BeginOn(client, "asking") /\ UNCHANGED <<transport, pi, client, answers, senders, aborts, shutDown>>
  BY DEF BeginAgain, BeginOn
<1>3. /\ worker.on = None
      /\ worker' \in WorkerType /\ worker'.at = "asking" /\ worker'.on = client
      /\ worker'.called = {} /\ worker'.confirmed = {}
      /\ turn' \in 0 .. MaxTurns /\ turn' # 0 /\ aborted' = FALSE
  BY <1>1, <1>2, BegunIs
<1>4. PiTypeOK'
  BY <1>1, <1>2, <1>3, PiTypedThen DEF PiTypes
<1>5. \A n \in Transports : Kept(n) /\ Quiet(n)
  BY <1>1, <1>2, AllUntouched, PiTyped
<1>6. Reach'
  <2>1. Attached'
    BY <1>1, <1>2, <1>3, NoneIsNone DEF PiInv, Reach, Attached
  <2>2. Unstarted' /\ FailedIsReplaced'
    BY <1>2 DEF PiInv, Reach, Unstarted, FailedIsReplaced
  <2>3. GivenUp'
    BY <1>2, <1>3 DEF PiInv, Reach, GivenUp
  <2>4. QED
    BY <1>4, <2>1, <2>2, <2>3 DEF Reach
<1>7. Once'
  BY <1>1, <1>2, <1>5, OnceBegun
<1>8. Own'
  <2>1. \A n \in Transports : Reached(n)' => Reached(n) /\ Mine(n) \subseteq Mine(n)'
    BY <1>2, <1>3, NoneIsNone DEF Reached, Mine
  <2>2. QED
    BY <1>2, <1>3, <1>4, <1>5, <2>1, OwnKept DEF PiInv
<1>9. QED
  BY <1>6, <1>7, <1>8 DEF PiInv

LEMMA BeginAnewPi ==
  ASSUME PiInv, NEW n \in Transports, BeginAnew(n)
  PROVE  PiInv'
<1>1. PiTypes
  BY PiTyped DEF PiInv, Reach
<1>2. BeginOn(n, "starting") /\ UNCHANGED <<pi, client, answers, senders, aborts, shutDown>>
  BY DEF BeginAnew, BeginOn
<1>3. /\ worker.on = None
      /\ worker' \in WorkerType /\ worker'.at = "starting" /\ worker'.on = n
      /\ worker'.called = {} /\ worker'.confirmed = {}
      /\ turn' \in 0 .. MaxTurns /\ turn' # 0 /\ aborted' = FALSE
  BY <1>2, BegunIs
<1>4. transport[n] = NewTransport /\ pi[n] = Resting(<<>>) /\ client = None
  BY DEF BeginAnew, PiInv, Reach, Unstarted
<1>5. /\ transport' \in [Transports -> TransportType]
      /\ transport'[n] = [NewTransport EXCEPT !.state = "running"]
      /\ \A m \in Transports \ {n} : transport'[m] = transport[m]
  BY <1>1, <1>4 DEF PiTypes, BeginAnew, TransportType
<1>6. /\ transport'[n].state = "running" /\ transport'[n].generation = 0
      /\ transport'[n].events = <<>> /\ ~transport'[n].left
  BY <1>5 DEF NewTransport
<1>7. PiTypeOK'
  BY <1>1, <1>2, <1>3, <1>5, PiTypedThen DEF PiTypes
<1>8. Reach'
  <2>1. Attached'
    BY <1>2, <1>3, <1>4, <1>6, NoneIsNone DEF Attached
  <2>2. Unstarted'
    BY <1>2, <1>5, <1>6 DEF PiInv, Reach, Unstarted
  <2>3. \A i \in DOMAIN answers : answers[i].on \in Transports /\ answers[i].on # n
    <3>1. answers \in Seq(AnswerType)
      BY <1>1 DEF PiTypes
    <3>2. \A i \in DOMAIN answers : answers[i] \in AnswerType
      BY <3>1
    <3>3. QED
      BY <3>2 DEF AnswerType, PiInv, Reach, GivenUp, BeginAnew
  <2>4. GivenUp' /\ FailedIsReplaced'
    BY <1>2, <1>3, <1>4, <1>5, <2>3, NoneIsNone DEF PiInv, Reach, GivenUp, FailedIsReplaced
  <2>5. QED
    BY <1>7, <2>1, <2>2, <2>4 DEF Reach
<1>9. \A m \in Transports : Quiet(m)
  <2>1. Quiet(n)
    <3>1. EventsFrom(transport'[n].events, transport[n].events)
      BY <1>6, NothingFrom
    <3>2. InboxFrom(pi'[n].inbox, pi[n].inbox)
      BY <1>1, <1>2, SameInbox DEF PiTypes, ProcessType
    <3>3. ~transport[n].left
      BY <1>4 DEF NewTransport
    <3>4. QED
      BY <1>2, <3>1, <3>2, <3>3 DEF Quiet
  <2>2. QED
    BY <1>1, <1>2, <1>5, <2>1, Untouched, PiTyped
<1>10. Once'
  BY <1>2, <1>9, OnceBegun
<1>11. Own'
  <2>1. EventNamed'
    BY <1>9, NamesKept DEF PiInv, Own
  <2>2. ASSUME NEW m \in Transports, Reached(m)'
        PROVE  Clean(m)' /\ EndIsLast(m)'
    <3>1. m = n
      BY <1>2, <1>3, <1>4, <2>2, NoneIsNone DEF Reached
    <3>2. pi'[n].inbox = <<>> /\ pi'[n].turn = None
      BY <1>2, <1>4, RestingEmpty
    <3>3. QED
      BY <1>3, <1>6, <3>1, <3>2 DEF Clean, EndIsLast, Mine
  <2>3. OwnTurnUntilLeft'
    BY <1>2 DEF PiInv, Own, OwnTurnUntilLeft
  <2>4. QED
    BY <2>1, <2>2, <2>3 DEF Own
<1>12. QED
  BY <1>8, <1>10, <1>11 DEF PiInv

LEMMA StartedPi ==
  ASSUME PiInv, Started
  PROVE  PiInv'
<1>1. PiTypes /\ worker.on \in Transports /\ worker.at = "starting"
  BY InRequest DEF Started
<1>2. worker' \in WorkerType /\ worker' = [worker EXCEPT !.at = "asking"]
  BY <1>1 DEF Started, PiTypes, WorkerType
<1>3. /\ worker'.at = "asking" /\ worker'.on = worker.on
      /\ worker'.confirmed = worker.confirmed /\ worker'.called = worker.called
  BY <1>1, <1>2 DEF PiTypes, WorkerType
<1>4. PiTypeOK'
  BY <1>1, <1>2, <1>3, PiTypedThen DEF PiTypes, Started
<1>5. \A n \in Transports : Kept(n) /\ Quiet(n)
  BY <1>1, AllUntouched, PiTyped DEF Started
<1>6. Reach'
  BY <1>1, <1>3, <1>4, <1>5, ReachKept DEF PiInv, Started
<1>7. Once'
  BY <1>1, <1>3, <1>5, OnceKept DEF PiInv, Started, Asked
<1>8. Own'
  <2>1. \A n \in Transports : Reached(n)' => Reached(n) /\ Mine(n) \subseteq Mine(n)'
    BY <1>1, <1>3, NoneIsNone DEF Reached, Mine, Started
  <2>2. \A n \in Transports : Reached(n)' /\ worker'.on = n => worker'.confirmed \subseteq Mine(n)'
    BY <1>3, <2>1 DEF PiInv, Own, Clean
  <2>3. QED
    BY <1>4, <1>5, <2>1, <2>2, OwnKept DEF PiInv, Started
<1>9. QED
  BY <1>6, <1>7, <1>8 DEF PiInv

-----------------------------------------------------------------------------
(* The prompt, and the events of the turn.                                  *)

LEMMA AskPi ==
  ASSUME PiInv, Ask
  PROVE  PiInv'
<1>1. /\ PiTypes /\ worker.on \in Transports /\ turn \in Turns /\ worker.at = "asking"
      /\ transport[worker.on].generation \in {0, 1}
  BY InRequest DEF Ask, TransportType
<1>2. PICK n : n = worker.on
  OBVIOUS
<1>3. worker' \in WorkerType /\ worker' = [worker EXCEPT !.at = "asked",
                                             !.generation = transport[worker.on].generation]
  BY <1>1 DEF Ask, PiTypes, WorkerType
<1>4. /\ worker'.at = "asked" /\ worker'.on = n
      /\ worker'.confirmed = worker.confirmed /\ worker'.called = worker.called
  BY <1>1, <1>2, <1>3 DEF PiTypes, WorkerType
<1>5. pi[n] \in ProcessType /\ pi[n].inbox \in Seq(Turns \cup {None}) /\ n \in Transports
  BY <1>1, <1>2 DEF PiTypes, ProcessType
<1>6. PICK q : q = Append(pi[n].inbox, turn)
  OBVIOUS
<1>7. /\ q \in Seq(Turns \cup {None})
      /\ \A k \in DOMAIN q : (k \in DOMAIN pi[n].inbox /\ q[k] = pi[n].inbox[k])
                            \/ (k = Len(pi[n].inbox) + 1 /\ q[k] = turn)
  BY <1>1, <1>5, <1>6, OneMore
<1>8. /\ pi' \in [Transports -> ProcessType] /\ pi'[n] = [pi[n] EXCEPT !.inbox = q]
      /\ \A m \in Transports \ {n} : pi'[m] = pi[m]
  BY <1>1, <1>2, <1>5, <1>6, <1>7 DEF Ask, PiTypes, ProcessType
<1>9. /\ pi'[n].inbox = q /\ pi'[n].turn = pi[n].turn
      /\ pi'[n].called = pi[n].called /\ pi'[n].open = pi[n].open
  BY <1>5, <1>8 DEF ProcessType
<1>10. UNCHANGED <<turn, client, transport, answers>>
  BY DEF Ask
<1>11. PiTypeOK'
  BY <1>1, <1>3, <1>4, <1>8, PiTypedThen DEF PiTypes, Ask
<1>12. Reach'
  <2>1. \A m \in Transports : Kept(m)
    BY <1>2, <1>8, <1>10 DEF Kept, Ask
  <2>2. QED
    BY <1>1, <1>2, <1>4, <1>10, <1>11, <2>1, ReachKept DEF PiInv
<1>13. Once'
  <2>1. \A t : \A m \in Transports : MayFinish(m, t)' = MayFinish(m, t)
    BY <1>8, <1>9 DEF MayFinish
  <2>2. \A t : \A m \in Transports, k \in Nat : CallDone(m, k, t)' = CallDone(m, k, t)
    BY <1>10 DEF CallDone
  <2>3. \A t : /\ Collected(t)' = Collected(t) /\ Answered(t)' = Answered(t)
               /\ Said(t)' = Said(t) /\ Begun(t)' = Begun(t)
    BY <1>4, <1>10, <2>1, <2>2 DEF Collected, Answered, Said, Begun
  <2>4. ASSUME NEW t \in Turns, t # turn PROVE InOnePlace(t)'
    <3>1. ASSUME NEW m \in Transports PROVE NoNearer(m, t)
      <4>1. ASSUME NEW k \in Nat, Prompt(m, k, t)' PROVE Prompt(m, k, t)
        <5>1. CASE m = n
          BY <1>7, <1>9, <2>4, <4>1, <5>1 DEF Prompt
        <5>2. CASE m # n
          BY <1>8, <4>1, <5>2 DEF Prompt
        <5>3. QED
          BY <5>1, <5>2
      <4>2. \A k \in Nat : k + 0 = k /\ (CallDone(m, k, t)' => CallDone(m, k, t))
        BY <2>2
      <4>3. PromptFrom(m, t) /\ DoneFrom(m, t)
        BY <4>1, <4>2 DEF PromptFrom, DoneFrom
      <4>4. QED
        BY <4>3, <2>1 DEF NoNearer
    <3>2. Asked(t) => Asked(t)'
      BY <1>10, <2>4 DEF Asked
    <3>3. QED
      BY <1>4, <2>3, <3>1, <3>2, TokenStays DEF PiInv, Once
  <2>5. PICK c \in Turns : c = turn
    BY <1>1
  <2>6. InOnePlace(c)'
    <3>1. ~Asked(c) /\ InOnePlace(c)
      BY <1>1, <2>5, PiBoundAssumption DEF Asked, Turns, PiInv, Once
    <3>2. ~Begun(c) /\ \A m \in Transports, k \in Nat : ~Prompt(m, k, c)
      BY <3>1 DEF InOnePlace
    <3>3. ~Said(c) /\ ~Collected(c)
      BY <3>2 DEF Begun, Said
    <3>4. \A m \in Transports, k \in Nat :
            /\ ~MayFinish(m, c) /\ ~CallDone(m, k, c)
            /\ c \notin worker.confirmed
      BY <3>2, <3>3 DEF Begun, Said, Collected
    <3>5. \A m \in Transports, k \in Nat :
            Prompt(m, k, c)' => m = n /\ k = Len(pi[n].inbox) + 1
      <4> SUFFICES ASSUME NEW m \in Transports, NEW k \in Nat, Prompt(m, k, c)'
                   PROVE  m = n /\ k = Len(pi[n].inbox) + 1
        OBVIOUS
      <4>1. CASE m = n
        BY <1>5, <1>7, <1>9, <3>2, <4>1 DEF Prompt
      <4>2. CASE m # n
        BY <1>8, <3>2, <4>2 DEF Prompt
      <4>3. QED
        BY <4>1, <4>2
    <3>6. Asked(c)'
      BY <1>4, <1>10, <2>5 DEF Asked
    <3>7. /\ ~Begun(c)' /\ c \notin worker'.confirmed
          /\ \A m \in Transports, k \in Nat : ~MayFinish(m, c)' /\ ~CallDone(m, k, c)'
      <4>1. ~Begun(c)'
        BY <2>3, <3>2
      <4>2. c \notin worker'.confirmed
        BY <1>4, <1>5, <3>4
      <4>3. \A m \in Transports, k \in Nat : ~MayFinish(m, c)' /\ ~CallDone(m, k, c)'
        BY <2>1, <2>2, <3>4
      <4>4. QED
        BY <4>1, <4>2, <4>3
    <3>8. QED
      BY <3>5, <3>6, <3>7 DEF InOnePlace
  <2>7. CallFirst'
    BY <1>8, <1>9 DEF PiInv, Once, CallFirst
  <2>8. NoCallTwice'
    BY <1>10 DEF PiInv, Once, NoCallTwice
  <2>9. QED
    BY <1>10, <2>4, <2>5, <2>6, <2>7, <2>8 DEF Once
<1>14. Own'
  <2>1. EventNamed' /\ OwnTurnUntilLeft'
    BY <1>10 DEF PiInv, Own, EventNamed, OwnTurnUntilLeft
  <2>2. ASSUME NEW m \in Transports, Reached(m)'
        PROVE  Clean(m)' /\ EndIsLast(m)'
    <3>1. m = n /\ Reached(n)
      BY <1>1, <1>2, <1>4, <1>10, <2>2, NoneIsNone DEF Reached, PiInv, Reach, Attached
    <3>2. Clean(n) /\ Mine(n) = {None} /\ None \in Mine(n)' /\ turn \in Mine(n)'
      BY <1>1, <1>2, <1>4, <1>10, <3>1 DEF PiInv, Own, Mine
    <3>3. /\ pi'[n].turn = None /\ worker.confirmed \subseteq {None}
          /\ \A k \in DOMAIN pi[n].inbox : pi[n].inbox[k] = None
          /\ \A k \in DOMAIN transport'[n].events : transport'[n].events[k].turn = None
      BY <1>2, <1>9, <1>10, <3>2 DEF Clean
    <3>4. Clean(n)'
      BY <1>4, <1>7, <1>9, <3>2, <3>3 DEF Clean
    <3>5. EndIsLast(n)'
      BY <1>5, <2>1, <3>3 DEF EndIsLast, EventNamed
    <3>6. QED
      BY <3>1, <3>4, <3>5
  <2>3. QED
    BY <2>1, <2>2 DEF Own
<1>15. QED
  BY <1>12, <1>13, <1>14 DEF PiInv

LEMMA GetToolPi ==
  ASSUME PiInv, GetTool
  PROVE  PiInv'
<1>1. /\ PiTypes /\ worker.on \in Transports /\ worker.at = "get" /\ turn \in Turns
      /\ Position \in 0 .. Len(Queue) /\ Position # 0 /\ Queue \in Seq(Event)
      /\ Queue = transport[worker.on].events
  BY InRequest DEF GetTool
<1>2. PICK n : n = worker.on
  OBVIOUS
<1>3. PICK i : i = Position
  OBVIOUS
<1>4. PICK e : e = Queue[Position]
  OBVIOUS
<1>5. /\ i \in DOMAIN transport[n].events /\ transport[n].events[i] = e /\ e \in Event
      /\ i \in Nat
  BY <1>1, <1>2, <1>3, <1>4
<1>6. UNCHANGED <<turn, client, answers, pi>> /\ Take(Position)
  BY DEF GetTool
<1>7. /\ transport' \in [Transports -> TransportType]
      /\ transport'[n].events = SubSeq(transport[n].events, i + 1, Len(transport[n].events))
      /\ \A m \in Transports : Kept(m) /\ Quiet(m)
  BY <1>1, <1>2, <1>3, <1>6, TakePi
<1>8. /\ worker' \in WorkerType /\ worker'.at = "test" /\ worker'.on = n
      /\ worker'.confirmed \subseteq worker'.called
      /\ \/ worker'.confirmed = worker.confirmed
         \/ /\ worker'.confirmed = worker.confirmed \cup {e.turn} /\ e.turn \in Turns
            /\ e.kind = "done"
  <2>1. worker \in WorkerType /\ worker.confirmed \subseteq worker.called
    BY <1>1 DEF PiTypes
  <2>2. CASE e.kind = "call" /\ worker' = [worker EXCEPT !.at = "test", !.called = @ \cup {e.turn}]
    <3>1. e.turn \in Turns
      BY <1>1, <1>2, <1>5, <2>2 DEF PiInv, Own, EventNamed, Event
    <3>2. QED
      BY <1>2, <2>1, <2>2, <3>1 DEF WorkerType
  <2>3. CASE e.kind = "done" /\ worker' = Confirm(worker, e)
    <3>1. CASE e.turn \in worker.called
      <4>1. worker' = [worker EXCEPT !.at = "test", !.confirmed = worker.confirmed \cup {e.turn}]
        BY <2>1, <2>3, <3>1 DEF Confirm, WorkerType
      <4>2. worker.called \subseteq Turns
        BY <2>1 DEF WorkerType
      <4>3. e.turn \in Turns /\ worker.confirmed \cup {e.turn} \in SUBSET Turns
        BY <2>1, <3>1, <4>2
      <4>4. PICK v : v = worker.confirmed \cup {e.turn}
        OBVIOUS
      <4>5. /\ worker' \in WorkerType /\ worker'.at = "test" /\ worker'.on = n
            /\ worker'.confirmed = v /\ worker'.called = worker.called
        BY <1>2, <2>1, <4>1, <4>3, <4>4 DEF WorkerType
      <4>6. QED
        BY <2>1, <2>3, <3>1, <4>3, <4>4, <4>5
    <3>2. CASE e.turn \notin worker.called
      <4>1. worker' = [worker EXCEPT !.at = "test", !.confirmed = worker.confirmed]
        BY <2>1, <2>3, <3>2 DEF Confirm, WorkerType
      <4>2. QED
        BY <1>2, <2>1, <4>1 DEF WorkerType
    <3>3. QED
      BY <3>1, <3>2
  <2>4. CASE e.kind \in {"failed", "retry"} /\ worker' = [worker EXCEPT !.at = "test"]
    BY <1>2, <2>1, <2>4 DEF WorkerType
  <2>5. QED
    BY <1>4, <2>2, <2>3, <2>4 DEF GetTool
<1>9. PiTypeOK'
  BY <1>1, <1>7, <1>8, PiTypedThen DEF PiTypes, GetTool
<1>10. CASE worker'.confirmed = worker.confirmed
  BY <1>1, <1>2, <1>6, <1>7, <1>8, <1>9, <1>10, QuietStep
<1>11. CASE worker'.confirmed = worker.confirmed \cup {e.turn} /\ e.turn \in Turns /\ e.kind = "done"
  <2>1. PICK c \in Turns : c = e.turn
    BY <1>11
  <2>2. CallDone(n, i, c) /\ n \in Transports
    BY <1>1, <1>2, <1>5, <1>11, <2>1 DEF CallDone
  <2>3. Reach'
    BY <1>1, <1>2, <1>6, <1>7, <1>8, <1>9, ReachKept DEF PiInv
  <2>4. Once'
    <3>1. ASSUME NEW t \in Turns, t # c PROVE InOnePlace(t)'
      <4>1. Answered(t)' = Answered(t) /\ (t \in worker'.confirmed => t \in worker.confirmed)
        BY <1>6, <1>11, <2>1, <3>1 DEF Answered
      <4>2. (Collected(t)' => Collected(t)) /\ (Asked(t) => Asked(t)')
        BY <1>1, <1>6, <1>8, <4>1 DEF Collected, Asked
      <4>3. QED
        BY <1>7, <4>1, <4>2, QuietToken, TokenStays DEF PiInv, Once
    <3>2. InOnePlace(c)'
      <4>1. InOnePlace(c)
        BY DEF PiInv, Once
      <4>2. ~Collected(c) /\ Said(c) /\ Begun(c) /\ Asked(c)
        BY <1>5, <2>2, <4>1 DEF InOnePlace, Said, Begun
      <4>3. \A m \in Transports : NoNearer(m, c)
        BY <1>7, QuietToken
      <4>4. ASSUME NEW m \in Transports, NEW k \in Nat PROVE ~CallDone(m, k, c)'
        <5>1. CASE m # n
          <6>1. ~ \E l \in Nat : CallDone(m, l, c)
            BY <1>5, <2>2, <4>1, <5>1 DEF InOnePlace
          <6>2. QED
            BY <4>3, <6>1 DEF NoNearer, DoneFrom
        <5>2. CASE m = n
          <6> SUFFICES ASSUME CallDone(n, k, c)' PROVE FALSE
            BY <5>2
          <6>1. k \in DOMAIN transport'[n].events
            BY DEF CallDone
          <6>2. /\ k + i \in DOMAIN transport[n].events
                /\ transport'[n].events[k] = transport[n].events[k + i]
                /\ k >= 1
            <7>1. /\ transport[n].events \in Seq(Event) /\ i \in 0 .. Len(transport[n].events)
                  /\ transport'[n].events \in Seq(Event)
              BY <1>1, <1>2, <1>3, <1>7, <2>2 DEF TransportType
            <7>2. k >= 1
              BY <6>1, <7>1
            <7>3. QED
              BY <1>7, <6>1, <7>1, <7>2, AfterFirst
          <6>3. CallDone(n, k + i, c)
            BY <6>2 DEF CallDone
          <6>4. k + i = i
            BY <1>5, <2>2, <4>1, <6>3 DEF InOnePlace
          <6>5. QED
            BY <1>5, <6>2, <6>4
        <5>3. QED
          BY <5>1, <5>2
      <4>5. \A m \in Transports, k \in Nat : ~Prompt(m, k, c)' /\ ~MayFinish(m, c)'
        BY <4>1, <4>2, <4>3 DEF InOnePlace, NoNearer, PromptFrom
      <4>6. Asked(c)' /\ ~Answered(c)'
        BY <1>1, <1>6, <1>8, <4>2 DEF Asked, Collected, Answered
      <4>7. QED
        BY <4>4, <4>5, <4>6 DEF InOnePlace
    <3>3. CallFirst' /\ NoCallTwice'
      BY <1>6 DEF PiInv, Once, CallFirst, NoCallTwice
    <3>4. QED
      BY <3>1, <3>2, <3>3 DEF Once
  <2>5. Own'
    <3> SUFFICES ASSUME NEW m \in Transports, Reached(m)'
                 PROVE  /\ Reached(m) /\ Mine(m) \subseteq Mine(m)'
                        /\ worker'.on = m => worker'.confirmed \subseteq Mine(m)'
      BY <1>6, <1>7, <1>9, OwnKept DEF PiInv
    <3>1. Reached(m)
      BY <1>2, <1>6, <1>7, <1>8 DEF Reached, Quiet
    <3>2. Mine(m) = Mine(m)'
      BY <1>1, <1>2, <1>6, <1>8 DEF Mine
    <3>3. Clean(m)
      BY <3>1 DEF PiInv, Own
    <3>4. worker'.on = m => worker'.confirmed \subseteq Mine(m)'
      BY <1>2, <1>5, <1>8, <1>11, <3>2, <3>3 DEF Clean
    <3>5. QED
      BY <3>1, <3>2, <3>4
  <2>6. QED
    BY <2>3, <2>4, <2>5 DEF PiInv
<1>12. QED
  BY <1>8, <1>10, <1>11

LEMMA GetEndPi ==
  ASSUME PiInv, GetEnd
  PROVE  PiInv'
<1>1. /\ PiTypes /\ worker.on \in Transports /\ worker.at = "get" /\ turn \in Turns
      /\ Position \in 0 .. Len(Queue) /\ Position # 0 /\ Queue \in Seq(Event)
      /\ Queue = transport[worker.on].events
  BY InRequest DEF GetEnd
<1>2. PICK n : n = worker.on
  OBVIOUS
<1>3. PICK i : i = Position
  OBVIOUS
<1>4. /\ i \in DOMAIN transport[n].events /\ transport[n].events[i].kind = "end"
      /\ i \in Nat /\ i \in 0 .. Len(transport[n].events) /\ transport[n].events \in Seq(Event)
  BY <1>1, <1>2, <1>3 DEF GetEnd
<1>5. UNCHANGED <<turn, client, pi, senders, aborts, shutDown>> /\ Take(Position)
  BY DEF GetEnd
<1>6. /\ transport' \in [Transports -> TransportType]
      /\ transport'[n].events = SubSeq(transport[n].events, i + 1, Len(transport[n].events))
      /\ \A m \in Transports : Kept(m) /\ Quiet(m)
  BY <1>1, <1>2, <1>3, <1>5, TakePi
<1>7. PICK calls \in SUBSET worker.confirmed : Return(calls, FALSE)
  BY DEF GetEnd, Finalized, Built
<1>8. calls \in SUBSET Turns /\ worker.confirmed \subseteq Turns
  BY <1>1 DEF PiTypes, WorkerType
<1>9. /\ worker' = Idle /\ Idle \in WorkerType /\ aborted' = FALSE
      /\ answers' \in Seq(AnswerType)
  BY <1>1, <1>7, <1>8, Returned DEF PiInv
<1>10. PiTypeOK'
  BY <1>1, <1>5, <1>6, <1>9, PiTypedThen DEF PiTypes, Idle
<1>11. Reach'
  BY <1>1, <1>5, <1>6, <1>7, <1>8, <1>10, ReachReturned DEF PiInv
<1>12. Once'
  BY <1>1, <1>5, <1>6, <1>7, OnceReturned DEF PiInv
<1>13. Own'
  <2>1. OwnTurnUntilLeft'
    <3>1. transport[worker.on].left \/ calls \subseteq {turn}
      <4> SUFFICES ASSUME ~transport[worker.on].left PROVE calls \subseteq {turn}
        OBVIOUS
      <4>1. Clean(worker.on)
        BY <1>1 DEF PiInv, Own, Reached
      <4>2. worker.confirmed \subseteq {turn, None}
        BY <1>1, <4>1 DEF Clean, Mine
      <4>3. QED
        BY <1>7, <1>8, <4>2, NoneIsNone
    <3>2. QED
      BY <1>1, <1>7, <1>8, <3>1, OwnAnswered DEF PiInv, Own
  <2>2. EventNamed'
    BY <1>6, NamesKept DEF PiInv, Own
  <2>3. ASSUME NEW m \in Transports, Reached(m)'
        PROVE  Clean(m)' /\ EndIsLast(m)'
    <3>1. m = n /\ Reached(n)
      <4>1. m = client /\ ~transport'[m].left
        BY <1>5, <1>9, <2>3, NoneIsNone DEF Reached, Idle
      <4>2. m = n
        BY <1>1, <1>2, <4>1, ClientsOwn
      <4>3. QED
        BY <1>6, <4>1, <4>2 DEF Reached, Quiet
    <3>2. /\ pi[n].turn = None
          /\ \A l \in DOMAIN pi[n].inbox : pi[n].inbox[l] = None
          /\ \A l \in DOMAIN transport[n].events : l > i => transport[n].events[l].turn = None
      BY <1>1, <1>2, <1>4, <3>1 DEF PiInv, Own, EndIsLast
    <3>3. \A k \in DOMAIN transport'[n].events : transport'[n].events[k].turn = None
      <4> SUFFICES ASSUME NEW k \in DOMAIN transport'[n].events
                   PROVE  transport'[n].events[k].turn = None
        OBVIOUS
      <4>1. transport'[n].events \in Seq(Event)
        BY <1>1, <1>2, <1>6 DEF TransportType
      <4>2. k \in Nat /\ k >= 1
        BY <4>1
      <4>3. /\ k + i \in DOMAIN transport[n].events
            /\ transport'[n].events[k] = transport[n].events[k + i]
        BY <1>4, <1>6, AfterFirst
      <4>4. k + i > i
        BY <1>4, <4>2
      <4>5. QED
        BY <3>2, <4>3, <4>4
    <3>4. Mine(n)' = {None} /\ worker'.on # n
      BY <1>1, <1>2, <1>9, NoneIsNone DEF Mine, Idle
    <3>5. Clean(n)'
      BY <1>5, <3>2, <3>3, <3>4 DEF Clean
    <3>6. EndIsLast(n)'
      BY <1>1, <1>2, <2>2, <3>3 DEF EndIsLast, EventNamed
    <3>7. QED
      BY <3>1, <3>5, <3>6
  <2>4. QED
    BY <2>1, <2>2, <2>3 DEF Own
<1>14. QED
  BY <1>11, <1>12, <1>13 DEF PiInv

-----------------------------------------------------------------------------
(* What Pi does.                                                            *)

\* A process with a prompt or at work was started.
LEMMA AtWork ==
  ASSUME PiInv, NEW n \in Transports, pi[n].turn # None \/ pi[n].inbox # <<>>
  PROVE  PiTypes /\ transport[n].state # "new"
         /\ transport[n] \in TransportType /\ pi[n] \in ProcessType
<1>1. PiTypes
  BY PiTyped DEF PiInv, Reach
<1>2. transport[n].state # "new"
  <2>1. ASSUME transport[n].state = "new" PROVE FALSE
    <3>1. pi[n].inbox = <<>> /\ pi[n].turn = None
      BY <2>1, RestingEmpty DEF PiInv, Reach, Unstarted
    <3>2. QED
      BY <3>1
  <2>2. QED
    BY <2>1
<1>3. QED
  BY <1>1, <1>2 DEF PiTypes

LEMMA PiAcceptsPi ==
  ASSUME PiInv, NEW n \in Transports, PiAccepts(n)
  PROVE  PiInv'
<1>1. PiTypes /\ transport[n].state # "new" /\ pi[n] \in ProcessType /\ pi[n].inbox # <<>>
  BY AtWork DEF PiAccepts
<1>2. PICK q : q = Tail(pi[n].inbox)
  OBVIOUS
<1>3. PICK c : c = Head(pi[n].inbox)
  OBVIOUS
<1>4. /\ pi[n].inbox \in Seq(Turns \cup {None}) /\ c \in Turns
      /\ q \in Seq(Turns \cup {None}) /\ InboxFrom(q, pi[n].inbox)
      /\ pi[n].inbox[1] = c /\ 1 \in DOMAIN pi[n].inbox
      /\ \A k \in DOMAIN q : q[k] = pi[n].inbox[k + 1] /\ k + 1 \in DOMAIN pi[n].inbox
  BY <1>1, <1>2, <1>3, Head1, TailInbox DEF PiAccepts, ProcessType
<1>5. /\ pi' \in [Transports -> ProcessType] /\ pi'[n] = [Resting(q) EXCEPT !.turn = c]
      /\ \A m \in Transports \ {n} : pi'[m] = pi[m]
  <2>1. Resting(q) \in ProcessType
    BY <1>4, RestingIs
  <2>2. [Resting(q) EXCEPT !.turn = c] \in ProcessType
    BY <1>4, <2>1 DEF ProcessType
  <2>3. pi' = [pi EXCEPT ![n] = [Resting(q) EXCEPT !.turn = c]]
    BY <1>2, <1>3 DEF PiAccepts
  <2>4. QED
    BY <1>1, <2>2, <2>3 DEF PiTypes
<1>6. /\ pi'[n].inbox = q /\ pi'[n].turn = c /\ pi'[n].called = FALSE /\ pi'[n].open = FALSE
  BY <1>5 DEF Resting
<1>7. UNCHANGED <<turn, client, transport, answers, aborted, senders, aborts, shutDown>>
  BY DEF PiAccepts
<1>8. /\ worker' \in WorkerType /\ worker'.on = worker.on
      /\ worker'.confirmed = worker.confirmed /\ worker'.called = worker.called
      /\ worker'.at = worker.at \/ (worker.at = "asked" /\ worker'.at = "test")
  BY <1>1 DEF PiTypes, PiAccepts, WorkerType
<1>9. PiTypeOK'
  BY <1>1, <1>5, <1>7, <1>8, PiTypedThen DEF PiTypes
<1>10. Reach'
  <2>1. \A m \in Transports : Kept(m)
    BY <1>1, <1>5, <1>7 DEF Kept
  <2>2. worker'.at = "idle" => worker'.confirmed = {}
    BY <1>8 DEF PiInv, Reach, Attached
  <2>3. worker'.at = "starting" => client = None
    BY <1>8 DEF PiInv, Reach, Attached
  <2>4. QED
    BY <1>7, <1>8, <1>9, <2>1, <2>2, <2>3, ReachKept DEF PiInv
<1>11. Once'
  <2>1. \A t : \A m \in Transports, k \in Nat : CallDone(m, k, t)' = CallDone(m, k, t)
    BY <1>7 DEF CallDone
  <2>2. \A t : /\ Collected(t)' = Collected(t) /\ Answered(t)' = Answered(t)
               /\ Said(t)' = Said(t)
    BY <1>7, <1>8, <2>1 DEF Collected, Answered, Said
  <2>3. \A t : Asked(t)' = Asked(t)
    BY <1>7, <1>8 DEF Asked
  <2>4. ASSUME NEW t \in Turns, NEW m \in Transports PROVE PromptFrom(m, t) /\ DoneFrom(m, t)
    <3>1. DoneFrom(m, t)
      <4>1. \A k \in Nat : CallDone(m, k, t)' => CallDone(m, k + 0, t)
        BY <2>1
      <4>2. QED
        BY <4>1 DEF DoneFrom
    <3>2. CASE m = n
      <4>1. \A k \in Nat : Prompt(n, k, t)' => Prompt(n, k + 1, t)
        BY <1>4, <1>6 DEF Prompt
      <4>2. QED
        BY <3>1, <3>2, <4>1 DEF PromptFrom
    <3>3. CASE m # n
      <4>1. \A k \in Nat : Prompt(m, k, t)' => Prompt(m, k + 0, t)
        BY <1>5, <3>3 DEF Prompt
      <4>2. QED
        BY <3>1, <4>1 DEF PromptFrom
    <3>4. QED
      BY <3>2, <3>3
  <2>5. ASSUME NEW t \in Turns, t # c PROVE InOnePlace(t)'
    <3>1. \A m \in Transports : MayFinish(m, t)' => MayFinish(m, t)
      BY <1>5, <1>6, <2>5 DEF MayFinish
    <3>2. \A m \in Transports : NoNearer(m, t)
      BY <2>4, <3>1 DEF NoNearer
    <3>3. QED
      BY <1>8, <2>2, <2>3, <3>2, TokenStays DEF PiInv, Once
  <2>6. InOnePlace(c)'
    <3>1. Prompt(n, 1, c) /\ InOnePlace(c) /\ 1 \in Nat
      BY <1>4 DEF Prompt, PiInv, Once
    <3>2. /\ Asked(c) /\ ~Begun(c)
          /\ \A m \in Transports, k \in Nat : Prompt(m, k, c) => m = n /\ k = 1
      BY <3>1 DEF InOnePlace
    <3>3. ~Said(c) /\ ~Collected(c) /\ \A m \in Transports : ~MayFinish(m, c)
      BY <3>2 DEF Begun, Said
    <3>4. \A m \in Transports : MayFinish(m, c)' => m = n
      BY <1>5, <3>3 DEF MayFinish
    <3>5. ASSUME NEW m \in Transports, NEW k \in Nat PROVE ~Prompt(m, k, c)'
      <4>1. CASE m = n
        <5> SUFFICES ASSUME Prompt(n, k, c)' PROVE FALSE
          BY <4>1
        <5>1. k \in DOMAIN q
          BY <1>6 DEF Prompt
        <5>2. k >= 1 /\ Prompt(n, k + 1, c)
          BY <1>4, <1>6, <5>1 DEF Prompt
        <5>3. k + 1 = 1
          BY <3>2, <5>2
        <5>4. QED
          BY <5>2, <5>3
      <4>2. CASE m # n
        BY <1>5, <3>2, <4>2 DEF Prompt
      <4>3. QED
        BY <4>1, <4>2
    <3>6. ~Said(c)' /\ ~Collected(c)' /\ Asked(c)'
      BY <2>2, <2>3, <3>2, <3>3
    <3>7. /\ \A m \in Transports, k \in Nat : ~CallDone(m, k, c)'
          /\ c \notin worker'.confirmed
      BY <3>6 DEF Said, Collected
    <3>8. QED
      BY <3>4, <3>5, <3>6, <3>7 DEF InOnePlace
  <2>7. CallFirst'
    BY <1>5, <1>6 DEF PiInv, Once, CallFirst
  <2>8. NoCallTwice'
    BY <1>7 DEF PiInv, Once, NoCallTwice
  <2>9. QED
    BY <2>5, <2>6, <2>7, <2>8 DEF Once
<1>12. Own'
  <2>1. EventNamed' /\ OwnTurnUntilLeft'
    BY <1>7 DEF PiInv, Own, EventNamed, OwnTurnUntilLeft
  <2>2. ASSUME NEW m \in Transports, Reached(m)'
        PROVE  Clean(m)' /\ EndIsLast(m)'
    <3>1. Reached(m) /\ Mine(m)' = Mine(m)
      BY <1>7, <1>8, <2>2 DEF Reached, Mine
    <3>2. Clean(m) /\ EndIsLast(m)
      BY <3>1 DEF PiInv, Own
    <3>3. CASE m = n
      <4>1. c \in Mine(n) /\ c # None
        BY <1>4, <3>2, <3>3, NoneIsNone DEF Clean
      <4>2. \A k \in DOMAIN q : q[k] = None
        <5> SUFFICES ASSUME NEW k \in DOMAIN q, q[k] # None PROVE FALSE
          OBVIOUS
        <5>1. k + 1 = 1
          BY <1>4, <3>2, <3>3, <4>1 DEF Clean
        <5>2. k \in Nat /\ k >= 1
          BY <1>4
        <5>3. QED
          BY <5>1, <5>2
      <4>3. Clean(n)'
        BY <1>4, <1>6, <1>7, <1>8, <3>1, <3>2, <3>3, <4>1, <4>2 DEF Clean
      <4>4. EndIsLast(n)'
        BY <1>4, <1>7, <3>2, <3>3, <4>1 DEF EndIsLast
      <4>5. QED
        BY <3>3, <4>3, <4>4
    <3>4. CASE m # n
      BY <1>5, <1>7, <1>8, <3>1, <3>2, <3>4 DEF Clean, EndIsLast
    <3>5. QED
      BY <3>3, <3>4
  <2>3. QED
    BY <2>1, <2>2 DEF Own
<1>13. QED
  BY <1>10, <1>11, <1>12 DEF PiInv

\* Pi says something about the prompt it works on; an end is the end of it.
Speaks(n, kind) ==
    /\ Says(n, kind) /\ pi[n].turn # None
    /\ pi' \in [Transports -> ProcessType]
    /\ \A m \in Transports \ {n} : pi'[m] = pi[m]
    /\ InboxFrom(pi'[n].inbox, pi[n].inbox)
    /\ pi'[n].turn = None \/ (pi'[n].turn = pi[n].turn /\ kind # "end")
    /\ pi'[n].open => pi'[n].called

LEMMA SpeaksIs ==
  ASSUME PiInv, NEW n \in Transports, NEW kind \in EventKind \ {"wake"}, Speaks(n, kind)
  PROVE  /\ PiTypeOK' /\ pi[n].turn \in Turns /\ pi[n] \in ProcessType
         /\ transport[n].state # "new" /\ transport'[n].state = transport[n].state
         /\ transport'[n].generation = transport[n].generation
         /\ transport'[n].left = transport[n].left
         /\ \A m \in Transports \ {n} : transport'[m] = transport[m]
         /\ UNCHANGED <<turn, worker, client, answers>>
         /\ transport[n].events \in Seq(Event)
         /\ \E e \in Event :
               /\ e.kind = kind /\ e.turn = pi[n].turn
               /\ transport'[n].events = Append(transport[n].events, e)
<1>1. /\ PiTypes /\ transport[n].state # "new"
      /\ transport[n] \in TransportType /\ pi[n] \in ProcessType
  BY AtWork DEF Speaks
<1>2. pi[n].turn \in Turns /\ kind \in EventKind /\ transport[n].events \in Seq(Event)
  BY <1>1 DEF ProcessType, Speaks, TransportType
<1>3. PICK e : e = [kind |-> kind, turn |-> pi[n].turn, generation |-> transport[n].generation]
  OBVIOUS
<1>4. PICK t : t = Queued(transport[n], kind, pi[n].turn)
  OBVIOUS
<1>5. /\ e \in Event /\ t \in TransportType /\ t.state = transport[n].state
      /\ t.generation = transport[n].generation /\ t.left = transport[n].left
      /\ t.events = Append(transport[n].events, e)
  BY <1>1, <1>2, <1>3, <1>4, QueuedIs
<1>6. transport' = [transport EXCEPT ![n] = t]
  BY <1>4 DEF Speaks, Says
<1>7. /\ transport' \in [Transports -> TransportType] /\ transport'[n] = t
      /\ \A m \in Transports \ {n} : transport'[m] = transport[m]
  BY <1>1, <1>5, <1>6 DEF PiTypes
<1>8. PiTypeOK'
  BY <1>1, <1>7, PiTypedThen DEF PiTypes, Speaks, Says
<1>9. e.kind = kind /\ e.turn = pi[n].turn
  BY <1>3
<1>10. UNCHANGED <<turn, worker, client, answers>>
  BY DEF Speaks, Says
<1>11. QED
  BY <1>1, <1>2, <1>5, <1>7, <1>8, <1>9, <1>10

LEMMA SpeaksReach ==
  ASSUME PiInv, NEW n \in Transports, NEW kind \in EventKind \ {"wake"}, Speaks(n, kind)
  PROVE  Reach'
<1>1. \A m \in Transports : Kept(m)
  BY SpeaksIs DEF Kept, Speaks
<1>2. PiTypeOK' /\ UNCHANGED <<turn, worker, client, answers>>
  BY SpeaksIs
<1>3. (worker.at = "idle" => worker.confirmed = {}) /\ (worker.at = "starting" => client = None)
  BY DEF PiInv, Reach, Attached
<1>4. QED
  BY <1>1, <1>2, <1>3, ReachKept DEF PiInv

LEMMA SpeaksOwn ==
  ASSUME PiInv, NEW n \in Transports, NEW kind \in EventKind \ {"wake"}, Speaks(n, kind)
  PROVE  Own'
<1>1. /\ PiTypeOK' /\ pi[n].turn \in Turns /\ transport[n].events \in Seq(Event)
      /\ transport'[n].left = transport[n].left
      /\ \A m \in Transports \ {n} : transport'[m] = transport[m]
      /\ UNCHANGED <<turn, worker, client, answers>>
  BY SpeaksIs
<1>2. PICK c \in Turns : c = pi[n].turn
  BY <1>1
<1>3. PICK e \in Event :
        /\ e.kind = kind /\ e.turn = c
        /\ transport'[n].events = Append(transport[n].events, e)
  BY <1>2, SpeaksIs
<1>4. \A k \in DOMAIN transport'[n].events :
        \/ k \in DOMAIN transport[n].events /\ transport'[n].events[k] = transport[n].events[k]
        \/ k = Len(transport[n].events) + 1 /\ transport'[n].events[k] = e
  BY <1>1, <1>3, OneMore
<1>5. EventNamed'
  <2> SUFFICES ASSUME NEW m \in Transports, NEW k \in DOMAIN transport'[m].events
               PROVE  transport'[m].events[k].turn = None <=> transport'[m].events[k].kind = "wake"
    BY DEF EventNamed
  <2>1. CASE m # n
    BY <1>1, <2>1 DEF PiInv, Own, EventNamed
  <2>2. CASE m = n
    BY <1>2, <1>3, <1>4, <2>2, NoneIsNone DEF PiInv, Own, EventNamed
  <2>3. QED
    BY <2>1, <2>2
<1>6. ASSUME NEW m \in Transports, Reached(m)'
      PROVE  Clean(m)' /\ EndIsLast(m)'
  <2>1. Reached(m) /\ Mine(m)' = Mine(m)
    BY <1>1, <1>6 DEF Reached, Mine
  <2>2. Clean(m) /\ EndIsLast(m)
    BY <2>1 DEF PiInv, Own
  <2>3. CASE m # n
    BY <1>1, <2>1, <2>2, <2>3 DEF Clean, EndIsLast, Speaks
  <2>4. CASE m = n
    <3>1. c \in Mine(n) /\ c # None /\ None \in Mine(n)
      BY <1>2, <2>2, <2>4, NoneIsNone DEF Clean, Mine
    <3>2. \A k \in DOMAIN pi[n].inbox : pi[n].inbox[k] = None
      BY <1>2, <2>2, <2>4, <3>1 DEF Clean
    <3>3. \A k \in DOMAIN pi'[n].inbox : pi'[n].inbox[k] = None
      BY <3>2 DEF Speaks, InboxFrom
    <3>4. \A k \in DOMAIN transport[n].events : transport[n].events[k].kind # "end"
      BY <1>2, <2>2, <2>4, <3>1 DEF EndIsLast
    <3>5. Clean(n)'
      <4>1. pi'[n].turn \in Mine(n)
        BY <1>2, <3>1 DEF Speaks
      <4>2. \A k \in DOMAIN transport'[n].events : transport'[n].events[k].turn \in Mine(n)
        BY <1>3, <1>4, <2>2, <2>4, <3>1 DEF Clean
      <4>3. worker'.on = n => worker'.confirmed \subseteq Mine(n)
        BY <1>1, <2>2, <2>4 DEF Clean
      <4>4. QED
        BY <2>1, <2>4, <3>1, <3>3, <4>1, <4>2, <4>3 DEF Clean
    <3>6. EndIsLast(n)'
      <4> SUFFICES ASSUME NEW k \in DOMAIN transport'[n].events,
                          transport'[n].events[k].kind = "end"
                   PROVE  /\ pi'[n].turn = None
                          /\ \A l \in DOMAIN pi'[n].inbox : pi'[n].inbox[l] = None
                          /\ \A l \in DOMAIN transport'[n].events :
                                l > k => transport'[n].events[l].turn = None
        BY DEF EndIsLast
      <4>1. k = Len(transport[n].events) + 1 /\ kind = "end"
        BY <1>3, <1>4, <3>4
      <4>2. \A l \in DOMAIN transport'[n].events : ~ (l > k)
        <5>1. \A l \in DOMAIN transport[n].events : ~ (l > Len(transport[n].events) + 1)
          BY <1>1
        <5>2. QED
          BY <1>1, <1>4, <4>1, <5>1
      <4>3. QED
        BY <3>3, <4>1, <4>2 DEF Speaks
    <3>7. QED
      BY <2>4, <3>5, <3>6
  <2>5. QED
    BY <2>3, <2>4
<1>7. OwnTurnUntilLeft'
  BY <1>1 DEF PiInv, Own, OwnTurnUntilLeft
<1>8. QED
  BY <1>5, <1>6, <1>7 DEF Own

\* Unless it says that a call was carried out, no call is nearer to an answer.
LEMMA SpeaksStep ==
  ASSUME PiInv, NEW n \in Transports, NEW kind \in EventKind \ {"wake", "done"}, Speaks(n, kind),
         pi'[n].turn # None /\ (pi'[n].called => pi'[n].open) => (pi[n].called => pi[n].open)
  PROVE  PiInv'
<1>1. /\ PiTypeOK' /\ pi[n].turn \in Turns /\ transport[n].events \in Seq(Event)
      /\ \A m \in Transports \ {n} : transport'[m] = transport[m]
      /\ UNCHANGED <<turn, worker, client, answers>>
  BY SpeaksIs
<1>2. PICK e \in Event :
        /\ e.kind = kind
        /\ transport'[n].events = Append(transport[n].events, e)
  BY SpeaksIs
<1>3. \A k \in DOMAIN transport'[n].events :
        \/ k \in DOMAIN transport[n].events /\ transport'[n].events[k] = transport[n].events[k]
        \/ transport'[n].events[k] = e
  BY <1>1, <1>2, OneMore
<1>4. ASSUME NEW t \in Turns, NEW m \in Transports PROVE NoNearer(m, t)
  <2>1. DoneFrom(m, t)
    <3>1. \A k \in Nat : CallDone(m, k, t)' => CallDone(m, k + 0, t)
      <4> SUFFICES ASSUME NEW k \in Nat, CallDone(m, k, t)' PROVE CallDone(m, k, t)
        OBVIOUS
      <4>1. CASE m = n
        BY <1>2, <1>3, <4>1 DEF CallDone
      <4>2. CASE m # n
        BY <1>1, <4>2 DEF CallDone
      <4>3. QED
        BY <4>1, <4>2
    <3>2. QED
      BY <3>1 DEF DoneFrom
  <2>2. PromptFrom(m, t)
    <3>1. CASE m = n
      <4>1. PICK d \in Nat : \A k \in DOMAIN pi'[n].inbox :
              (k + d \in DOMAIN pi[n].inbox /\ pi'[n].inbox[k] = pi[n].inbox[k + d])
                \/ pi'[n].inbox[k] = None
        BY DEF Speaks, InboxFrom
      <4>2. \A k \in Nat : Prompt(n, k, t)' => Prompt(n, k + d, t)
        BY <4>1, NoneIsNone DEF Prompt
      <4>3. QED
        BY <3>1, <4>1, <4>2 DEF PromptFrom
    <3>2. CASE m # n
      <4>1. \A k \in Nat : Prompt(m, k, t)' => Prompt(m, k + 0, t)
        BY <3>2 DEF Prompt, Speaks
      <4>2. QED
        BY <4>1 DEF PromptFrom
    <3>3. QED
      BY <3>1, <3>2
  <2>3. MayFinish(m, t)' => MayFinish(m, t)
    <3>1. CASE m = n
      BY <3>1, NoneIsNone DEF MayFinish, Speaks
    <3>2. CASE m # n
      BY <3>2 DEF MayFinish, Speaks
    <3>3. QED
      BY <3>1, <3>2
  <2>4. QED
    BY <2>1, <2>2, <2>3 DEF NoNearer
<1>5. ASSUME NEW t \in Turns PROVE InOnePlace(t)'
  <2>1. Answered(t)' = Answered(t) /\ Collected(t)' = Collected(t) /\ Asked(t)' = Asked(t)
    BY <1>1 DEF Answered, Collected, Asked
  <2>2. QED
    BY <1>1, <1>4, <2>1, TokenStays DEF PiInv, Once
<1>6. CallFirst'
  BY DEF PiInv, Once, CallFirst, Speaks
<1>7. NoCallTwice'
  BY <1>1 DEF PiInv, Once, NoCallTwice
<1>8. QED
  BY <1>5, <1>6, <1>7, SpeaksReach, SpeaksOwn DEF PiInv, Once

LEMMA PiAbortsPi ==
  ASSUME PiInv, NEW n \in Transports, PiAborts(n)
  PROVE  PiInv'
<1>1. /\ PiTypes /\ transport[n].state # "new" /\ pi[n] \in ProcessType
      /\ transport[n] \in TransportType /\ pi[n].inbox # <<>>
  BY AtWork DEF PiAborts
<1>2. PICK q : q = Tail(pi[n].inbox)
  OBVIOUS
<1>3. q \in Seq(Turns \cup {None}) /\ InboxFrom(q, pi[n].inbox)
  BY <1>1, <1>2, Head1, TailInbox DEF ProcessType
<1>4. /\ Resting(q) \in ProcessType /\ Resting(q).inbox = q
      /\ Resting(q).turn = None /\ ~Resting(q).open
  BY <1>3, RestingIs
<1>5. /\ pi' \in [Transports -> ProcessType] /\ pi'[n] = Resting(q)
      /\ \A m \in Transports \ {n} : pi'[m] = pi[m]
  BY <1>1, <1>2, <1>4 DEF PiAborts, PiTypes
<1>6. CASE pi[n].turn # None
  <2>1. Speaks(n, "end")
    BY <1>3, <1>4, <1>5, <1>6 DEF PiAborts, Speaks
  <2>2. QED
    BY <1>4, <1>5, <2>1, SpeaksStep DEF EventKind
<1>7. CASE pi[n].turn = None
  <2>1. UNCHANGED <<turn, worker, aborted, client, transport, senders, aborts, shutDown, answers>>
    BY <1>7 DEF PiAborts
  <2>2. PiTypeOK'
    BY <1>1, <1>5, <2>1, PiTypedThen DEF PiTypes
  <2>3. Kept(n) /\ Quiet(n)
    BY <1>1, <1>3, <1>4, <1>5, <2>1, SameFrom DEF Kept, Quiet, TransportType
  <2>4. \A m \in Transports : Kept(m) /\ Quiet(m)
    BY <1>1, <1>5, <2>1, <2>3, OneTouched, PiTyped
  <2>5. QED
    BY <2>1, <2>2, <2>4, QuietStep
<1>8. QED
  BY <1>6, <1>7

LEMMA PiCallsPi ==
  ASSUME PiInv, NEW n \in Transports, PiCalls(n)
  PROVE  PiInv'
<1>1. PiTypes /\ pi[n] \in ProcessType /\ pi[n].turn # None
  BY AtWork DEF PiCalls, Working
<1>2. /\ pi' \in [Transports -> ProcessType]
      /\ pi'[n] = [pi[n] EXCEPT !.called = TRUE, !.open = TRUE]
      /\ \A m \in Transports \ {n} : pi'[m] = pi[m]
  BY <1>1 DEF PiCalls, PiTypes, ProcessType
<1>3. /\ pi'[n].inbox = pi[n].inbox /\ pi'[n].turn = pi[n].turn
      /\ pi'[n].called = TRUE /\ pi'[n].open = TRUE
  BY <1>1, <1>2 DEF ProcessType
<1>4. InboxFrom(pi'[n].inbox, pi[n].inbox)
  BY <1>1, <1>3, SameInbox DEF ProcessType
<1>5. Speaks(n, "call")
  BY <1>1, <1>2, <1>3, <1>4 DEF PiCalls, Speaks
<1>6. QED
  BY <1>5, SpeaksStep DEF PiCalls, EventKind

LEMMA PiEndsPi ==
  ASSUME PiInv, NEW n \in Transports, PiEnds(n)
  PROVE  PiInv'
<1>1. PiTypes /\ pi[n] \in ProcessType /\ pi[n].turn # None /\ pi[n].inbox \in Seq(Turns \cup {None})
  BY AtWork DEF PiEnds, Working, ProcessType
<1>2. PICK r : r = Resting(pi[n].inbox)
  OBVIOUS
<1>3. r \in ProcessType /\ r.inbox = pi[n].inbox /\ r.turn = None /\ ~r.open
  BY <1>1, <1>2, RestingIs
<1>4. /\ pi' \in [Transports -> ProcessType] /\ pi'[n] = r
      /\ \A m \in Transports \ {n} : pi'[m] = pi[m]
  BY <1>1, <1>2, <1>3 DEF PiEnds, PiTypes
<1>5. InboxFrom(pi'[n].inbox, pi[n].inbox)
  BY <1>1, <1>3, <1>4, SameInbox
<1>6. Speaks(n, "end")
  BY <1>1, <1>3, <1>4, <1>5 DEF PiEnds, Speaks
<1>7. QED
  BY <1>3, <1>4, <1>6, SpeaksStep DEF EventKind

LEMMA PiRetriesPi ==
  ASSUME PiInv, NEW n \in Transports, PiRetries(n)
  PROVE  PiInv'
<1>1. PiTypes /\ pi[n] \in ProcessType /\ pi[n].turn # None
  BY AtWork DEF PiRetries, Working
<1>2. /\ pi' \in [Transports -> ProcessType]
      /\ pi'[n] = [pi[n] EXCEPT !.retried = TRUE]
      /\ \A m \in Transports \ {n} : pi'[m] = pi[m]
  BY <1>1 DEF PiRetries, PiTypes, ProcessType
<1>3. /\ pi'[n].inbox = pi[n].inbox /\ pi'[n].turn = pi[n].turn
      /\ pi'[n].called = pi[n].called /\ pi'[n].open = pi[n].open
  BY <1>1, <1>2 DEF ProcessType
<1>4. InboxFrom(pi'[n].inbox, pi[n].inbox)
  BY <1>1, <1>3, SameInbox DEF ProcessType
<1>5. Speaks(n, "retry")
  BY <1>1, <1>2, <1>3, <1>4 DEF PiRetries, Speaks
<1>6. QED
  BY <1>3, <1>5, SpeaksStep DEF EventKind

LEMMA PiFinishesCallPi ==
  ASSUME PiInv, NEW n \in Transports, PiFinishesCall(n)
  PROVE  PiInv'
<1>1. PiTypes /\ pi[n] \in ProcessType /\ pi[n].turn # None /\ pi[n].open /\ pi[n].called
  BY AtWork DEF PiFinishesCall, Working, PiInv, Once, CallFirst
<1>2. /\ pi' \in [Transports -> ProcessType]
      /\ pi'[n] = [pi[n] EXCEPT !.open = FALSE]
      /\ \A m \in Transports \ {n} : pi'[m] = pi[m]
  BY <1>1 DEF PiFinishesCall, PiTypes, ProcessType
<1>3. /\ pi'[n].inbox = pi[n].inbox /\ pi'[n].turn = pi[n].turn
      /\ pi'[n].called = TRUE /\ pi'[n].open = FALSE
  BY <1>1, <1>2 DEF ProcessType
<1>4. InboxFrom(pi'[n].inbox, pi[n].inbox)
  BY <1>1, <1>3, SameInbox DEF ProcessType
<1>5. PICK kind \in {"done", "failed"} : Speaks(n, kind)
  BY <1>1, <1>2, <1>3, <1>4 DEF PiFinishesCall, Speaks
<1>6. CASE kind = "failed"
  BY <1>3, <1>5, <1>6, SpeaksStep DEF EventKind
<1>7. CASE kind = "done"
  <2>1. Speaks(n, "done") /\ "done" \in EventKind \ {"wake"}
    BY <1>5, <1>7 DEF EventKind
  <2>2. Reach' /\ Own'
    BY <2>1, SpeaksReach, SpeaksOwn
  <2>3. /\ pi[n].turn \in Turns /\ transport[n].events \in Seq(Event)
        /\ \A m \in Transports \ {n} : transport'[m] = transport[m]
        /\ UNCHANGED <<turn, worker, client, answers>>
    BY <2>1, SpeaksIs
  <2>4. PICK c \in Turns : c = pi[n].turn
    BY <2>3
  <2>5. PICK e \in Event :
          /\ e.turn = c /\ transport'[n].events = Append(transport[n].events, e)
    BY <2>1, <2>4, SpeaksIs
  <2>6. PICK last \in Nat : last = Len(transport[n].events) + 1
    BY <2>3
  <2>7. \A k \in DOMAIN transport'[n].events :
          \/ k \in DOMAIN transport[n].events /\ transport'[n].events[k] = transport[n].events[k]
          \/ k = last /\ transport'[n].events[k] = e
    BY <2>3, <2>5, <2>6, OneMore
  <2>8. \A t : \A m \in Transports, k \in Nat : Prompt(m, k, t)' = Prompt(m, k, t)
    BY <1>2, <1>3 DEF Prompt
  <2>9. \A t : /\ Collected(t)' = Collected(t) /\ Answered(t)' = Answered(t)
               /\ Asked(t)' = Asked(t)
    BY <2>3 DEF Collected, Answered, Asked
  <2>10. ASSUME NEW t \in Turns, t # c PROVE InOnePlace(t)'
    <3>1. ASSUME NEW m \in Transports PROVE NoNearer(m, t)
      <4>1. ASSUME NEW k \in Nat, CallDone(m, k, t)' PROVE CallDone(m, k, t)
        <5>1. CASE m = n
          BY <2>5, <2>7, <2>10, <4>1, <5>1 DEF CallDone
        <5>2. CASE m # n
          BY <2>3, <4>1, <5>2 DEF CallDone
        <5>3. QED
          BY <5>1, <5>2
      <4>2. \A k \in Nat : k + 0 = k /\ (Prompt(m, k, t)' => Prompt(m, k, t))
        BY <2>8
      <4>3. PromptFrom(m, t) /\ DoneFrom(m, t)
        BY <4>1, <4>2 DEF PromptFrom, DoneFrom
      <4>4. MayFinish(m, t)' => MayFinish(m, t)
        BY <1>1, <1>2, <1>3 DEF MayFinish
      <4>5. QED
        BY <4>3, <4>4 DEF NoNearer
    <3>2. QED
      BY <2>3, <2>9, <3>1, TokenStays DEF PiInv, Once
  <2>11. InOnePlace(c)'
    <3>1. MayFinish(n, c) /\ InOnePlace(c)
      BY <1>1, <2>4 DEF MayFinish, PiInv, Once
    <3>2. /\ ~Said(c) /\ Begun(c) /\ Asked(c)
          /\ \A m \in Transports : MayFinish(m, c) => m = n
      BY <3>1 DEF InOnePlace, Begun
    <3>3. ~Collected(c) /\ \A m \in Transports, k \in Nat : ~CallDone(m, k, c)
      BY <3>2 DEF Said
    <3>4. \A m \in Transports : ~MayFinish(m, c)'
      <4> SUFFICES ASSUME NEW m \in Transports PROVE ~MayFinish(m, c)'
        OBVIOUS
      <4>1. CASE m = n
        BY <1>3, <4>1 DEF MayFinish
      <4>2. CASE m # n
        BY <1>2, <3>2, <4>2 DEF MayFinish
      <4>3. QED
        BY <4>1, <4>2
    <3>5. ASSUME NEW m \in Transports, NEW k \in Nat, CallDone(m, k, c)'
          PROVE  m = n /\ k = last
      <4>1. CASE m = n
        BY <2>7, <3>3, <3>5, <4>1 DEF CallDone
      <4>2. CASE m # n
        BY <2>3, <3>3, <3>5, <4>2 DEF CallDone
      <4>3. QED
        BY <4>1, <4>2
    <3>6. \A m \in Transports, k \in Nat : ~Prompt(m, k, c)'
      BY <2>8, <3>1, <3>2 DEF InOnePlace
    <3>7. ~Collected(c)' /\ Asked(c)'
      BY <2>9, <3>2, <3>3
    <3>8. c \notin worker'.confirmed
      BY <3>7 DEF Collected
    <3>9. QED
      BY <3>4, <3>5, <3>6, <3>7, <3>8 DEF InOnePlace
  <2>12. CallFirst' /\ NoCallTwice'
    BY <1>2, <1>3, <2>3 DEF PiInv, Once, CallFirst, NoCallTwice
  <2>13. QED
    BY <2>2, <2>10, <2>11, <2>12 DEF PiInv, Once
<1>8. QED
  BY <1>5, <1>6, <1>7

-----------------------------------------------------------------------------
(* The theorems.                                                            *)

LEMMA InitPiInv == PiInit => PiInv
<1> SUFFICES ASSUME PiInit PROVE PiInv
  OBVIOUS
<1> USE DEF PiInit
<1>1. NewTransport \in TransportType /\ Resting(<<>>) \in ProcessType /\ Idle \in WorkerType
  BY RestingEmpty DEF NewTransport, TransportType, Idle, WorkerType
<1>2. <<>> \in Seq(AnswerType) /\ 0 \in 0 .. MaxTurns /\ 0 \in 0 .. MaxAborts
  BY PiBoundAssumption
<1>3. PiTypeOK
  BY <1>1, <1>2, PiTyped DEF PiTypes, Idle
<1>4. Reach
  BY <1>3 DEF Reach, Attached, Unstarted, GivenUp, FailedIsReplaced, Idle, NewTransport
<1>5. /\ \A n \in Transports : /\ transport[n].events = <<>> /\ pi[n].inbox = <<>>
                              /\ pi[n].turn = None /\ ~pi[n].open
      /\ worker.confirmed = {} /\ worker.at = "idle" /\ worker.on = None
  BY RestingEmpty DEF NewTransport, Idle
<1>6. Once
  <2>1. ASSUME NEW t \in Turns PROVE InOnePlace(t)
    BY <1>5, NoneIsNone DEF InOnePlace, Prompt, MayFinish, CallDone, Begun, Said, Collected, Answered
  <2>2. CallFirst /\ NoCallTwice
    BY <1>5 DEF CallFirst, NoCallTwice
  <2>3. QED
    BY <2>1, <2>2 DEF Once
<1>7. Own
  BY <1>5, NoneIsNone DEF Own, EventNamed, Reached, OwnTurnUntilLeft
<1>8. QED
  BY <1>4, <1>6, <1>7 DEF PiInv

LEMMA StutterPi ==
  ASSUME PiInv, UNCHANGED piVars
  PROVE  PiInv'
<1>1. PiTypes /\ PiTypeOK
  BY PiTyped DEF PiInv, Reach
<1>2. PiTypeOK'
  BY <1>1, PiTypedThen DEF PiTypes, piVars
<1>3. QED
  BY <1>1, <1>2, AllUntouched, QuietStep DEF piVars

LEMMA NextPiInv ==
  ASSUME PiInv, [PiNext]_piVars
  PROVE  PiInv'
<1>1. ASSUME NEW n \in Transports,
             \/ BeginAnew(n) \/ SendAbort(n)
             \/ PiAccepts(n) \/ PiRefuses(n) \/ PiAborts(n)
             \/ PiCalls(n) \/ PiFinishesCall(n) \/ PiEnds(n) \/ PiRetries(n) \/ PiDies(n)
      PROVE  PiInv'
  BY <1>1, BeginAnewPi, SendAbortPi, PiAcceptsPi, PiRefusesPi, PiAbortsPi, PiCallsPi,
     PiFinishesCallPi, PiEndsPi, PiRetriesPi, PiDiesPi
<1>2. CASE DecideStep
  BY <1>2, StartedPi, AskPi, FailsPi, LeavePi, TimeUpPi, ContinuePi, GetToolPi, GetEndPi,
     GetWakePi, GetNothingPi DEF DecideStep
<1>3. CASE BeginAgain \/ TimePasses \/ AbortAgent \/ Shutdown
  BY <1>3, BeginAgainPi, TimePassesPi, AbortAgentPi, ShutdownPi
<1>4. CASE UNCHANGED piVars
  BY <1>4, StutterPi
<1>5. QED
  BY <1>1, <1>2, <1>3, <1>4 DEF PiNext

LEMMA PiInvariant == PiSpec => []PiInv
<1>1. PiInit => PiInv
  BY InitPiInv
<1>2. PiInv /\ [PiNext]_piVars => PiInv'
  BY NextPiInv
<1>3. QED
  BY <1>1, <1>2, PTL DEF PiSpec

\* The parts of the agent client keep to their types: above all, a request in
\* progress has a transport, and a process dies at most once, so that the
\* generation of its events is 0 or 1 (decide, _mark_closed).
THEOREM PiAgentTypeOK == PiSpec => []PiTypeOK
<1>1. PiInv => PiTypeOK
  BY DEF PiInv, Reach
<1>2. QED
  BY <1>1, PiInvariant, PTL

\* As long as no turn of a process was left before its end, an answer has no
\* command but those of its own request (decide, get_event, close).
THEOREM PiOwnTurnUntilLeft == PiSpec => []OwnTurnUntilLeft
<1>1. PiInv => OwnTurnUntilLeft
  BY DEF PiInv, Own
<1>2. QED
  BY <1>1, PiInvariant, PTL

\* No tool call becomes a command twice, even when turns are left and their
\* events are read by the turn after (decide, get_event).
THEOREM PiNoCallTwice == PiSpec => []NoCallTwice
<1>1. PiInv => NoCallTwice
  BY DEF PiInv, Once
<1>2. QED
  BY <1>1, PiInvariant, PTL

\* No request goes to a process that failed one (decide's except, close).
THEOREM PiFailedIsReplaced == PiSpec => []FailedIsReplaced
<1>1. PiInv => FailedIsReplaced
  BY DEF PiInv, Reach
<1>2. QED
  BY <1>1, PiInvariant, PTL
=============================================================================
