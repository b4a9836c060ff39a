----------------------- MODULE TextOpGenerator_proof -----------------------
(***************************************************************************)
(* The safety properties of textop_generator_node, for any set of goals,   *)
(* any number of executor threads and motions of any length.               *)
(***************************************************************************)
EXTENDS TextOpGenerator, TLAPS

USE GeneratorAssumption

----------------------------------------------------------------------------
(* The inductive invariant.                                                 *)

\* The fate of a goal says where it is; only _execute's goals have one, those
\* that are woken a last one, and a replaced goal waits to be woken.
CommandOK(r) ==
  /\ outcome[r] = "active" <=> stream.active = r
  /\ outcome[r] = "pending" <=> stream.pending = r
  /\ outcome[r] # "none" => goal[r] = "executing"
  /\ r \in done => outcome[r] \in Terminal
  /\ thread.previous = r => outcome[r] = "superseded" /\ r \notin done

Commands == \A r \in Requests : CommandOK(r)

\* The stream thread alone activates: what it works for is active or ended.
WorksForActive ==
  thread.pc \in {"begin", "begun", "encode", "session", "check",
                 "generate", "accept", "publish"} =>
    thread.current # None /\ stream.active \in {thread.current, None}

\* From begin to the end of the transition: what the active command has by then.
Transition ==
  stream.active # None =>
    /\ thread.pc = "encode" => engine.state = "generating"
    /\ thread.pc \in {"begun", "encode", "session", "check"} => engine.request = stream.active
    /\ thread.pc \in {"session", "check"} => engine.segment = 0
    /\ thread.pc = "check" => Owns(stream.active) /\ session.generated = 0

\* After it machine and session belong to the active command and count alike,
\* and once a segment is out the lease names the command.
Working ==
  thread.pc \in {"top", "plan", "generate", "accept", "publish", "finish"}
      /\ stream.active # None =>
    /\ Owns(stream.active)
    /\ engine.request = stream.active
    /\ engine.segment = session.generated
                           + (IF thread.pc \in {"accept", "publish"} THEN 1 ELSE 0)
    /\ session.generated > 0 => lease = stream.active

\* The thread generates while the motion lacks a primitive; a machine that was
\* canceled meanwhile takes none.
Generating ==
  /\ thread.pc \in {"generate", "accept", "publish"} => session.generated < session.required
  /\ thread.pc = "generate" => thread.token # None
  /\ thread.pc = "generate" /\ stream.active = None => engine.request = None

Work == WorksForActive /\ Transition /\ Working /\ Generating /\ LeaseNeedsCommand

GenInv == TypeOK /\ Commands /\ Work

----------------------------------------------------------------------------
(* What ends every command of the stream, whoever calls it.                 *)

\* The types of the records, as TypeOK has them.
Streams == [active: Maybe(Requests), pending: Maybe(Requests)]
Outcomes == [Requests -> Terminal \cup {"none", "pending", "active"}]
Engines == [state: {"ready", "generating", "draining"}, request: Maybe(Requests),
            segment: 0..MaxPrimitives]
Sessions == [request: Maybe(Requests), required: 0..MaxPrimitives,
             generated: 0..MaxPrimitives, executed: 0..MaxPrimitives]
References == Maybe([request: Requests, segment: 0..(MaxPrimitives - 1)])
Threads == [pc: {"top", "begin", "begun", "encode", "session", "check", "fail", "plan",
                 "generate", "accept", "publish", "finish"},
            token: Maybe(Requests), previous: Maybe(Requests), current: Maybe(Requests)]

LEMMA NoneMaybe == \A S : None \in Maybe(S)
BY DEF Maybe

LEMMA TypesThen ==
  ASSUME stream' \in Streams, outcome' \in Outcomes, engine' \in Engines, session' \in Sessions,
         lease' \in Maybe(Requests), reference' \in References, silent' \in BOOLEAN,
         alive' \in BOOLEAN, ready' \in BOOLEAN,
         goal' \in [Requests -> {"idle", "accepted", "executing"}],
         done' \subseteq Requests, canceled' \subseteq Requests, canceling' \subseteq Requests,
         thread' \in Threads
  PROVE  TypeOK'
BY DEF TypeOK, Streams, Outcomes, Engines, Sessions, References, Threads

LEMMA Types ==
  ASSUME TypeOK
  PROVE  /\ stream \in Streams /\ outcome \in Outcomes /\ engine \in Engines
         /\ session \in Sessions /\ lease \in Maybe(Requests) /\ reference \in References
         /\ silent \in BOOLEAN /\ alive \in BOOLEAN /\ ready \in BOOLEAN
         /\ goal \in [Requests -> {"idle", "accepted", "executing"}]
         /\ done \subseteq Requests /\ canceled \subseteq Requests
         /\ canceling \subseteq Requests /\ thread \in Threads
BY DEF TypeOK, Streams, Outcomes, Engines, Sessions, References, Threads

LEMMA CancelTypes ==
  ASSUME TypeOK, NEW r
  PROVE  EngineCancel(r) \in Engines /\ SessionCancel(r) \in Sessions
<1>1. EngineCancel(r) \in Engines
  BY Types, NoneMaybe DEF EngineCancel, Engines
<1>2. SessionCancel(r) \in Sessions
  BY Types, NoneMaybe DEF SessionCancel, Sessions
<1>3. QED
  BY <1>1, <1>2

LEMMA StopActiveTypes ==
  ASSUME TypeOK, StopActive
  PROVE  /\ engine' \in Engines /\ session' \in Sessions /\ reference' \in References
         /\ lease' \in Maybe(Requests) /\ silent' \in BOOLEAN
         /\ session'.generated = session.generated /\ session'.required = session.required
         /\ engine'.request \in {engine.request, None}
         /\ stream.active # None => engine'.request # stream.active /\ lease' = None
         /\ stream.active = None => UNCHANGED <<engine, session, lease>>
<1>1. CASE stream.active = None
  BY <1>1, Types DEF StopActive
<1>2. CASE stream.active # None
  <2>1. /\ engine' = EngineCancel(stream.active) /\ session' = SessionCancel(stream.active)
        /\ lease' = None /\ reference' = None /\ silent' = FALSE
    BY <1>2 DEF StopActive, Deactivate
  <2>2. engine' \in Engines /\ session' \in Sessions
    BY <2>1, CancelTypes
  <2>3. /\ engine'.request \in {engine.request, None}
        /\ engine'.request # stream.active
    BY <1>2, <2>1, Types DEF EngineCancel, Engines
  <2>4. session'.generated = session.generated /\ session'.required = session.required
    BY <2>1, Types DEF SessionCancel, Sessions
  <2>5. QED
    BY <1>2, <2>1, <2>2, <2>3, <2>4, NoneMaybe DEF References
<1>3. QED
  BY <1>1, <1>2

LEMMA EndStreamStep ==
  ASSUME GenInv, NEW fate \in Terminal, EndStream(fate), UNCHANGED <<alive, ready, goal>>,
         canceled' \subseteq Requests, canceling' \subseteq Requests,
         thread' \in {thread, [thread EXCEPT !.pc = "top", !.token = None, !.current = None]}
  PROVE  GenInv'
<1>1. TypeOK'
  <2>1. outcome' \in Outcomes
    BY DEF GenInv, TypeOK, EndStream, Terminal, Outcomes
  <2>2. stream' \in Streams
    BY DEF EndStream, Empty, Maybe, Streams
  <2>3. done' \subseteq Requests
    BY DEF GenInv, TypeOK, EndStream, Streamed, Maybe
  <2>4. thread' \in Threads
    <3>1. CASE thread' = thread
      BY <3>1, Types DEF GenInv
    <3>2. CASE thread' = [thread EXCEPT !.pc = "top", !.token = None, !.current = None]
      BY <3>2, Types, NoneMaybe DEF GenInv, Threads
    <3>3. QED
      BY <3>1, <3>2
  <2>5. QED
    BY <2>1, <2>2, <2>3, <2>4, StopActiveTypes, Types, TypesThen DEF GenInv, EndStream
<1>2. Commands'
  <2> SUFFICES ASSUME NEW r \in Requests PROVE CommandOK(r)'
    BY DEF Commands
  <2>1. CommandOK(r)
    BY DEF GenInv, Commands
  <2>2. outcome'[r] = IF r = stream.active THEN fate
                      ELSE IF r = stream.pending THEN "canceled" ELSE outcome[r]
    BY DEF EndStream
  <2>3. stream'.active # r /\ stream'.pending # r
    BY DEF EndStream, Empty
  <2>4. r \in done' <=> r \in done \/ r = stream.active \/ r = stream.pending
    BY DEF EndStream, Streamed
  <2>5. thread'.previous = thread.previous
    BY DEF GenInv, TypeOK
  <2>6. QED
    BY <2>1, <2>2, <2>3, <2>4, <2>5 DEF CommandOK, Terminal
<1>3. Work'
  <2>1. stream'.active = None /\ lease' = None
    BY StopActiveTypes DEF GenInv, Work, LeaseNeedsCommand, EndStream, Empty
  <2>2. thread'.pc = "generate" => thread' = thread /\ engine'.request = None
    BY StopActiveTypes DEF GenInv, TypeOK, Work, WorksForActive, Working, Generating, EndStream
  <2>3. session'.generated = session.generated /\ session'.required = session.required
    BY StopActiveTypes DEF GenInv, EndStream
  <2>4. WorksForActive'
    <3>1. thread' = thread \/ thread'.pc = "top"
      BY DEF GenInv, TypeOK
    <3>2. QED
      BY <2>1, <3>1 DEF GenInv, Work, WorksForActive
  <2>5. Transition' /\ Working' /\ LeaseNeedsCommand'
    BY <2>1 DEF Transition, Working, LeaseNeedsCommand
  <2>6. Generating'
    BY <2>1, <2>2, <2>3 DEF GenInv, TypeOK, Work, Generating
  <2>7. QED
    BY <2>4, <2>5, <2>6 DEF Work
<1>4. QED
  BY <1>1, <1>2, <1>3 DEF GenInv

----------------------------------------------------------------------------
(* What the parts of the invariant read.                                    *)

LEMMA CommandsFrame ==
  ASSUME Commands, UNCHANGED <<stream, outcome, goal, done>>,
         thread'.previous \in {thread.previous, None}
  PROVE  Commands'
BY DEF Commands, CommandOK

LEMMA WorkFrame ==
  ASSUME Work, stream'.active = stream.active, UNCHANGED <<engine, lease, thread>>,
         session'.request = session.request, session'.generated = session.generated,
         session'.required = session.required
  PROVE  Work'
BY DEF Work, WorksForActive, Transition, Working, Generating, LeaseNeedsCommand, Owns

\* A thread that starts over with nothing active relies on nothing.
LEMMA NothingActive ==
  ASSUME thread'.pc = "top", stream'.active = None, lease' = None
  PROVE  Work'
BY DEF Work, WorksForActive, Transition, Working, Generating, LeaseNeedsCommand

\* The previous goal was superseded when it was replaced, so it may be woken.
LEMMA LeaveCommands ==
  ASSUME Commands, NEW pc, NEW token, LeaveTransition(pc, token),
         UNCHANGED <<stream, outcome, goal>>
  PROVE  Commands'
<1> SUFFICES ASSUME NEW r \in Requests PROVE CommandOK(r)'
  BY DEF Commands
<1>1. CommandOK(r)
  BY DEF Commands
<1>2. thread'.previous = None
  BY DEF LeaveTransition
<1>3. r \in done' => r \in done \/ r = thread.previous
  BY DEF LeaveTransition
<1>4. QED
  BY <1>1, <1>2, <1>3 DEF CommandOK, Terminal

----------------------------------------------------------------------------
(* The executor callbacks.                                                  *)

LEMMA GoalStep ==
  ASSUME GenInv, NEW r \in Requests, Goal(r)
  PROVE  GenInv'
<1>1. TypeOK'
  BY DEF GenInv, TypeOK, Goal
<1>2. Commands'
  BY DEF GenInv, TypeOK, Commands, CommandOK, Goal
<1>3. Work'
  BY WorkFrame DEF GenInv, Goal
<1>4. QED
  BY <1>1, <1>2, <1>3 DEF GenInv

LEMMA ExecuteStartStep ==
  ASSUME GenInv, NEW r \in Requests, ExecuteStart(r)
  PROVE  GenInv'
<1> USE DEF ExecuteStart, Submit
<1>1. TypeOK'
  <2>1. outcome' \in Outcomes
    BY DEF GenInv, TypeOK, Terminal, Outcomes
  <2>2. done' \subseteq Requests
    BY DEF GenInv, TypeOK, Maybe
  <2>3. stream' \in Streams
    BY DEF GenInv, TypeOK, Maybe, Streams
  <2>4. goal' \in [Requests -> {"idle", "accepted", "executing"}]
    BY DEF GenInv, TypeOK
  <2>5. QED
    BY <2>1, <2>2, <2>3, <2>4, Types, TypesThen DEF GenInv
<1>2. Commands'
  <2> SUFFICES ASSUME NEW s \in Requests PROVE CommandOK(s)'
    BY DEF Commands
  <2>1. CommandOK(s) /\ CommandOK(r)
    BY DEF GenInv, Commands
  <2>2. outcome'[s] = IF s = r THEN "pending"
                      ELSE IF s = stream.pending THEN "superseded" ELSE outcome[s]
    OBVIOUS
  <2>3. stream'.pending = r /\ stream'.active = stream.active
    BY DEF GenInv, TypeOK
  <2>4. s \in done' <=> s \in done \/ s = stream.pending
    OBVIOUS
  <2>5. goal[r] = "accepted" /\ goal'[s] = IF s = r THEN "executing" ELSE goal[s]
    BY DEF GenInv, TypeOK
  <2>6. outcome[r] = "none" /\ r \notin done /\ thread.previous # r
    BY <2>1, <2>5 DEF CommandOK, Terminal
  <2>7. QED
    BY <2>1, <2>2, <2>3, <2>4, <2>5, <2>6 DEF CommandOK, Terminal
<1>3. Work'
  BY WorkFrame DEF GenInv, TypeOK
<1>4. QED
  BY <1>1, <1>2, <1>3 DEF GenInv

LEMMA ExecuteEndStep ==
  ASSUME GenInv, NEW r \in Requests, ExecuteEnd(r)
  PROVE  GenInv'
<1> USE DEF ExecuteEnd, Forget
<1>1. TypeOK'
  BY DEF GenInv, TypeOK
<1>2. Commands'
  <2> SUFFICES ASSUME NEW s \in Requests PROVE CommandOK(s)'
    BY DEF Commands
  <2>1. CommandOK(s)
    BY DEF GenInv, Commands
  <2>2. outcome'[s] = (IF s = r THEN "none" ELSE outcome[s])
    BY DEF GenInv, TypeOK
  <2>3. goal'[s] = (IF s = r THEN "idle" ELSE goal[s])
    BY DEF GenInv, TypeOK
  <2>4. r \in done /\ done' = done \ {r}
    OBVIOUS
  <2>5. QED
    BY <2>1, <2>2, <2>3, <2>4 DEF CommandOK, Terminal
<1>3. Work'
  BY WorkFrame DEF GenInv
<1>4. QED
  BY <1>1, <1>2, <1>3 DEF GenInv

LEMMA CancelsStep ==
  ASSUME GenInv, NEW r \in Requests, ExecutePoll(r) \/ CancelEnd(r)
  PROVE  GenInv'
<1>1. "canceled" \in Terminal
  BY DEF Terminal
<1>2. EndStream("canceled") /\ UNCHANGED <<alive, ready, goal, thread>>
  BY DEF ExecutePoll, CancelEnd, CancelStream
<1>3. canceled' \subseteq Requests /\ canceling' \subseteq Requests
  BY DEF GenInv, TypeOK, ExecutePoll, CancelEnd
<1>4. QED
  BY <1>1, <1>2, <1>3, EndStreamStep

\* A stop needs no goal to name.
LEMMA SafeStopStep ==
  ASSUME GenInv, SafeStop
  PROVE  GenInv'
<1>1. "canceled" \in Terminal
  BY DEF Terminal
<1>2. canceled' \subseteq Requests /\ canceling' \subseteq Requests
  BY DEF GenInv, TypeOK, SafeStop, goalVars
<1>3. QED
  BY <1>1, <1>2, EndStreamStep DEF SafeStop, CancelStream, goalVars

LEMMA CancelStep ==
  ASSUME GenInv, NEW r \in Requests, Cancel(r)
  PROVE  GenInv'
<1>1. TypeOK'
  BY DEF GenInv, TypeOK, Cancel
<1>2. Commands' /\ Work'
  BY CommandsFrame, WorkFrame DEF GenInv, Cancel
<1>3. QED
  BY <1>1, <1>2 DEF GenInv

LEMMA TrackerStatusStep ==
  ASSUME GenInv, NEW isReady \in BOOLEAN, NEW executed \in 0..MaxPrimitives,
         TrackerStatus(isReady, executed)
  PROVE  GenInv'
<1> USE DEF TrackerStatus, UpdateExecuted, goalVars
<1>1. /\ session' \in Sessions
      /\ session'.request = session.request /\ session'.generated = session.generated
      /\ session'.required = session.required
  BY DEF GenInv, TypeOK, Sessions
<1>2. TypeOK'
  BY <1>1, Types, TypesThen DEF GenInv
<1>3. Commands' /\ Work'
  BY <1>1, CommandsFrame, WorkFrame DEF GenInv
<1>4. QED
  BY <1>2, <1>3 DEF GenInv

LEMMA RenewLeaseStep ==
  ASSUME GenInv, RenewLease
  PROVE  GenInv'
<1> USE DEF RenewLease, goalVars
<1>1. TypeOK'
  BY DEF GenInv, TypeOK
<1>2. Commands'
  BY CommandsFrame DEF GenInv
<1>3. Work'
  BY DEF GenInv, Work, WorksForActive, Transition, Working, Generating, LeaseNeedsCommand, Owns
<1>4. QED
  BY <1>1, <1>2, <1>3 DEF GenInv

\* The tracker dies, its silence is noticed, its readiness lapses.
LEMMA TrackerAwayStep ==
  ASSUME GenInv, TrackerDies \/ StatusOverdue \/ ReadinessLapses
  PROVE  GenInv'
<1> USE DEF TrackerDies, StatusOverdue, ReadinessLapses, goalVars
<1>1. TypeOK'
  BY DEF GenInv, TypeOK
<1>2. Commands' /\ Work'
  BY CommandsFrame, WorkFrame DEF GenInv
<1>3. QED
  BY <1>1, <1>2 DEF GenInv

----------------------------------------------------------------------------
(* The stream thread.                                                       *)

USE DEF At, goalVars

LEMMA ActivatePendingStep ==
  ASSUME GenInv, ActivatePending
  PROVE  GenInv'
<1> USE DEF ActivatePending
<1>1. TypeOK'
  <2>1. outcome' \in Outcomes
    BY DEF GenInv, TypeOK, Terminal, Outcomes
  <2>2. stream' \in Streams
    BY DEF GenInv, TypeOK, Maybe, Streams
  <2>3. thread' \in Threads
    BY Types DEF GenInv, Threads, Streams
  <2>4. QED
    BY <2>1, <2>2, <2>3, Types, TypesThen DEF GenInv
<1>2. Commands'
  <2> SUFFICES ASSUME NEW r \in Requests PROVE CommandOK(r)'
    BY DEF Commands
  <2>1. CommandOK(r)
    BY DEF GenInv, Commands
  <2>2. outcome'[r] = IF r = stream.pending THEN "active"
                      ELSE IF r = stream.active THEN "superseded" ELSE outcome[r]
    OBVIOUS
  <2>3. stream'.active = stream.pending /\ stream'.pending = None
    OBVIOUS
  <2>4. thread'.previous = stream.active
    BY DEF GenInv, TypeOK
  <2>5. QED
    BY <2>1, <2>2, <2>3, <2>4 DEF CommandOK, Terminal
<1>3. Work'
  BY DEF GenInv, TypeOK, Work, WorksForActive, Transition, Working, Generating, LeaseNeedsCommand
<1>4. QED
  BY <1>1, <1>2, <1>3 DEF GenInv

LEMMA ContinueStep ==
  ASSUME GenInv, Continue
  PROVE  GenInv'
<1> USE DEF Continue, GoTo
<1>1. TypeOK'
  BY DEF GenInv, TypeOK
<1>2. Commands'
  BY CommandsFrame DEF GenInv, TypeOK
<1>3. Work'
  BY DEF GenInv, TypeOK, Work, Owns,
     WorksForActive, Transition, Working, Generating, LeaseNeedsCommand
<1>4. QED
  BY <1>1, <1>2, <1>3 DEF GenInv

LEMMA BeginStep ==
  ASSUME GenInv, Begin \/ BeginGenerating
  PROVE  GenInv'
<1> USE DEF Begin, BeginGenerating, GoTo, MachineNames, MachineEnters
<1>1. TypeOK'
  BY DEF GenInv, TypeOK
<1>2. Commands'
  BY CommandsFrame DEF GenInv, TypeOK
<1>3. Work'
  BY DEF GenInv, TypeOK, Work, WorksForActive, Transition, Working, Generating, LeaseNeedsCommand
<1>4. QED
  BY <1>1, <1>2, <1>3 DEF GenInv

\* What a cancel took from the machine is not active any more.
LEMMA EncodedStep ==
  ASSUME GenInv, Encoded
  PROVE  GenInv'
<1> USE DEF Encoded, NumberedFromZero
<1>1. CASE Current(thread.current)
  <2>1. TypeOK'
    <3>1. engine' \in Engines
      BY <1>1, Types DEF GenInv, Engines
    <3>2. thread' = [thread EXCEPT !.pc = "session", !.token = thread.current]
      BY <1>1
    <3>3. thread' \in Threads
      BY <3>2, Types DEF GenInv, Threads
    <3>4. QED
      BY <1>1, <3>1, <3>3, Types, TypesThen DEF GenInv
  <2>2. Commands'
    BY <1>1, CommandsFrame DEF GenInv, TypeOK
  <2>3. Work'
    <3>1. engine'.request = engine.request /\ engine'.segment = 0
      BY <1>1, Types DEF GenInv, Engines
    <3>2. thread'.pc = "session" /\ thread'.current = thread.current
      BY <1>1, Types DEF GenInv, Threads
    <3>3. QED
      BY <3>1, <3>2 DEF GenInv, Work,
         WorksForActive, Transition, Working, Generating, LeaseNeedsCommand
  <2>4. QED
    BY <2>1, <2>2, <2>3 DEF GenInv
<1>2. CASE ~Current(thread.current)
  <2>1. stream.active = None
    BY <1>2 DEF GenInv, Work, WorksForActive, Transition, Current
  <2>2. TypeOK'
    BY <1>2 DEF GenInv, TypeOK, LeaveTransition, Maybe
  <2>3. Commands'
    BY <1>2, LeaveCommands DEF GenInv
  <2>4. Work'
    <3>1. lease = None
      BY <2>1 DEF GenInv, Work, LeaseNeedsCommand
    <3>2. QED
      BY <1>2, <2>1, <3>1, NothingActive DEF LeaveTransition
  <2>5. QED
    BY <2>2, <2>3, <2>4 DEF GenInv
<1>3. QED
  BY <1>1, <1>2

LEMMA RuntimeFailsStep ==
  ASSUME GenInv, RuntimeFails
  PROVE  GenInv'
<1> USE DEF RuntimeFails, GoTo
<1>1. TypeOK'
  BY DEF GenInv, TypeOK
<1>2. Commands'
  BY CommandsFrame DEF GenInv, TypeOK
<1>3. Work'
  BY DEF GenInv, TypeOK, Work, WorksForActive, Transition, Working, Generating, LeaseNeedsCommand
<1>4. QED
  BY <1>1, <1>2, <1>3 DEF GenInv

LEMMA BeginSessionStep ==
  ASSUME GenInv, NEW required \in 1..MaxPrimitives, BeginSession(required)
  PROVE  GenInv'
<1> USE DEF BeginSession, GoTo
<1>1. TypeOK'
  BY DEF GenInv, TypeOK
<1>2. Commands'
  BY CommandsFrame DEF GenInv, TypeOK
<1>3. Work'
  BY DEF GenInv, TypeOK, Work, Owns,
     WorksForActive, Transition, Working, Generating, LeaseNeedsCommand
<1>4. QED
  BY <1>1, <1>2, <1>3 DEF GenInv

LEMMA CheckActiveStep ==
  ASSUME GenInv, CheckActive
  PROVE  GenInv'
<1> USE DEF CheckActive
<1>1. TypeOK'
  <2>1. engine' \in Engines /\ session' \in Sessions
    BY Types, CancelTypes DEF GenInv
  <2>2. thread' \in Threads /\ done' \subseteq Requests
    BY Types, NoneMaybe DEF GenInv, LeaveTransition, Threads, Maybe
  <2>3. QED
    BY <2>1, <2>2, Types, TypesThen DEF GenInv, LeaveTransition
<1>2. Commands'
  <2>1. PICK pc : LeaveTransition(pc, thread.current)
    OBVIOUS
  <2>2. QED
    BY <2>1, LeaveCommands DEF GenInv
<1>3. Work'
  <2>1. CASE stream.active = thread.current
    BY <2>1 DEF GenInv, TypeOK, Work, LeaveTransition, Owns,
       WorksForActive, Transition, Working, Generating, LeaseNeedsCommand
  <2>2. CASE stream.active # thread.current
    BY <2>2 DEF GenInv, TypeOK, Work, LeaveTransition,
       WorksForActive, Transition, Working, Generating, LeaseNeedsCommand
  <2>3. QED
    BY <2>1, <2>2
<1>4. QED
  BY <1>1, <1>2, <1>3 DEF GenInv

LEMMA FailStreamStep ==
  ASSUME GenInv, FailStream
  PROVE  GenInv'
<1> USE DEF FailStream, FailActive
<1>1. TypeOK'
  <2>1. outcome' \in Outcomes
    BY DEF GenInv, TypeOK, Terminal, Outcomes
  <2>2. stream' \in Streams
    BY DEF Empty, Maybe, Streams
  <2>3. done' \subseteq Requests
    BY DEF GenInv, TypeOK, Streamed, Maybe
  <2>4. thread' \in Threads
    BY DEF GenInv, TypeOK, Maybe, Threads
  <2>5. QED
    BY <2>1, <2>2, <2>3, <2>4, StopActiveTypes, Types, TypesThen DEF GenInv
<1>2. Commands'
  <2> SUFFICES ASSUME NEW r \in Requests PROVE CommandOK(r)'
    BY DEF Commands
  <2>1. CommandOK(r)
    BY DEF GenInv, Commands
  <2>2. outcome'[r] = IF r = stream.active THEN "failed"
                      ELSE IF r = stream.pending THEN "canceled" ELSE outcome[r]
    OBVIOUS
  <2>3. stream'.active # r /\ stream'.pending # r
    BY DEF Empty
  <2>4. r \in done' => r \in done \/ r = stream.active \/ r = stream.pending
                         \/ r = thread.previous
    BY DEF Streamed
  <2>5. thread'.previous = None
    BY DEF GenInv, TypeOK
  <2>6. QED
    BY <2>1, <2>2, <2>3, <2>4, <2>5 DEF CommandOK, Terminal
<1>3. Work'
  <2>1. stream'.active = None /\ lease' = None
    BY StopActiveTypes DEF GenInv, Work, LeaseNeedsCommand, Empty
  <2>2. thread'.pc = "top"
    BY DEF GenInv, TypeOK
  <2>3. QED
    BY <2>1, <2>2, NothingActive
<1>4. QED
  BY <1>1, <1>2, <1>3 DEF GenInv

LEMMA PlanStep ==
  ASSUME GenInv, Plan
  PROVE  GenInv'
<1> USE DEF Plan
<1>1. TypeOK'
  BY DEF GenInv, TypeOK
<1>2. Commands'
  BY CommandsFrame DEF GenInv, TypeOK
<1>3. Work'
  BY DEF GenInv, TypeOK, Work, Owns,
     WorksForActive, Transition, Working, Generating, LeaseNeedsCommand
<1>4. QED
  BY <1>1, <1>2, <1>3 DEF GenInv

\* A machine that takes the token has the command still active, and so counts
\* with the session.
LEMMA GenerateStep ==
  ASSUME GenInv, Generate
  PROVE  GenInv'
<1> USE DEF Generate, GoTo, Again
<1>1. Current(thread.token) => stream.active # None
  BY DEF GenInv, Work, Generating, Current
<1>2. Current(thread.token) => engine.segment < MaxPrimitives
  BY <1>1 DEF GenInv, TypeOK, Work, Working, Generating
<1>3. CASE Current(thread.token)
  <2>1. PICK pc \in {"accept", "publish"} : thread' = [thread EXCEPT !.pc = pc]
    BY <1>3
  <2>2. engine' = [engine EXCEPT !.segment = @ + 1]
    BY <1>3
  <2>3. TypeOK'
    <3>1. engine.segment + 1 \in 0..MaxPrimitives
      BY <1>2, <1>3, Types DEF GenInv, Engines
    <3>2. thread' \in Threads
      BY <2>1, Types DEF GenInv, Threads
    <3>3. engine' \in Engines
      BY <2>2, <3>1, Types DEF GenInv, Engines
    <3>4. QED
      BY <3>2, <3>3, Types, TypesThen DEF GenInv
  <2>4. Work'
    <3>1. engine'.segment = engine.segment + 1 /\ engine'.request = engine.request
      BY <2>2 DEF GenInv, TypeOK
    <3>2. thread'.pc = pc /\ thread'.current = thread.current
      BY <2>1 DEF GenInv, TypeOK
    <3>3. QED
      BY <1>1, <1>3, <2>1, <3>1, <3>2
      DEF GenInv, TypeOK, Work, Owns, WorksForActive, Transition, Working, Generating,
          LeaseNeedsCommand
  <2>5. Commands'
    BY <2>1, CommandsFrame DEF GenInv, TypeOK
  <2>6. QED
    BY <2>3, <2>4, <2>5 DEF GenInv
<1>4. CASE ~Current(thread.token)
  <2>1. thread' = [thread EXCEPT !.pc = "top", !.current = None]
    BY <1>4
  <2>2. TypeOK'
    <3>1. thread' \in Threads
      BY <2>1, Types, NoneMaybe DEF GenInv, Threads
    <3>2. QED
      BY <1>4, <3>1, Types, TypesThen DEF GenInv
  <2>3. Commands'
    BY <2>1, CommandsFrame DEF GenInv, TypeOK
  <2>4. Work'
    <3>1. thread'.pc = "top"
      BY <2>1, Types DEF GenInv, Threads
    <3>2. UNCHANGED <<stream, engine, session, lease>>
      BY <1>4
    <3>3. QED
      BY <3>1, <3>2 DEF GenInv, Work, Owns,
         WorksForActive, Transition, Working, Generating, LeaseNeedsCommand
  <2>5. QED
    BY <2>2, <2>3, <2>4 DEF GenInv
<1>5. QED
  BY <1>3, <1>4

\* A cancel may have taken the machine, which drains for nobody then.
LEMMA AcceptStep ==
  ASSUME GenInv, Accept
  PROVE  GenInv'
<1> USE DEF Accept, GoTo, MachineEnters
<1>1. TypeOK'
  BY DEF GenInv, TypeOK
<1>2. Commands'
  BY CommandsFrame DEF GenInv, TypeOK
<1>3. Work'
  BY DEF GenInv, TypeOK, Work, Owns, WorksForActive, Transition, Working, Generating,
         LeaseNeedsCommand
<1>4. QED
  BY <1>1, <1>2, <1>3 DEF GenInv

LEMMA PublishStep ==
  ASSUME GenInv, Publish
  PROVE  GenInv'
<1> USE DEF Publish, GoTo, Again, MarkGenerated
<1>1. StillWanted => /\ Owns(thread.current) /\ stream.active # None
                     /\ engine.segment = session.generated + 1
                     /\ session.generated < session.required
                     /\ session.generated > 0 => lease = stream.active
  BY DEF GenInv, Work, WorksForActive, Working, Generating, StillWanted
<1>2. CASE StillWanted
  <2>1. session' = [session EXCEPT !.generated = @ + 1]
    BY <1>1, <1>2
  <2>2. thread' = [thread EXCEPT !.pc = "top", !.current = None]
    BY <1>1, <1>2
  <2>3. stream.active \in Requests /\ thread.current = stream.active
    BY <1>1, <1>2 DEF GenInv, TypeOK, Maybe, StillWanted
  <2>4. lease' = stream.active
    BY <1>1, <1>2, <2>3 DEF GenInv, TypeOK
  <2>5. reference' \in [request: Requests, segment: 0..(MaxPrimitives - 1)]
    BY <1>1, <1>2, <2>3 DEF GenInv, TypeOK
  <2>6. TypeOK'
    BY <1>1, <1>2, <2>1, <2>2, <2>3, <2>4, <2>5 DEF GenInv, TypeOK, Maybe
  <2>7. Commands'
    BY <2>2, CommandsFrame DEF GenInv, TypeOK
  <2>8. Work'
    BY <1>1, <2>1, <2>2, <2>3, <2>4 DEF GenInv, TypeOK, Work, Owns,
       WorksForActive, Transition, Working, Generating, LeaseNeedsCommand
  <2>9. QED
    BY <2>6, <2>7, <2>8 DEF GenInv
<1>3. CASE ~StillWanted
  <2>1. stream.active = None
    BY <1>3 DEF GenInv, Work, WorksForActive, StillWanted
  <2>2. TypeOK'
    <3>1. thread' = [thread EXCEPT !.pc = "top", !.current = None]
      BY <1>3
    <3>2. thread' \in Threads
      BY <3>1, Types, NoneMaybe DEF GenInv, Threads
    <3>3. QED
      BY <1>3, <3>2, Types, TypesThen DEF GenInv
  <2>3. Commands'
    BY <1>3, CommandsFrame DEF GenInv, TypeOK
  <2>4. Work'
    <3>1. lease = None
      BY <2>1 DEF GenInv, Work, LeaseNeedsCommand
    <3>2. thread'.pc = "top"
      BY <1>3 DEF GenInv, TypeOK
    <3>3. QED
      BY <1>3, <2>1, <3>1, <3>2, NothingActive
  <2>5. QED
    BY <2>2, <2>3, <2>4 DEF GenInv
<1>4. QED
  BY <1>2, <1>3

LEMMA CompleteStep ==
  ASSUME GenInv, Complete
  PROVE  GenInv'
<1> USE DEF Complete
<1>1. CASE MachineDrains(thread.token) /\ stream.active # None
  <2> USE DEF Deactivate, Drained, SessionFinish, CompleteActive
  <2>0. stream.active \in Requests
    BY <1>1 DEF GenInv, TypeOK, Maybe
  <2>1. TypeOK'
    <3>1. outcome' \in Outcomes
      BY <1>1, <2>0, Types DEF GenInv, Terminal, Outcomes
    <3>2. engine' \in Engines
      <4>1. engine' = [engine EXCEPT !.state = "ready", !.request = None]
        BY <1>1
      <4>2. QED
        BY <4>1, Types, NoneMaybe DEF GenInv, Engines
    <3>3. session' \in Sessions
      BY <1>1, Types, NoneMaybe DEF GenInv, Sessions
    <3>4. stream' \in Streams
      BY <1>1, Types, NoneMaybe DEF GenInv, Streams
    <3>5. thread' \in Threads
      BY <1>1, Types, NoneMaybe DEF GenInv, Threads
    <3>6. QED
      BY <1>1, <2>0, <3>1, <3>2, <3>3, <3>4, <3>5, Types, TypesThen, NoneMaybe
         DEF GenInv, References
  <2>2. Commands'
    <3> SUFFICES ASSUME NEW r \in Requests PROVE CommandOK(r)'
      BY DEF Commands
    <3>1. CommandOK(r)
      BY DEF GenInv, Commands
    <3>2. outcome'[r] = (IF r = stream.active THEN "completed" ELSE outcome[r])
      BY <1>1 DEF GenInv, TypeOK
    <3>3. stream'.active = None /\ stream'.pending = stream.pending
      BY <1>1 DEF GenInv, TypeOK
    <3>4. r \in done' <=> r \in done \/ r = stream.active
      BY <1>1
    <3>5. thread'.previous = thread.previous
      BY <1>1 DEF GenInv, TypeOK
    <3>6. QED
      BY <3>1, <3>2, <3>3, <3>4, <3>5 DEF CommandOK, Terminal
  <2>3. Work'
    BY <1>1 DEF GenInv, TypeOK, Work,
       WorksForActive, Transition, Working, Generating, LeaseNeedsCommand
  <2>4. QED
    BY <2>1, <2>2, <2>3 DEF GenInv
<1>2. CASE ~(MachineDrains(thread.token) /\ stream.active # None)
  <2>1. EndStream("failed") /\ "failed" \in Terminal
    BY <1>2 DEF Terminal
  <2>2. canceled' \subseteq Requests /\ canceling' \subseteq Requests
    BY DEF GenInv, TypeOK
  <2>3. QED
    BY <2>1, <2>2, EndStreamStep
<1>3. QED
  BY <1>1, <1>2

LEMMA TrackerTimeoutStep ==
  ASSUME GenInv, TrackerTimeout
  PROVE  GenInv'
<1>1. "failed" \in Terminal
  BY DEF Terminal
<1>2. canceled' \subseteq Requests /\ canceling' \subseteq Requests
  BY DEF GenInv, TypeOK, TrackerTimeout
<1>3. QED
  BY <1>1, <1>2, EndStreamStep DEF TrackerTimeout

LEMMA LoopStep ==
  ASSUME GenInv, Loop
  PROVE  GenInv'
<1> USE DEF Loop, Again
<1>1. TypeOK'
  <2>1. thread' \in Threads
    BY Types, NoneMaybe DEF GenInv, Threads
  <2>2. QED
    BY <2>1, Types, TypesThen DEF GenInv
<1>2. Commands'
  BY CommandsFrame DEF GenInv, TypeOK
<1>3. Work'
  BY DEF GenInv, TypeOK, Work, Owns,
     WorksForActive, Transition, Working, Generating, LeaseNeedsCommand
<1>4. QED
  BY <1>1, <1>2, <1>3 DEF GenInv

----------------------------------------------------------------------------
LEMMA InitGenInv == Init => GenInv
<1> SUFFICES ASSUME Init PROVE GenInv
  OBVIOUS
<1> USE DEF Init, Empty
<1>1. TypeOK
  <2>1. /\ stream \in Streams /\ engine \in Engines /\ session \in Sessions
        /\ lease \in Maybe(Requests) /\ reference \in References
    BY NoneMaybe DEF Streams, Engines, Sessions, References
  <2>2. outcome \in Outcomes /\ goal \in [Requests -> {"idle", "accepted", "executing"}]
    BY DEF Outcomes
  <2>3. thread \in Threads
    BY NoneMaybe DEF Threads
  <2>4. QED
    BY <2>1, <2>2, <2>3 DEF TypeOK, Streams, Outcomes, Engines, Sessions, References, Threads
<1>2. Commands
  BY DEF Commands, CommandOK
<1>3. Work
  BY DEF Work, WorksForActive, Transition, Working, Generating, LeaseNeedsCommand
<1>4. QED
  BY <1>1, <1>2, <1>3 DEF GenInv

LEMMA StreamThreadStep ==
  ASSUME GenInv, StreamStep \/ RuntimeFails
  PROVE  GenInv'
BY ActivatePendingStep, ContinueStep, BeginStep, EncodedStep, BeginSessionStep, CheckActiveStep,
   PlanStep, GenerateStep, AcceptStep, PublishStep, CompleteStep, TrackerTimeoutStep, LoopStep,
   FailStreamStep, RuntimeFailsStep DEF StreamStep

LEMMA NextGenInv == GenInv /\ [Next]_vars => GenInv'
<1> SUFFICES ASSUME GenInv, [Next]_vars PROVE GenInv'
  OBVIOUS
<1>1. ASSUME NEW r \in Requests,
             Goal(r) \/ ExecuteStart(r) \/ ExecutePoll(r) \/ ExecuteEnd(r)
               \/ Cancel(r) \/ CancelEnd(r)
      PROVE  GenInv'
  BY <1>1, GoalStep, ExecuteStartStep, CancelsStep, ExecuteEndStep, CancelStep
<1>2. ASSUME NEW isReady \in BOOLEAN, NEW executed \in 0..MaxPrimitives,
             TrackerStatus(isReady, executed)
      PROVE  GenInv'
  BY <1>2, TrackerStatusStep
<1>3. CASE SafeStop \/ RenewLease \/ TrackerDies \/ StatusOverdue \/ ReadinessLapses
  BY <1>3, SafeStopStep, RenewLeaseStep, TrackerAwayStep
<1>4. CASE StreamStep \/ RuntimeFails
  BY <1>4, StreamThreadStep
<1>5. CASE UNCHANGED vars
  <2>1. TypeOK'
    BY <1>5 DEF GenInv, TypeOK, vars
  <2>2. Commands' /\ Work'
    BY <1>5, CommandsFrame, WorkFrame DEF GenInv, vars
  <2>3. QED
    BY <2>1, <2>2 DEF GenInv
<1>6. QED
  BY <1>1, <1>2, <1>3, <1>4, <1>5 DEF Next

LEMMA GenInvariant == Spec => []GenInv
BY InitGenInv, NextGenInv, PTL DEF Spec

(* Every variable keeps its type: the primitives generated and executed     *)
(* and the numbers of the segments stay within the longest motion.          *)
THEOREM GeneratorTypeOK == Spec => []TypeOK
<1>1. GenInv => TypeOK
  BY DEF GenInv
<1>2. QED
  BY <1>1, GenInvariant, PTL

(* Low-level control is held only for an active command, whichever thread   *)
(* ends the last one.                                                       *)
THEOREM GeneratorLeaseNeedsCommand == Spec => []LeaseNeedsCommand
<1>1. GenInv => LeaseNeedsCommand
  BY DEF GenInv, Work
<1>2. QED
  BY <1>1, GenInvariant, PTL

(* While the stream thread works for a command that is still active, state  *)
(* machine and session belong to it, whatever the callbacks did meanwhile.  *)
THEOREM GeneratorWorkIsOwned == Spec => []WorkIsOwned
<1>1. GenInv => WorkIsOwned
  BY DEF GenInv, Work, Working, WorkIsOwned, Owns
<1>2. QED
  BY <1>1, GenInvariant, PTL

(* _execute is woken only when its goal has left the stream with a fate.    *)
THEOREM GeneratorWokenWhenDecided == Spec => []WokenWhenDecided
<1>1. GenInv => WokenWhenDecided
  <2> SUFFICES ASSUME GenInv, NEW r \in done
               PROVE  outcome[r] \in Terminal /\ r \notin Streamed
    BY DEF WokenWhenDecided
  <2>1. CommandOK(r)
    BY DEF GenInv, TypeOK, Commands
  <2>2. QED
    BY <2>1 DEF CommandOK, Terminal, Streamed
<1>2. QED
  BY <1>1, GenInvariant, PTL

----------------------------------------------------------------------------
(* What a step may not do.                                                  *)

FinalStep == \A r \in Requests : outcome[r] \in Terminal => outcome'[r] \in {outcome[r], "none"}

\* A goal with a last fate is not in the stream any more, so what becomes of the
\* commands in the stream does not concern it.
LEMMA FinalLeftStream ==
  ASSUME GenInv, NEW r \in Requests, outcome[r] \in Terminal
  PROVE  r # stream.active /\ r # stream.pending /\ goal[r] = "executing"
BY DEF GenInv, Commands, CommandOK, Terminal

LEMMA NextFinal == GenInv /\ [Next]_vars => FinalStep
<1> SUFFICES ASSUME GenInv, [Next]_vars PROVE FinalStep
  OBVIOUS
<1>1. ASSUME NEW fate, EndStream(fate) PROVE FinalStep
  BY <1>1, FinalLeftStream DEF EndStream, FinalStep
<1>2. ASSUME UNCHANGED outcome PROVE FinalStep
  BY <1>2 DEF FinalStep
<1>3. ASSUME NEW r \in Requests, ExecuteStart(r) PROVE FinalStep
  BY <1>3, FinalLeftStream DEF ExecuteStart, Submit, FinalStep
<1>4. ASSUME NEW r \in Requests, ExecuteEnd(r) PROVE FinalStep
  BY <1>4 DEF ExecuteEnd, Forget, FinalStep, GenInv, TypeOK
<1>5. CASE ActivatePending
  BY <1>5, FinalLeftStream DEF ActivatePending, FinalStep
<1>6. CASE FailStream
  BY <1>6, FinalLeftStream DEF FailStream, FailActive, FinalStep
<1>7. CASE Complete
  <2>1. ASSUME CompleteActive PROVE FinalStep
    BY <2>1, FinalLeftStream DEF CompleteActive, FinalStep, GenInv, TypeOK
  <2>2. QED
    BY <1>1, <1>7, <2>1 DEF Complete
<1>8. ASSUME NEW r \in Requests, Goal(r) \/ ExecutePoll(r) \/ Cancel(r) \/ CancelEnd(r)
      PROVE  FinalStep
  BY <1>1, <1>2, <1>8 DEF Goal, ExecutePoll, Cancel, CancelEnd, CancelStream
<1>9. ASSUME NEW isReady \in BOOLEAN, NEW executed \in 0..MaxPrimitives,
             TrackerStatus(isReady, executed)
      PROVE  FinalStep
  BY <1>2, <1>9 DEF TrackerStatus
<1>10. CASE SafeStop \/ TrackerTimeout
  BY <1>1, <1>10 DEF SafeStop, TrackerTimeout, CancelStream
<1>11. CASE RenewLease \/ TrackerDies \/ StatusOverdue \/ ReadinessLapses \/ UNCHANGED vars
  BY <1>2, <1>11 DEF RenewLease, TrackerDies, StatusOverdue, ReadinessLapses, vars
<1>12. CASE Continue \/ Begin \/ BeginGenerating \/ Encoded \/ CheckActive \/ Plan \/ Generate
            \/ Accept \/ Publish \/ Loop \/ RuntimeFails
            \/ \E n \in 1..MaxPrimitives : BeginSession(n)
  BY <1>2, <1>12 DEF Continue, Begin, BeginGenerating, Encoded, CheckActive, Plan, Generate,
                     Accept, Publish, Loop, RuntimeFails, BeginSession
<1>13. QED
  BY <1>3, <1>4, <1>5, <1>6, <1>7, <1>8, <1>9, <1>10, <1>11, <1>12 DEF Next, StreamStep

(* The fate of a goal is decided once: no race of completion, replacement,  *)
(* cancel, stop and failure turns it into another.                          *)
THEOREM GeneratorOutcomeIsFinal == Spec => OutcomeIsFinal
<1>1. GenInv /\ [Next]_vars
        => [\A r \in Requests :
              outcome[r] \in Terminal => outcome'[r] \in {outcome[r], "none"}]_vars
  BY NextFinal DEF FinalStep
<1>2. QED
  BY <1>1, GenInvariant, PTL DEF Spec, OutcomeIsFinal

LEMMA StopActiveReleases ==
  ASSUME StopActive
  PROVE  /\ reference' \in {reference, None}
         /\ stream.active = None => lease' = lease
BY DEF StopActive, Deactivate

OrderStep ==
  reference' \notin {reference, None} =>
    /\ reference'.request = stream.active
    /\ reference'.segment = session.generated
    /\ lease' = stream.active

ReleaseStep == lease # None /\ lease' = None => stream' = Empty

LEMMA NextOrderRelease == GenInv /\ [Next]_vars => OrderStep /\ ReleaseStep
<1> SUFFICES ASSUME GenInv, [Next]_vars PROVE OrderStep /\ ReleaseStep
  OBVIOUS
<1>1. ASSUME NEW fate, EndStream(fate) PROVE OrderStep /\ ReleaseStep
  BY <1>1, StopActiveReleases DEF EndStream, OrderStep, ReleaseStep
<1>2. ASSUME UNCHANGED <<reference, lease>> PROVE OrderStep /\ ReleaseStep
  BY <1>2 DEF OrderStep, ReleaseStep
<1>3. ASSUME NEW r \in Requests,
             Goal(r) \/ ExecuteStart(r) \/ ExecutePoll(r) \/ ExecuteEnd(r)
               \/ Cancel(r) \/ CancelEnd(r)
      PROVE  OrderStep /\ ReleaseStep
  BY <1>1, <1>2, <1>3 DEF Goal, ExecuteStart, ExecutePoll, ExecuteEnd, Cancel, CancelEnd,
                          CancelStream
<1>4. ASSUME NEW isReady \in BOOLEAN, NEW executed \in 0..MaxPrimitives,
             TrackerStatus(isReady, executed)
      PROVE  OrderStep /\ ReleaseStep
  BY <1>2, <1>4 DEF TrackerStatus
<1>5. CASE SafeStop \/ TrackerTimeout
  BY <1>1, <1>5 DEF SafeStop, TrackerTimeout, CancelStream
<1>6. CASE RenewLease
  BY <1>6 DEF RenewLease, OrderStep, ReleaseStep
<1>7. CASE TrackerDies \/ StatusOverdue \/ ReadinessLapses \/ UNCHANGED vars
  BY <1>2, <1>7 DEF TrackerDies, StatusOverdue, ReadinessLapses, vars
<1>8. CASE FailStream
  BY <1>8, StopActiveReleases DEF FailStream, FailActive, OrderStep, ReleaseStep
<1>9. CASE Complete
  <2>1. CASE MachineDrains(thread.token) /\ stream.active # None
    <3>1. reference' = None
      BY <1>9, <2>1 DEF Complete, Deactivate
    <3>2. stream' = [stream EXCEPT !.active = None] /\ stream.pending = None
      BY <1>9, <2>1 DEF Complete, CompleteActive, Finished
    <3>3. stream' = Empty
      BY <3>2 DEF GenInv, TypeOK, Empty
    <3>4. QED
      BY <3>1, <3>3 DEF OrderStep, ReleaseStep
  <2>2. QED
    BY <1>1, <1>9, <2>1 DEF Complete
<1>10. CASE Publish
  <2>1. CASE StillWanted
    <3>1. /\ stream.active = thread.current /\ stream.active # None
          /\ engine.segment = session.generated + 1
          /\ session.generated > 0 => lease = stream.active
      BY <1>10, <2>1 DEF Publish, GenInv, Work, WorksForActive, Working, StillWanted
    <3>2. reference' = [request |-> thread.current, segment |-> engine.segment - 1]
      BY <1>10, <2>1 DEF Publish
    <3>3. lease' = stream.active
      BY <1>10, <2>1, <3>1 DEF Publish, GenInv, TypeOK
    <3>4. reference'.request = stream.active /\ reference'.segment = session.generated
      BY <3>1, <3>2 DEF GenInv, TypeOK
    <3>5. QED
      BY <3>1, <3>3, <3>4 DEF OrderStep, ReleaseStep
  <2>2. QED
    BY <1>2, <1>10, <2>1 DEF Publish
<1>11. CASE ActivatePending \/ Continue \/ Begin \/ BeginGenerating \/ Encoded \/ CheckActive
            \/ Plan \/ Generate \/ Accept \/ Loop \/ RuntimeFails
            \/ \E n \in 1..MaxPrimitives : BeginSession(n)
  BY <1>2, <1>11 DEF ActivatePending, Continue, Begin, BeginGenerating, Encoded, CheckActive,
                     Plan, Generate, Accept, Loop, RuntimeFails, BeginSession
<1>12. QED
  BY <1>3, <1>4, <1>5, <1>6, <1>7, <1>8, <1>9, <1>10, <1>11 DEF Next, StreamStep

(* What reaches the tracker is the next primitive of the command that is    *)
(* active: work that a cancel, stop or replacement overtook is dropped.     *)
THEOREM GeneratorReferencesInOrder == Spec => ReferencesInOrder
<1>1. GenInv /\ [Next]_vars
        => [reference' \notin {reference, None} =>
              /\ reference'.request = stream.active
              /\ reference'.segment = session.generated
              /\ lease' = stream.active]_vars
  BY NextOrderRelease DEF OrderStep
<1>2. QED
  BY <1>1, GenInvariant, PTL DEF Spec, ReferencesInOrder

(* Low-level control is given up only when no command is left.              *)
THEOREM GeneratorReleasedWhenIdle == Spec => ReleasedWhenIdle
<1>1. GenInv /\ [Next]_vars => [lease # None /\ lease' = None => stream' = Empty]_vars
  BY NextOrderRelease DEF ReleaseStep
<1>2. QED
  BY <1>1, GenInvariant, PTL DEF Spec, ReleasedWhenIdle

=============================================================================
