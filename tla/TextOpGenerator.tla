-------------------------- MODULE TextOpGenerator --------------------------
(***************************************************************************)
(* textop_generator_node: ExecuteMotion goals arrive as a stream of        *)
(* prompts of which the latest wins.  One stream thread encodes prompts,   *)
(* generates motion primitives and publishes them as reference segments;   *)
(* the callbacks of a pool of executor threads admit goals, wait for their *)
(* outcome, cancel them, stop the stream, take tracker reports and renew   *)
(* the lease on the low-level commands.                                    *)
(*                                                                         *)
(* An action is a stretch of code under the node's lock, or what the       *)
(* stream thread does outside it between two accesses to GeneratorEngine   *)
(* or GeneratorSession that a cancel on the other side can tell apart.     *)
(* _execute holds an executor thread until its goal is decided.  Motion is *)
(* counted in primitives.                                                  *)
(***************************************************************************)
EXTENDS Integers, FiniteSets

CONSTANTS
  Requests,        \* request_id values of the goals
  MaxPrimitives,   \* bound: primitives in the longest goal
  MayDie,          \* the tracker may die: only what must happen depends on it
  Workers,         \* threads of the executor (3)
  None             \* Python's None

ASSUME GeneratorAssumption ==
  /\ None \notin Requests
  /\ MaxPrimitives \in Nat \ {0} /\ Workers \in Nat \ {0} /\ MayDie \in BOOLEAN

VARIABLES
  stream,     \* PromptStreamCoordinator: the active and the pending request
  outcome,    \* PromptStreamCoordinator._outcomes, "none" when there is none
  engine,     \* GeneratorStateMachine state and request, with segment_index
  session,    \* GeneratorSession
  lease,      \* the request of the last lease message, None when inactive
  reference,  \* the last reference segment published under the lease
  silent,     \* no tracker status for tracker_timeout under the lease
  alive,      \* the tracker process runs (environment)
  ready,      \* ReadinessGate.can_accept
  goal,       \* where each goal is
  done,       \* goals whose record.done event is set
  canceled,   \* goals with is_cancel_requested that _execute may still look at
  canceling,  \* cancel callbacks that found their goal in the stream
  thread      \* the stream thread, with its locals

vars == <<stream, outcome, engine, session, lease, reference, silent, alive, ready,
          goal, done, canceled, canceling, thread>>

goalVars == <<goal, canceled, canceling>>

Terminal == {"superseded", "completed", "canceled", "failed"}

Maybe(S) == S \cup {None}

----------------------------------------------------------------------------
(* The components the node is built from.                                   *)

Empty == [active |-> None, pending |-> None]

Streamed == {stream.active, stream.pending} \ {None}

\* GeneratorStateMachine.cancel, GeneratorSession.cancel: only by the owner.
EngineCancel(r)  == IF engine.request = r
                    THEN [engine EXCEPT !.state = "ready", !.request = None] ELSE engine
SessionCancel(r) == IF session.request = r THEN [session EXCEPT !.request = None] ELSE session

\* A token is current while the machine still generates for its request: every
\* cancel, begin and replace moves the generation on.
Current(token) == engine.state = "generating" /\ engine.request = token

ExecutionComplete == session.request # None /\ session.executed >= session.required

\* GeneratorStateMachine: begin wants a ready machine, replace one that generates
\* or drains.  They name the request first and then assign the state, as accept
\* looks at the token first.  A drained machine is ready again.
MachineTakes(replaces) == (engine.state = "ready") = ~replaces
MachineNames(r) == engine' = [engine EXCEPT !.request = r]
MachineEnters(state) == engine' = [engine EXCEPT !.state = state]
MachineDrains(token) == engine.state = "draining" /\ engine.request = token
Drained == engine' = [engine EXCEPT !.state = "ready", !.request = None]

\* GeneratorSession: mark_generated and finish want the request of the session,
\* update_executed ignores another one's and never counts back.
Owns(r) == session.request = r
MarkGenerated == session' = [session EXCEPT !.generated = @ + 1]
SessionFinish == session' = [session EXCEPT !.request = None]
UpdateExecuted(r, executed) ==
  IF Owns(r) THEN session' = [session EXCEPT !.executed = IF executed < @ THEN @ ELSE executed]
             ELSE UNCHANGED session

\* PromptStreamCoordinator: the latest request wins, and the outcome of one that
\* was answered is forgotten.
Submit(r) ==
  /\ stream' = [stream EXCEPT !.pending = r]
  /\ outcome' = [s \in Requests |-> IF s = r THEN "pending"
                                    ELSE IF s = stream.pending THEN "superseded"
                                    ELSE outcome[s]]
Forget(r) == outcome' = [outcome EXCEPT ![r] = "none"]

\* fail_active, and cancel_all for the one that is pending
FailActive ==
  /\ stream' = Empty
  /\ outcome' = [r \in Requests |-> IF r = stream.active THEN "failed"
                                    ELSE IF r = stream.pending THEN "canceled"
                                    ELSE outcome[r]]

\* _deactivate_lease
Deactivate == lease' = None /\ reference' = None /\ silent' = FALSE

\* Fault: the lease outlives the command.
StopWithoutRevoking ==
  /\ engine' = EngineCancel(stream.active)
  /\ session' = SessionCancel(stream.active)
  /\ UNCHANGED <<lease, reference, silent>>

\* What _cancel_stream and _fail_stream do to the command that is active.
StopActive ==
  IF stream.active = None
  THEN UNCHANGED <<engine, session, lease, reference, silent>>
  ELSE /\ engine' = EngineCancel(stream.active)
       /\ session' = SessionCancel(stream.active)
       /\ Deactivate

\* Every command of the stream ends, the pending one as canceled.
EndStream(fate) ==
  /\ StopActive
  /\ outcome' = [r \in Requests |-> IF r = stream.active THEN fate
                                    ELSE IF r = stream.pending THEN "canceled"
                                    ELSE outcome[r]]
  /\ stream' = Empty
  /\ done' = done \cup Streamed

CancelStream == EndStream("canceled")

----------------------------------------------------------------------------
Init ==
  /\ stream = Empty
  /\ outcome = [r \in Requests |-> "none"]
  /\ engine = [state |-> "ready", request |-> None, segment |-> 0]
  /\ session = [request |-> None, required |-> 0, generated |-> 0, executed |-> 0]
  /\ lease = None
  /\ reference = None
  /\ silent = FALSE /\ alive = TRUE /\ ready = FALSE
  /\ goal = [r \in Requests |-> "idle"]
  /\ done = {} /\ canceled = {} /\ canceling = {}
  /\ thread = [pc |-> "top", token |-> None, previous |-> None, current |-> None]

----------------------------------------------------------------------------
(* Executor callbacks.                                                      *)

\* A callback runs when a thread of the pool is free.
FreeWorker ==
  Cardinality({r \in Requests : goal[r] = "executing"}) + Cardinality(canceling) < Workers

\* _goal: between the acceptance of the first goal and its first segment the
\* tracker need not be ready.
Goal(r) ==
  /\ FreeWorker
  /\ goal[r] = "idle" /\ r \notin canceling
  /\ ready \/ (stream # Empty /\ lease = None)
  /\ goal' = [goal EXCEPT ![r] = "accepted"]
  /\ UNCHANGED <<stream, outcome, engine, session, lease, reference, silent, alive, ready,
                 done, canceled, canceling, thread>>

\* _execute up to its loop: submit replaces what is pending.
ExecuteStart(r) ==
  /\ FreeWorker
  /\ goal[r] = "accepted"
  /\ goal' = [goal EXCEPT ![r] = "executing"]
  /\ Submit(r)
  /\ done' = done \cup ({stream.pending} \ {None})
  /\ UNCHANGED <<engine, session, lease, reference, silent, alive, ready,
                 canceled, canceling, thread>>

\* The loop of _execute every 50 ms: it does not ask whose stream it cancels.  It
\* looks before it waits for the lock, so the goal may be decided by then; in that
\* case, or when this decides it, the loop ends.
ExecutePoll(r) ==
  /\ goal[r] = "executing" /\ r \in canceled
  /\ CancelStream
  /\ canceled' = canceled \ ({r} \cap done')
  /\ UNCHANGED <<alive, ready, goal, canceling, thread>>

\* The end of _execute, with its finally clause.
ExecuteEnd(r) ==
  /\ goal[r] = "executing" /\ r \in done
  /\ goal' = [goal EXCEPT ![r] = "idle"]
  /\ Forget(r)
  /\ done' = done \ {r}
  /\ canceled' = canceled \ {r}
  /\ UNCHANGED <<stream, engine, session, lease, reference, silent, alive, ready,
                 canceling, thread>>

\* _cancel asks under the lock whether the goal is in the stream (one that is decided
\* is not, and its _execute does not look any more) ...
Cancel(r) ==
  /\ FreeWorker
  /\ goal[r] # "idle" /\ r \notin done \cup canceled \cup canceling
  /\ IF r \in Streamed
     THEN canceling' = canceling \cup {r} /\ UNCHANGED canceled
     ELSE canceled' = canceled \cup {r} /\ UNCHANGED canceling
  /\ UNCHANGED <<stream, outcome, engine, session, lease, reference, silent, alive, ready,
                 goal, done, thread>>

\* ... and cancels whatever the stream holds when it has the lock again.
CancelEnd(r) ==
  /\ r \in canceling
  /\ canceling' = canceling \ {r}
  /\ CancelStream
  /\ canceled' = IF goal[r] = "idle" \/ r \in done' THEN canceled ELSE canceled \cup {r}
  /\ UNCHANGED <<alive, ready, goal, thread>>

SafeStop ==
  /\ FreeWorker
  /\ stream # Empty
  /\ CancelStream
  /\ UNCHANGED <<alive, ready, goalVars, thread>>

\* A report of the tracker: its readiness, and how much of the active request's
\* motion it has executed.
TrackerStatus(isReady, executed) ==
  /\ FreeWorker
  /\ alive
  /\ ready' = isReady
  /\ executed <= session.generated
  /\ silent' = (silent /\ stream.active = None)
  /\ IF stream.active # None THEN UpdateExecuted(stream.active, executed)
                             ELSE UNCHANGED session
  /\ UNCHANGED <<stream, outcome, engine, lease, reference, alive, goalVars, done, thread>>

\* _renew_lease names the request that is active, whether or not it has a segment.
RenewLease ==
  /\ FreeWorker
  /\ lease # None /\ stream.active # None
  /\ lease' = stream.active
  /\ UNCHANGED <<stream, outcome, engine, session, reference, silent, alive, ready,
                 goalVars, done, thread>>

\* The tracker or the network to it stops, and time passes.
TrackerDies ==
  /\ MayDie /\ alive
  /\ alive' = FALSE
  /\ UNCHANGED <<stream, outcome, engine, session, lease, reference, silent, ready,
                 goalVars, done, thread>>

StatusOverdue ==
  /\ lease # None /\ ~silent
  /\ silent' = TRUE
  /\ UNCHANGED <<stream, outcome, engine, session, lease, reference, alive, ready,
                 goalVars, done, thread>>

ReadinessLapses ==
  /\ ready
  /\ ready' = FALSE
  /\ UNCHANGED <<stream, outcome, engine, session, lease, reference, silent, alive,
                 goalVars, done, thread>>

----------------------------------------------------------------------------
(* The stream thread.                                                       *)

At(pc) == thread.pc = pc
GoTo(pc) == thread' = [thread EXCEPT !.pc = pc]
Again == thread' = [thread EXCEPT !.pc = "top", !.current = None]

\* Fault: the new goal is signaled in place of the old one.
LeaveWakesCurrent(pc, token) ==
  /\ thread' = [pc |-> pc, token |-> token, previous |-> None, current |-> None]
  /\ done' = done \cup {thread.current}

\* The way out of the try block: the finally clause signals the previous goal.
LeaveTransition(pc, token) ==
  /\ thread' = [pc |-> pc, token |-> token, previous |-> None, current |-> None]
  /\ done' = done \cup ({thread.previous} \ {None})

\* activate_pending
ActivatePending ==
  /\ At("top") /\ stream.pending # None
  /\ stream' = [active |-> stream.pending, pending |-> None]
  /\ outcome' = [r \in Requests |-> IF r = stream.pending THEN "active"
                                    ELSE IF r = stream.active THEN "superseded"
                                    ELSE outcome[r]]
  /\ thread' = [thread EXCEPT !.pc = "begin", !.previous = stream.active,
                              !.current = stream.pending]
  /\ UNCHANGED <<engine, session, lease, reference, silent, alive, ready, goalVars, done>>

Continue ==
  /\ At("top") /\ stream.pending = None /\ stream.active # None
  /\ GoTo("plan")
  /\ UNCHANGED <<stream, outcome, engine, session, lease, reference, silent, alive, ready,
                 goalVars, done>>

\* engine.begin or engine.replace takes the request ...
Begin ==
  /\ At("begin")
  /\ IF MachineTakes(thread.previous # None)
     THEN MachineNames(thread.current) /\ GoTo("begun")
     ELSE GoTo("fail") /\ UNCHANGED engine
  /\ UNCHANGED <<stream, outcome, session, lease, reference, silent, alive, ready,
                 goalVars, done>>

\* ... and generates for it, whether or not it was canceled in between.
BeginGenerating ==
  /\ At("begun")
  /\ MachineEnters("generating")
  /\ GoTo("encode")
  /\ UNCHANGED <<stream, outcome, session, lease, reference, silent, alive, ready,
                 goalVars, done>>

NumberedFromZero == engine' = [engine EXCEPT !.segment = 0]

\* encode_text returns, and ensure_active finds out whether it was canceled.
Encoded ==
  /\ At("encode")
  /\ IF Current(thread.current)
     THEN /\ NumberedFromZero
          /\ thread' = [thread EXCEPT !.pc = "session", !.token = thread.current]
          /\ UNCHANGED done
     ELSE LeaveTransition("top", thread.token) /\ UNCHANGED engine
  /\ UNCHANGED <<stream, outcome, session, lease, reference, silent, alive, ready,
                 goalVars>>

\* The encoder or the model raises.
RuntimeFails ==
  /\ At("encode") \/ At("generate")
  /\ GoTo("fail")
  /\ UNCHANGED <<stream, outcome, engine, session, lease, reference, silent, alive, ready,
                 goalVars, done>>

\* Fault: a replaced prompt inherits the session of the old one.
KeepSession(required) ==
  /\ At("session")
  /\ IF thread.previous = None /\ session.request = None
     THEN session' = [request |-> thread.current, required |-> required,
                      generated |-> 0, executed |-> 0]
     ELSE UNCHANGED session
  /\ GoTo("check")
  /\ UNCHANGED <<stream, outcome, engine, lease, reference, silent, alive, ready,
                 goalVars, done>>

\* session.begin or session.replace
BeginSession(required) ==
  /\ At("session")
  /\ IF (session.request = None) = (thread.previous = None)
     THEN /\ session' = [request |-> thread.current, required |-> required,
                         generated |-> 0, executed |-> 0]
          /\ GoTo("check")
     ELSE GoTo("fail") /\ UNCHANGED session
  /\ UNCHANGED <<stream, outcome, engine, lease, reference, silent, alive, ready,
                 goalVars, done>>

CheckActive ==
  /\ At("check")
  /\ IF stream.active = thread.current
     THEN /\ LeaveTransition("plan", thread.current)
          /\ UNCHANGED <<engine, session>>
     ELSE /\ LeaveTransition("top", thread.current)
          /\ engine' = EngineCancel(thread.current)
          /\ session' = SessionCancel(thread.current)
  /\ UNCHANGED <<stream, outcome, lease, reference, silent, alive, ready, goalVars>>

\* _fail_stream, called from the stream thread only, which waits for the lock
FailStream ==
  /\ At("fail")
  /\ StopActive
  /\ FailActive
  /\ done' = done \cup Streamed \cup ({thread.previous} \ {None})
  /\ thread' = [thread EXCEPT !.pc = "top", !.previous = None, !.current = None]
  /\ UNCHANGED <<alive, ready, goalVars>>

Plan ==
  /\ At("plan")
  /\ thread' = IF stream.active = None \/ thread.token = None
               THEN [thread EXCEPT !.pc = "top"]
               ELSE [thread EXCEPT !.current = stream.active,
                       !.pc = IF session.generated < session.required THEN "generate" ELSE "finish"]
  /\ UNCHANGED <<stream, outcome, engine, session, lease, reference, silent, alive, ready,
                 goalVars, done>>

\* engine.generate_next, up to the last look at the token ...
Generate ==
  /\ At("generate")
  /\ IF Current(thread.token)
     THEN /\ engine' = [engine EXCEPT !.segment = @ + 1]
          /\ GoTo(IF session.generated + 1 >= session.required THEN "accept" ELSE "publish")
     ELSE Again /\ UNCHANGED engine
  /\ UNCHANGED <<stream, outcome, session, lease, reference, silent, alive, ready,
                 goalVars, done>>

\* ... after which the last primitive makes the machine drain, canceled or not.
Accept ==
  /\ At("accept")
  /\ MachineEnters("draining")
  /\ GoTo("publish")
  /\ UNCHANGED <<stream, outcome, session, lease, reference, silent, alive, ready,
                 goalVars, done>>

\* Fault: what was generated is published without another look at the stream.
StaleAccepted == TRUE

StillWanted == stream.active = thread.current

\* mark_generated raises when the session is not the request's.
Publish ==
  /\ At("publish")
  /\ IF StillWanted
     THEN /\ reference' = [request |-> thread.current, segment |-> engine.segment - 1]
          /\ IF session.generated = 0
             THEN lease' = thread.current /\ silent' = FALSE
             ELSE UNCHANGED <<lease, silent>>
          /\ IF Owns(thread.current)
             THEN MarkGenerated /\ Again
             ELSE GoTo("fail") /\ UNCHANGED session
     ELSE Again /\ UNCHANGED <<reference, session, lease, silent>>
  /\ UNCHANGED <<stream, outcome, engine, alive, ready, goalVars, done>>

\* Fault: a pending prompt does not keep the stream going.
FinishedAlone == ExecutionComplete

\* Nothing replaces the motion, and the tracker has executed all of it.
Finished == stream.pending = None /\ ExecutionComplete

\* Fault: the completed command stays active.
CompleteKeepsActive ==
  /\ outcome' = [outcome EXCEPT ![stream.active] = "completed"]
  /\ UNCHANGED stream

\* PromptStreamCoordinator.complete_active
CompleteActive ==
  /\ outcome' = [outcome EXCEPT ![stream.active] = "completed"]
  /\ stream' = [stream EXCEPT !.active = None]

\* _complete_active; drained raises when the machine does not drain this token.
Complete ==
  /\ At("finish") /\ Finished
  /\ thread' = [thread EXCEPT !.pc = "top", !.token = None, !.current = None]
  /\ IF MachineDrains(thread.token) /\ stream.active # None
     THEN /\ Deactivate
          /\ Drained
          /\ SessionFinish
          /\ CompleteActive
          /\ done' = done \cup {stream.active}
     ELSE EndStream("failed")
  /\ UNCHANGED <<alive, ready, goalVars>>

\* Fault: silence is waited out.
NeverTimedOut == FALSE

TimedOut == lease # None /\ silent

TrackerTimeout ==
  /\ At("finish") /\ stream.pending = None /\ ~ExecutionComplete
  /\ TimedOut
  /\ EndStream("failed")
  /\ thread' = [thread EXCEPT !.pc = "top", !.token = None, !.current = None]
  /\ UNCHANGED <<alive, ready, goalVars>>

\* A pending prompt, or 20 ms without news.
Loop ==
  /\ At("finish")
  /\ stream.pending # None \/ (~ExecutionComplete /\ ~TimedOut)
  /\ Again
  /\ UNCHANGED <<stream, outcome, engine, session, lease, reference, silent, alive, ready,
                 goalVars, done>>

StreamStep ==
  \/ ActivatePending \/ Continue
  \/ Begin \/ BeginGenerating \/ Encoded
  \/ (\E n \in 1..MaxPrimitives : BeginSession(n)) \/ CheckActive
  \/ Plan \/ Generate \/ Accept \/ Publish
  \/ Complete \/ TrackerTimeout \/ Loop
  \/ FailStream

Next ==
  \/ \E r \in Requests : Goal(r) \/ ExecuteStart(r) \/ ExecutePoll(r) \/ ExecuteEnd(r)
                         \/ Cancel(r) \/ CancelEnd(r)
  \/ SafeStop
  \/ \E isReady \in BOOLEAN, executed \in 0..MaxPrimitives : TrackerStatus(isReady, executed)
  \/ RenewLease
  \/ TrackerDies \/ StatusOverdue \/ ReadinessLapses
  \/ StreamStep
  \/ RuntimeFails

Spec == Init /\ [][Next]_vars

(* The stream thread runs, the executor runs what is ready, and two seconds *)
(* pass when a dead tracker lets them.                                      *)
Fairness ==
  /\ WF_vars(StreamStep)
  /\ \A r \in Requests : WF_vars(ExecuteStart(r)) /\ WF_vars(ExecuteEnd(r))
  /\ WF_vars(~alive /\ StatusOverdue)

FairSpec == Spec /\ Fairness

----------------------------------------------------------------------------
\* Every variable has its type, and the counts stay within the longest motion.
TypeOK ==
  /\ stream \in [active: Maybe(Requests), pending: Maybe(Requests)]
  /\ outcome \in [Requests -> Terminal \cup {"none", "pending", "active"}]
  /\ engine \in [state: {"ready", "generating", "draining"}, request: Maybe(Requests),
                 segment: 0..MaxPrimitives]
  /\ session \in [request: Maybe(Requests), required: 0..MaxPrimitives,
                  generated: 0..MaxPrimitives, executed: 0..MaxPrimitives]
  /\ lease \in Maybe(Requests)
  /\ reference \in Maybe([request: Requests, segment: 0..(MaxPrimitives - 1)])
  /\ silent \in BOOLEAN /\ alive \in BOOLEAN /\ ready \in BOOLEAN
  /\ goal \in [Requests -> {"idle", "accepted", "executing"}]
  /\ done \subseteq Requests /\ canceled \subseteq Requests /\ canceling \subseteq Requests
  /\ thread \in [pc: {"top", "begin", "begun", "encode", "session", "check", "fail", "plan",
                      "generate", "accept", "publish", "finish"},
                 token: Maybe(Requests), previous: Maybe(Requests), current: Maybe(Requests)]

(* Low-level control is held only on behalf of an active command: whichever *)
(* thread ends the last command has revoked the lease under the same lock   *)
(* (_cancel_stream, _fail_stream, _complete_active).                        *)
LeaseNeedsCommand == lease # None => stream.active # None

(* While the stream thread works for the active command outside the lock,   *)
(* the session and the state machine belong to that command, whatever the   *)
(* callbacks did since it was activated.                                    *)
WorkIsOwned ==
  thread.pc \in {"plan", "generate", "accept", "publish", "finish"} /\ stream.active # None =>
    session.request = stream.active /\ engine.request = stream.active

(* A goal is woken only when its fate is sealed, so _execute never reports  *)
(* "command outcome unavailable" and forget never raises.                   *)
WokenWhenDecided == \A r \in done : outcome[r] \in Terminal /\ r \notin Streamed

(* The fate of a goal is decided once: no race of completion, replacement,  *)
(* cancel, stop and failure turns it into another.                          *)
OutcomeIsFinal ==
  [][\A r \in Requests : outcome[r] \in Terminal => outcome'[r] \in {outcome[r], "none"}]_vars

(* What reaches the tracker was generated for the command that is active    *)
(* when it is published, and is the next primitive of that command: work    *)
(* that a cancel, stop or replacement overtook is dropped.                  *)
ReferencesInOrder ==
  [][reference' \notin {reference, None} =>
       /\ reference'.request = stream.active
       /\ reference'.segment = session.generated
       /\ lease' = stream.active]_vars

(* docs/textop_streaming_commands.md, continuity: replacing one prompt by   *)
(* another never gives up low-level control; it is released only when no    *)
(* command is left.                                                         *)
ReleasedWhenIdle == [][lease # None /\ lease' = None => stream' = Empty]_vars

(* A dead tracker strands no caller: every goal that waits when the tracker *)
(* reports no more is decided and answered (tracker_timeout).               *)
DeadTrackerEndsGoals ==
  \A r \in Requests : (goal[r] = "executing" /\ ~alive) ~> goal[r] # "executing"

(* docs/textop_streaming_commands.md: a stop or a failure leads back to     *)
(* idle, where a new command starts a session.                              *)
IdleAgain == At("top") /\ stream = Empty => session.request = None

(* tests/test_generator.py, docs/textop_streaming_commands.md: a stop       *)
(* leaves a machine that is ready for the next command, wherever the stream *)
(* thread was.                                                              *)
ReadyAgain == At("top") /\ stream = Empty => engine.state = "ready"

(* docs/textop_streaming_commands.md: to cancel a goal that was superseded  *)
(* does not stop the current one.                                           *)
OldCancelIsHarmless ==
  [][\A r \in Requests : outcome[r] = "superseded" /\ ExecutePoll(r) => UNCHANGED stream]_vars

(* docs/textop_streaming_commands.md: the lease does not name a request     *)
(* before its reference is there.                                           *)
LeaseNamesReference == lease # None => reference.request = lease

=============================================================================
