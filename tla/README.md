# A verification project for unitree_g1_agent

TLA+ models of the voice-controlled motion stack of the Unitree G1 agent
(`src/`), TLC runs on small instances, and TLAPS proofs for all values of the
constants. Every definition of a module is translated from the source; the
`map` of `PROJECT.json` names the lines it stands for.

    tlc -workers 2 -config MCLowLevelGuard.cfg MCLowLevelGuard   # a run
    tlapm LowLevelGuard_proof.tla                                # the proofs

## 1. The system

Two motion chains share the voice front end. `motion_backend` picks one.

    official_loco:  asr -> voice_bridge -> safety_control -> g1_interface -> Sport API -> robot
                              ^                ^  state, mode, health  |
                              |                +----------------------+
                              +-- agent (Pi process)   safety heartbeat: safety_control -> g1_interface

    textop:         asr -> voice_bridge -ExecuteMotion-> textop_generator -reference, lease-> textop_tracker
                              |                             ^   status                          | candidate
                              +- stop -> safety_control ----+                                   v
                                                    lease ----------------------------> low_level_guard -> /lowcmd

| Component | State it keeps | Operations | What is hard about it | What makes it correct |
|---|---|---|---|---|
| `low_level_guard` (C++) | lease, candidate, lowstate, each with a deadline; last sequence id | lease, candidate and lowstate messages, publish timer | deadlines that expire between messages, ids that come back, a command that is repeated while the joint moves | nothing reaches the motors but a young candidate of the running control session |
| `g1_interface` | last acknowledgement, outstanding API requests, motion deadline, ages of three inputs | loco, stop, API response, watchdog, health, mode query, shutdown | responses lost, late, reordered or unreadable; two functions that judge the same state | every motion is supervised and is the last command sent |
| `safety_control` | summary of the robot, recorded command, token bucket | loco and action intents, summaries, health | stop and loco over two topics, summaries older than the command they overwrite, a clock that steps | rate, continuity, freshness behind every command |
| `textop_generator` | prompt stream, engine state, session, lease, goals | goal, cancel, stop, tracker status, renew; stream thread | one lock, three executor threads, a stream thread that computes outside the lock | work belongs to the active prompt, every goal ends once, the lease ends with the work |
| `textop_tracker` | reference buffer, frame, lease, readiness | reference, lease, lowstate, tick | lease and reference over two topics, a buffer that is cleared before it is validated | follows a motion from its first frame on without a gap, reports what it did, and no more after its lease ended |
| `voice_bridge` | session, request generation, lock | ASR event, agent answer, state timer | two threads over one session, one of them without the lock | a stop is published and nothing older follows it |
| `pi_agent` (in voice_bridge) | transport, event queue, `_aborted` | decide, abort, close, reader | the process dies, refuses, retries, never answers; an abort between turns | an answer belongs to its request, decide returns |
| `asr_node` | two bounded queues, speech buffer | receive, put, judge, cut, transcribe, stop | queues at their limit, also at shutdown; a recogniser that does not return | audio is used once and in order, no utterance is lost unseen or joined to another, and the node stops |
| `voice_bridge_debug` | last messages, queue, sockets, the page | callbacks, broadcast, two fetches, reconnect | fetches cross the messages of the socket; a socket fails in the middle of a broadcast | a page that missed nothing shows what is |
| `g1_sim` | simulated robot | requests of five services, state timers | requests that raise half way, a clock that is set back | moves no longer than it was told to |
| `textop_model`, `crc`, configuration, converters, messages, launch files | none that control depends on | - | - | - |

The hazards of each, at their lines, are in `PROJECT.json`.

## 2. The modules

All nodes but two spin in one thread, so there an action is a whole callback.
In `textop_generator` an action is a stretch of code under the lock, or what the
stream thread does outside it up to where a cancel can make a difference; in `voice_bridge` a stretch between two
accesses to something the other thread writes; in the agent client one queue,
flag or transport operation.

**LowLevelGuard** (`low_level_guard/src/guard_core.cpp`, `node.cpp`). Time is
ticks of the monotonic clock; 29 joints are one, whose unit of position is what
it can travel in a tick. `GrantLease`/`RevokeLease` are the two exits of
`update_lease`, `AcceptCandidate` is `accept_candidate` with its checks,
`PublishCommand` is the timer with `command()`. `grant` counts control
sessions; it and the `acceptedAt` of a candidate are history.

**ControlAuthority** is what the guard promises, without leases, candidates or
clocks: one session in control at a time, an order that is followed only in the
session it was given in, while that session's word is good, and only for
`Validity` ticks. LowLevelGuard implements it
(`Authority == INSTANCE ControlAuthority WITH ...`): a lease is a session whose
word is good until the deadline, a candidate is an order, what is on `/lowcmd`
in this tick is what is followed.

**G1Interface** (`g1_interface/node.py`, `sport_api.py`). A tick is a watchdog
period. Ages saturate one tick past the limit they are compared with, so there
is no clock to bound. Request ids are taken from the finite set `Ids` and are
free again when nothing refers to them. Responses come to any outstanding
request, in any order, late, never, rejected, with no data, data that is no
integer, or data that does not decode. `cmd` holds what a velocity command
touches. Steps of the code that publish a stop inside another callback
(`Answered`, `Expire`, `Shutdown`) are part of that callback's action.

**SimMotion** is how the simulated robot moves: `integrate` and
`apply_velocity_command` of `g1_sim/model.py` as operators on a record of
differences between clock readings. **G1Sim** is the simulator around it
(`g1_sim/node.py`): one action per service, a request answered in its callback;
`VelocityRejected` is a request that raises after part of it was assigned.
`SetBack` sets the ROS clock back. `movedFor` and `allowed` are history.

**LocoChain** composes G1Interface and SimMotion: what a callback of the
interface sends goes on `wire`, a queue of velocity requests of which any may be
lost; the robot takes them in order, and integrates at least once a tick. `Kill`
is the process dying without its last stop. What the robot answers is
G1Interface's open environment.

**SafetyControl** (`safety_control/node.py`, `validator.py`, `state.py`). The
clock is the ROS clock, which may be set back `ClockSteps` times; `elapsed` is
the time that passed. Intents carry any creation stamp of the last `MaxLag`
ticks. `g1_interface` is external here: it obeys, stops by itself, and stamps
summaries that repeat its last command; they travel on FIFO topics. The
sport/mode/health conditions a summary may report are the set `Conditions`.

**TextOpGenerator** (`textop_backend/generator_node.py`, `prompt_stream.py`,
`generator_engine.py`, `generator_session.py`, `generator.py`). Length of a
motion is counted in primitives. `_execute` keeps an executor thread until its
goal is decided (`Workers`). The stream thread's `pc` names the calls outside
the lock; the callbacks interleave there. Inside a call they do so where it
matters: the state machine names a request (`Begin`) before it assigns the state
(`BeginGenerating`), and looks at its token (`Generate`) before it drains
(`Accept`). The other assignments outside the lock are those of
`GeneratorSession.begin`, of which the request is the only one that a cancel reads
or writes. `_execute` looks for a cancel before it has the lock: `ExecutePoll` may
come when the goal is decided already, and then once.

**TextOpTracker** (`textop_backend/tracker_node.py`, `tracker_engine.py`,
`reference.py`). The generator is external and publishes as TextOpGenerator
does; references and leases are keep-last queues that lose their oldest
message, with no order between them. A segment's arrays are the numbers of its
frames, so that `buffer.content` shows what the policy would be given. A
message that does not validate is dropped, after `append_reference` has already
rewound the frame. `TickFollow` is `_tick` with a step that returns; a step that
raises, a pending reference and a lease for another request change nothing.
The tracker does not look at the lease's ttl: it is LowLevelGuard that lets a
lease expire. `length`, `followed`, `moved` and `ended` are history.

**VoiceBridge** (`voice_bridge/node.py`, `intent.py`). The ROS thread's
`on_asr` and the worker's `_run_agent_request`; `session` is written attribute
by attribute. The agent answers with any sequence of `Answers`, or raises, at
any time. Sessions may time out whenever somebody speaks.

**PiAgent** (`voice_bridge/pi_agent.py`). Every `PiRpcTransport` ever started,
with its event queue and generation, and the Pi process behind it, which is
external. A tool call is named by the turn that made it. Timeouts are choices
that are always open, but for the turn's deadline, which is a flag that rises.
`new_session` and `get_state` count as one send that succeeds or fails with
the prompt. Late responses that go to the event queue are left out: decide
reads past them. `close` is one step, although it waits for the process.
Its operators have the prefix `Pi` where VoiceBridge has them too: one module
proves about both. `None` is the same value for both, from **PythonNone**, as it is
for the simulator and the panel below, which share a proof module as well.

**AsrPipeline** (`asr_node/node.py`, `audio_capture.py`, `buffer.py`, `vad.py`,
`asr_engine.py`). Three threads, two bounded queues and `stop()` in the main
thread. Audio is numbered chunks; the detector's answer and the recogniser's are
open. A put on a full queue and a join that times out are choices while the wait
is on. `Stage` lists the places audio goes through, the published texts first
and the capture thread last: `UsedOnceInOrder` says that what is further on its
way is older, and that each place keeps the order; nothing can then be used
twice. `OneUtterancePerText` links any two chunks of a text that were heard as
speech by pauses shorter than `MaxSilence`. `judged`, `warned`, `published` and
`overdue` are history. A publish between the interrupt and the end of the node
succeeds, as it does on the repository's Foxy; later distributions shut the
context down first, and the worker would end there as in `PublishTooLate`.

**DebugPanel** (`voice_bridge_debug`: `ros_node.py`, `state.py`, `server.py`,
`ws.py`, `routes.py`, and the page's `App.tsx`, `ws.ts`). The ROS thread, the
queue to the event loop, the broadcast worker with one send per step, and one
page with its socket and its two fetches. A message is the count of changes of
its kind. `gap` is history: the page missed something, in one of three ways the
code leaves open. Its operators have the prefix `Panel` where G1Sim has them too.

`MC*` are the instances for TLC, `*_proof` the proofs.

## 3. Runs

| Run | Bounds | Shows |
|---|---|---|
| `guard` | 2 leases, 2 requests (symmetric), 2 sessions, 2 sequence ids, 4 ticks, limits of 2, 4 joint positions | `ImplementsAuthority` (refinement), `PublishedNearJoint`, `SequenceGrowsInSession` |
| `chain` | 3 ids, 1 query, payloads that decode, are no integer or do not decode, limits of 0 and 1 ticks, motions of 2, 2 requests on the wire | `MovesOnlySupervised`, `DeadInterfaceStops` (liveness), `MotionIsLastCommand`, `MotionSupervised`, `HealthyMeansAllowed` |
| `generator` | 3 goals (symmetric), motions of 1 and 2 primitives, 3 executor threads | `LeaseNeedsCommand`, `WorkIsOwned`, `ReferencesInOrder`, `ReleasedWhenIdle`, `WokenWhenDecided`, `OutcomeIsFinal` |
| `generator_drain` | 2 goals, 1 primitive, a tracker that may die | `DeadTrackerEndsGoals` (liveness) |
| `safety` | 2 modes, 3 speeds with a step limit of 1, bucket of 1 refilled in 2 ticks, 3 ticks, one clock step | `RateBounded`, `LocoOnFreshState`, `StepsFromLastCommand` |
| `tracker` | 2 motions (symmetric) of up to 3 segments of 2 frames, queues of 2, 1 restart | `ContentInOrder`, `ExecutedTruthful`, `PreviousActionIsLast`, `EndedStaysEnded` |
| `voice` | 4 ASR events, 5 kinds of answer of up to 2 commands | `NoMotionAfterStop`, `PendingHasARequest`, `StopIsPublished` (liveness) |
| `pi` | 2 requests, 2 processes, 1 abort, 3 events ahead of the worker | `OwnTurnUntilLeft`, `NoCallTwice`, `FailedIsReplaced`, `DecideReturns` (liveness) |
| `asr` | 7 chunks, utterances of 2 to 3, pauses of 2, padding of 1, queues of 2 and 1 | `UsedOnceInOrder`, `DroppedIsShort`, `OneUtterancePerText`, `WorkerEndsLast`, `CleanStop`, `StopReturns` (liveness) |
| `sim` | 2 speeds, commands of 0 to 2 ticks, timers up to 2 ticks apart, the clock set back twice, 2 applications and 2 streams (symmetric) | `MovesOnlyInItsTime`, `PlayingIsTrue` |
| `panel` | 3 changes, a timeline of 2 events, 2 sockets | `QuietMeansCurrent`, `SocketHasNoGap`, `NewsIsShown` (liveness) |
| `pi_own` | 2 requests, 1 process | violated, see section 5 |

The type invariants (`TypeOK`, `ChainTypeOK`) are part of no run: those of the
modules with proofs are theorems, and TLC agrees to the others with the constants of the runs.

Why the bounds are enough: a stale thing needs one older and one newer of its
kind (two leases, sessions, requests, processes); a race of three needs a third
goal, which is there for the stream. The tick counts let every deadline
expire, and be renewed, once and then once more (guard) or let the bucket
refill once (safety). Three ids hold a motion, the stop that ends it and a
query, or the next motion; with a fourth the run takes more than five minutes, so
an answer to an older motion that arrives when a newer one has been stopped and
followed is left to `InterfaceMotionIsLastCommand`, which holds for every set of
ids. Three segments hold a first, a last and one between them that may be
lost; a queue of two loses messages and still holds a motion's next. Four
events hold a session, its request, its stop and a new session. Two requests on
the wire are a motion and the stop that overtakes nothing. Seven chunks are an
utterance, its pause, and another that is cut; the two queues fill with three.
Three changes are one of each kind, or one kind in two messages around a fetch;
the second socket is the one after a break.
The proofs of section 4 have no bounds.

`generator` compares states by `Live` (a `VIEW`), which leaves out what no step
reads before it is assigned again: the counts of a session and the segment number
of a machine without a request, and a token between the end of its command and
the next. `GenInv` is the reason that it may: a token is shown only while its
command, if it is still active, owns machine and session. Without the view the
run has three times the states, takes too long beside others, and agrees.

`CHECK_DEADLOCK FALSE` is everywhere but in `tracker`, whose sensors never stop:
every other model has a bound at which it stops (time, events, turns) or a
process that was shut down.

Fairness is assumed in six places. *LocoChain*: a request arrives or is lost,
the robot's timers run and time passes; nothing is assumed of the interface.
*AsrPipeline*: the capture thread and `stop()` go on, because each of their waits
has a timeout; the recogniser need not return, and nobody need interrupt.
*DebugPanel*: the ROS thread, the event loop and the network go on; a browser
need not load or stay. *TextOpGenerator*: the stream thread runs,
an executor thread that may go on does, and a silent tracker is noticed after
two seconds; nothing is assumed of clients, of the tracker or of the encoder's
answer, which is a step of the stream thread that returns or raises.
*VoiceBridge*: both threads go on when they can, the agent need not answer.
*PiAgent*: the worker goes on, because each of its waits has a timeout, and
time passes; Pi promises nothing, but is taken to read its pipe
(`stdin.write` at `pi_agent.py:164` has no timeout). In *DebugPanel* every send
ends, if only because the server gives up a dead socket (`WF(SendTo)`).

## 4. Proofs

TLAPS proves the following for all constants that meet the modules'
assumptions; none of them assumes a bound. The assumptions are types, `None` and
other marks that are outside the sets they are added to (`NoRequestAssumption`,
`NoneAssumption`, `MarksAssumption`), what the agent may answer
(`AnswerAssumption`), and limits that are positive where the code's own
validation asks for it: `Accepted` in SafetyControl and G1Interface is what
`validate` of their configurations accepts. `asr_node` does not validate its
limits; in chunks, of which there is at least one when a limit is compared, a
limit of zero is one of 1.

**LowLevelGuard_proof.** `GuardTypeOK` is inductive. `GuardInv` adds what the
stored values still say of the present: a held candidate belongs to the running
session and expires `MaxValid` ticks after it was accepted (`Held`), the joint
is no farther from the last report than the ticks since (`Reported`), a
candidate no farther from the joint than the check allowed plus the ticks since
the report it was checked against (`Near`), and what was published in this tick
has the same qualities (`Sent`). It is needed because the guard checks position
and session once, on acceptance, and publishes later: the properties speak of
`lowcmd`, the checks of `candidate` and `lowstate`. `Near` uses the triangle
inequality (`DistanceTriangle`). `SequenceGrowsInSession` is an action property
and follows from type correctness, by cases on the actions.
`GuardImplementsAuthority` maps the initial state and every step to
ControlAuthority; it needs the invariant before and after the step, because what
is followed is the stored candidate only as long as the candidate is `Held`.

**LocoChain_proof**, first part: g1_interface alone. `IInv` is `Scalars` (types),
`CommandOK` on the command record (ids in flight are unique, one that is the
acknowledgement's is a velocity request that is pending, a motion runs exactly
while the followed request is one that has not failed, an id is left for the
stop that would end it), `Supervised` (what the watchdog leaves behind) and `ModeKnown` (a fresh
answer has set the mode). Without the uniqueness of ids a late answer could
resolve another request's acknowledgement. Each operator that transforms the
record (`PublishStop`, `Expire`, `Answered`, `Aged`, `Build` and the publishing
of a motion) has a lemma that it keeps `CommandOK`; `StepIInv` goes through the
actions with them. `InterfaceMotionIsLastCommand`, `InterfaceMotionSupervised`
and `InterfaceHealthyMeansAllowed` follow.

Second part, the chain: `ChainInv` adds to `IInv` that the last thing said is a
stop unless a motion is supervised or the last request was lost (`LastSaid`), where
the robot's own speed counts as the last thing said when the wire is empty. The
interface's side of it is `CallbackEndsAloud`: no callback ends a motion without
a request under a new id, which needs `Room` (an id is left) and that a pending
stop never hides a running motion (`MotionIsAck`). The rest is that the topic is
in order: taking the head, or losing any request but the last, leaves what was
said last (`LosingKeepsLast`).

**SimPanel_proof**, first part, the simulator. `Budget` bounds what was moved plus what may still be moved
(`StillToMove`: the time since the last integration that lies in the command,
and what is left of it) by what the command and the clock allow. It has to hold
of a robot that stands, too, because a rejected request may give it a velocity
for what is left of a command that had none. `Bounded` is needed where the model
stops counting. `SimPlayingIsTrue` is inductive with the types.

Second part, the debug panel. `PanelInv` follows a change from `PanelState` to the
page: the message the ROS thread holds, the queue, the broadcast in progress, the
wire. `InOrder` says that what is further on its way is older, kind by kind, and
`Covered` that behind every message there are all the later ones of its kind: for
the queue at any time, for the open socket from the first message it is sent, be it
read already. With both, what the page reads next is the next one, which is
`PanelSocketHasNoGap`. `Connected` is why a broadcast reaches the open socket: it
is in the server's set, and no failed send of an older socket takes it out.
`AnswersCurrent` and `PageCurrent` say of the answers on hand, and then of the page,
that they lack nothing but what is still coming (`Current`, `Complete`); when
nothing is, `PanelQuietMeansCurrent` follows. `Complete` asks for each later event
*behind* an event of the list, not only somewhere in it: the page cuts its list
from the front, and an event in front could be the one that is needed.
`NothingLost` carries this over every step that loses nothing on the way,
`LongerIsComplete` over the cut.

**SafetyControl_proof.** `SafetyTypeOK` needs that the bucket stays in its
range. `SafetyRateBounded` needs two facts that are not in the property:
`BucketHonest` (the tokens there are were earned since they were counted, in
time that passed, whatever the clock did) and `Windows` (what passed since any
command, plus what is left in the bucket, is at most burst and refill).
`SafetySteps` rests on `OwnIsLast` (the command the tracker recorded as its own
is the last that passed), `SafetyFreshState` on `Steady` (as long as the clock
was not set back, every stamp is the time that passed, one tick apart).

**TextOpGenerator_proof.** `GenInv` has two parts next to the types. `Commands`
says where each goal is by its outcome: the active and the pending one are those
in the stream, one that is woken has a last fate, and the one that a transition
has replaced is superseded and not woken before the transition ends. Without the
last, a goal could be answered and submitted again while the stream thread still
holds it as `previous`. `Work` says what the thread may rely on at each place
between two looks at the lock. What it works for is active or has been ended
(`WorksForActive`, since only the thread activates); what of machine and session
is the active command's already during a transition (`Transition`); and that
after it both belong to the command, count alike, and the lease names the command
once a segment is out (`Working`). The places in a transition need the machine's
state as well: an encoding that finds itself canceled must have lost its command.
Nothing is said of a command that was ended, which is why a stale session or a
machine that generates for nobody may stay behind (`IdleAgain` and `ReadyAgain`
below do not hold, and none of the theorems needs them).
`EndStreamStep` treats every way a whole stream ends at once.

**TextOpTracker_proof.** `TrackerTypeOK` proves `Typed`, which bounds what may
still be published. `Filled` adds what makes a tick safe: a buffer without a
request is empty, one with a request has frames, and a final one has a frame
that is still to be tracked, so that `window` is never asked of nothing.
`TrackerContentInOrder` needs `Filled` alone: a segment is joined only where its
number says. `TrackerPreviousAction` needs that a candidate is sent only for a
buffer that has a request. `TrackerExecutedTruthful` needs where the length of
a motion comes from: a known length belongs to a motion whose last segment is
out (`Used`), a final segment on its way ends at that length (`LengthSent`), a
final buffer has it (`LengthHeld`), and every frame behind the counter was sent
(`SentBefore`). Lemmas on the queues (`PutElements`, `TakeElements`) say which
messages are left when one is lost or taken. `TrackerEndedStaysEnded` needs that
the ids of leases only go up, and past every end: along the queue
(`LeasesInOrder`: behind the end of a lease comes a later one), up to the lease
the generator is renewing (`GeneratorIsLast`), and from the ends that were handled
to what is still on its way (`EndsAreOver`). Losing or taking a message keeps all
of it.

**VoiceBridge_proof.** `VoiceInv` numbers things. Requests and spoken stops take
their numbers from one counter, so that a stop is younger than every request
before it and older than any after (`StopsNumbered`); between the invalidation
and the end of `on_asr` no request is current (`NoneCurrent`), and the worker,
once it has checked, holds the lock, publishes nothing of a request that a stop
on the bus has ended (`WorkerIsYounger`), and keeps the stop waiting until it has
done (`LockHeld`). `VoiceNoMotionAfterStop` is the case where the worker
publishes. `VoicePendingHasARequest` needs who may leave a session waiting, for
every place of both threads, because the session is moved by one of them without
the lock (`WaitsForRequest`). Most steps touch nothing the other thread reads:
`RosMoves` and `AgentMoves` treat them together.

**AsrPipeline_proof.** Four invariants on top of each other. `StopInv`: a
sentinel is the last thing in its queue and each thread ends after the one before
it, with nothing in hand (`SentinelLast`, `EndsInTurn`); with it the node's order
of joins gives `AsrWorkerEndsLast` and `AsrCleanStop`. `OrderInv` is the order of
audio over the eight places and at each of them. The steps of the pipeline all
hand audio from one place to the next or drop it, which is what the lemmas
`HandOn`, `MoveKeepsOrder` and `LossKeepsOrder` are about; that a hand-over leaves
the order across all places intact is proved there, once. `UtteranceInv` says of
every text on its way what `OneUtterancePerText` says of a published one, and of
the buffer that its utterance goes on to the last speech that was heard
(`OneInBuffer`). `HearOutcome` splits what the buffer makes of a chunk into its
cases; `NearTheNext` is the step that joins a chunk to the utterance: fewer than
`MaxSilence` chunks were silent since. `DropInv` is for `DroppedIsShort`, which
counts the chunks of an utterance. While the buffer records, its speech is what was
heard since some chunk s, as many as it holds, and with s an utterance starts or
goes on after a cut (`BufferSince`, `CutOrNew`); while it does not, the last speech
was the end of an utterance or of a cut (`NothingOpen`). Of every chunk that is
lost it is kept between which chunks it was dropped, that the second is the end of
its utterance, and that nothing before the first is lost (`WasShort`). An utterance
that is over stays apart from all that is heard later (`EndsApart`), so this never
has to be said again of a longer one (`ShortStays`).

Second part, the agent client. `PiInv` has three parts. `Reach` is about which
processes can still be reached: the types, that a turn in progress is on a transport
that was started, which is the client's unless somebody closed the client
(`Attached`), that a transport never started is untouched (`Unstarted`), and that
one which failed an answer is no longer the client's or the worker's (`GivenUp`);
`FailedIsReplaced` is inductive with them. `Once` follows the tool call of a turn
from the prompt through the process, the queue and the worker's hands to the
answer: it is in one of these places at a time and there once (`InOnePlace`), so a
call in the queue cannot have been answered already, which gives `NoCallTwice`.
`Own` says of every process in reach that no turn has left before its end: what it
has been asked, works on or has queued is of the turn on it alone (`Clean`), and
behind the end of a turn there is nothing more of it (`EndIsLast`). Without the
second, the answer that ends at the first end in the queue would leave events to
the next turn. `Foremost` and `AtPosition` say what the search in the queue finds;
`TokenStays` and `StaysClean` are about the many steps that move no call, so that
few actions need an argument of their own.

Only model-checked: all liveness, which is out of the prover's reach (as is
ENABLED). Every invariant and every action property of a passing run is a theorem.

## 5. Where code and documents differ

One of the disagreements met while modelling is a run that ends in a
counterexample:

* `pi_own` (`AnswersItsOwnTurn`): a spoken stop with no turn under way, or a
  turn that is left by stop or timeout, leaves a wake-up or events in the queue
  of the agent's transport. The generation that should tell turns apart moves
  only when the process dies. The next request is answered with nothing or with
  an earlier request's motion, and from then on each answer is one behind.
  `OwnTurnUntilLeft` shows that without it the answers are right.

Others are stated in the modules and not run. To see one, give a copy of the
module's configuration the property alone:

| Property | Module | What the documents say | What the code does |
|---|---|---|---|
| `AckIsResolved` | G1Interface (in MCLocoChain) | `sport_api_ack_stuck_on_pending.md:62`: the watchdog times out a pending request | a response whose data does not decode has already left the pending table (`sport_api.py:77`): its acknowledgement stays `pending`, cannot expire, and refuses every loco until somebody stops |
| `IdleAgain` | TextOpGenerator | `textop_streaming_commands.md:48`: a stop ends in IDLE | a stop while a replacement's text is encoded leaves the old session behind, and the next goal fails in `session.begin` (`generator_node.py:282`) |
| `ReadyAgain` | TextOpGenerator | `textop_streaming_commands.md:48`: a stop ends in IDLE; `test_generator.py:12`: a canceled machine is READY | `begin`, `replace` and `accept` of the state machine assign the request, or look at the token, and then the state, outside the lock: a stop in between (`generator.py:43`, `:54`, `:60`) leaves it GENERATING or DRAINING for nobody; from then on every `begin` raises and every goal fails |
| `FailClosedOnRequestMismatch` | LowLevelGuard | `textop_streaming_commands.md:37`: fail-closed while request ids differ | after a renewal for another request the old candidate is published until it expires (`guard_core.cpp:167`) |
| `NoVelocityOutstanding` | G1Interface | `data_contracts.md:177`: no unconfirmed velocity request | the gate looks at the last acknowledgement only (`node.py:148`) |
| `OldCancelIsHarmless` | TextOpGenerator | `textop_streaming_commands.md:77` | a cancelled goal that was superseded but not yet woken cancels the current stream (`generator_node.py:211`) |
| `LeaseNamesReference` | TextOpGenerator | `textop_streaming_commands.md:75` | the renewal timer names the new request while its text is encoded (`generator_node.py:402`) |
| `StepsWithinLimit` | SafetyControl | `2026-07-05-safety-control-node.md:180`: no sudden change | a summary that left before a command replaces the command's velocity (`state.py:89`); `ClockSteps = 0` will do |
| `StopHasPriority` | SafetyControl | `data_contracts.md:180` | a loco asked for before a stop passes after it (`node.py:119`); needs `MaxLag = 1` |
| `WokenBeforeAsked` | VoiceBridge | `设计文档.md:246`: before waking, only wake and stop words | `mark_agent_done` tests the session in the agent thread, then sets the state; a reset between the two leaves the bridge awake without a wake word (`intent.py:94`) |
| `ResetIsAtomic` | TextOpTracker | `textop_backend.md:60`: a reset atomically clears the old request | a reset segment that does not validate leaves the old request's buffer and rewinds its frame: the motion under way starts again (`tracker_engine.py:46`) |
| `StopWaitsForNoServer` | VoiceBridge | `设计文档.md:552`: stop within 100 ms | a stop waits for the lock while the worker waits for the TextOp server (`node.py:525`) |

Met while modelling, and outside the models: Pi's filter for motion has no effect.
`2026-07-06-pi-agent-integration.md:778` drops all motion in an unsafe state;
`pi_agent.py:345` compares safety_control's `health_state` (ok, degraded,
unhealthy, `voice_bridge/node.py:308`) with the words emergency, estop, fault and
unsafe. SafetyControl refuses a loco while unhealthy, as modelled. The panel's
health stays "stale" once it was (`state.py:96` compares with a time that is then
kept), and a page that reconnects does not fetch again what it missed
(`ws.ts:26`); `QuietMeansCurrent` excludes that with `gap`. One error of the audio
socket ends the capture thread for good (`audio_capture.py:96`, `CaptureFails`).

`LocoOnFreshState` is stated for a clock that was not set back:
`data_contracts.md:174` asks for a monotonic clock in such a check, and
`state.py:164` uses the ROS clock. The Pi session id is not forgotten when the
process dies (`2026-07-06-pi-agent-integration.md:545` says it is), which only
costs a new session. On a replacement the documents disagree with each other:
`textop_backend.md:68` wants the tracker's last action cleared,
`textop_streaming_commands.md:74` wants it kept; the code keeps it, and
`PreviousActionIsLast` is stated that way.

## 6. Not modelled, and the plan

Not modelled: the neural models and their runtime (`textop_model/`, numerics),
the CRC of a frame, YAML configuration, stateless converters, the TypeScript
tools, message and launch files: they keep no state that the nodes share, and
what is left of them when the data is abstracted is nothing. Of g1_interface,
IMU, TTS, LED and audio pass-through, which decide nothing about motion. Of the
panel, the ASR text that the page may publish, and health.

Planned, in this order:

1. Proofs: `AckIsResolved` for payloads that decode.
2. **TextOpChain**: generator, tracker and guard over three topics with no order
   between them, under ControlAuthority.
3. SafetyControl in LocoChain instead of an open environment: a stop ends motion,
   a heartbeat lost ends motion, of the robot and not only of the interface.

The order was: the guard first, as the last thing before the motors; then the
two gates of the sport chain; then the concurrent programs; then their
composition with the robot, and the two ends of the voice chain. Where a new run
is wanted and there are enough of them already, a component's runs are merged.
