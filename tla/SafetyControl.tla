--------------------------- MODULE SafetyControl ---------------------------
(***************************************************************************)
(* safety_control: the only gate between the intents of voice_bridge and   *)
(* the robot.  SafetyControlNode (node.py) runs every callback in one      *)
(* thread, so each action below is a whole callback.  It decides from      *)
(*   - the last robot state summary, RobotStateTracker (state.py), which   *)
(*     also records the velocity of the commands the node itself let pass, *)
(*   - the token bucket of loco commands, RateLimiter (validator.py).      *)
(* Time is the ROS clock, which the node reads for every deadline and      *)
(* which its host may set back (ClockSteps).                               *)
(*                                                                         *)
(* What surrounds the node is external: g1_interface takes the commands    *)
(* that pass and stamps summaries that repeat its last command, and the    *)
(* two of them exchange messages over topics that keep the order of their  *)
(* own messages and no order between each other.                           *)
(***************************************************************************)
EXTENDS Integers, Sequences

CONSTANTS
    Axes,               \* vx, vy, vyaw
    Speeds,             \* values an intent asks for on an axis, 0 among them
    SpeedLimit,         \* motion_limits: largest absolute speed
    StepLimit,          \* motion_limits: rate_limit of an axis
    Durations,          \* durations an intent asks for, in ticks
    MaxDuration,        \* motion_limits: duration_sec.max
    Modes, LocoModes,   \* reported modes, and those with allow_loco
    Conditions,         \* what a summary may say: [mode, sound], sound when
                        \* temperature and battery are in bounds
    MaxLowstateAge,     \* health_thresholds: max_lowstate_age_ms
    CommandTimeout,     \* command_timeout_ms
    FutureSlack,        \* the 50 ms an intent may be ahead of the clock
    Burst,              \* tokens of the loco bucket
    TokenTicks,         \* ticks that buy one token: 1 / max_per_second
    ClockSteps,         \* how often the ROS clock may be set back
    MaxTime,            \* bound: last tick of the clock
    MaxLag,             \* bound: ticks an intent may be under way
    MaxInFlight,        \* bound: messages under way on a topic
    None                \* a value Python holds as None

(* SafetyControlConfig.validate, which the node does not start without, of  *)
(* the limits there are here: a range is not empty (an axis is bounded by   *)
(* SpeedLimit on both sides, a duration by 1 from below), a step limit, an  *)
(* age, a burst and a rate are positive.                                    *)
Accepted ==
    /\ SpeedLimit \in Nat \ {0} /\ StepLimit \in Nat \ {0}
    /\ MaxDuration \in Nat \ {0}
    /\ MaxLowstateAge \in Nat \ {0} /\ CommandTimeout \in Nat \ {0}
    /\ Burst \in Nat \ {0} /\ TokenTicks \in Nat \ {0}
    /\ LocoModes \subseteq Modes

ASSUME ConfigAssumption == Accepted
ASSUME IntentAssumption ==
    Speeds \subseteq Int /\ 0 \in Speeds /\ Durations \subseteq Nat
ASSUME ConditionAssumption ==
    Conditions \subseteq [mode : Modes \cup {None}, sound : BOOLEAN]
ASSUME BoundAssumption ==
    /\ FutureSlack \in Nat /\ ClockSteps \in Nat /\ MaxTime \in Nat \ {0}
    /\ MaxLag \in Nat /\ MaxInFlight \in Nat
ASSUME NoneAssumption == None \notin Int /\ None \notin Modes

Velocities == [Axes -> Speeds]
Still == [a \in Axes |-> 0]
Times == 0 .. MaxTime

VARIABLES
    clock,      \* the ROS clock
    setBack,    \* how often it has been set back
    elapsed,    \* ticks that really passed, which no clock step undoes
    robot,      \* RobotStateTracker: what the node knows of the robot
    bucket,     \* RateLimiter: tokens (in ticks) and the clock when they were
                \* counted; since is the elapsed time of that count (history)
    decision,   \* last_decision: None or [kind, allowed]
    loco, stop, \* /g1/safe_cmd/loco and /g1/safe_cmd/stop, under way
    commanded,  \* external: commanded_velocity of g1_interface
    reports,    \* /g1/state/low and /g1/state/mode, under way
    passed      \* history: the loco commands that passed, oldest first

clocks == <<clock, setBack, elapsed>>
vars == <<clock, setBack, elapsed, robot, bucket, decision, loco, stop,
          commanded, reports, passed>>

Report == [stamp : Times, sent : Nat, mode : Modes \cup {None},
           sound : BOOLEAN, velocity : Velocities]

Robot == [lowstate : Times \cup {None},   \* _last_lowstate_sec
          sent : Nat,                     \* when that summary really left
          mode : Modes \cup {None},
          sound : BOOLEAN,
          healthy : BOOLEAN,              \* _health_state = "ok"
          velocity : Velocities,
          until : 0 .. MaxTime + MaxDuration,  \* _command_until_sec
          own : {None} \cup Nat,          \* index in passed of the command it
                                          \* recorded, None after a report
          stopCreated : {None} \cup Int]  \* created_at of the last stop

Passed == [at : Nat, created : Int, velocity : Velocities,
           until : 0 .. MaxTime + MaxDuration]

TypeOK ==
    /\ clock \in Times /\ setBack \in 0 .. ClockSteps /\ elapsed \in Nat
    /\ robot \in Robot
    /\ bucket \in [tokens : 0 .. Burst * TokenTicks,
                   counted : Times \cup {None}, since : Nat]
    /\ decision \in {None} \cup [kind : {"loco", "action"}, allowed : BOOLEAN]
    /\ loco \in Seq(Velocities) /\ stop \in Nat
    /\ commanded \in Velocities
    /\ reports \in Seq(Report)
    /\ passed \in Seq(Passed)

Init ==
    /\ clock = 1 /\ setBack = 0 /\ elapsed = 0
    /\ robot = [lowstate |-> None, sent |-> 0, mode |-> None, sound |-> TRUE,
                healthy |-> FALSE, velocity |-> Still, until |-> 0,
                own |-> None, stopCreated |-> None]
    /\ bucket = [tokens |-> Burst * TokenTicks, counted |-> None, since |-> 0]
    /\ decision = None
    /\ loco = <<>> /\ stop = 0
    /\ commanded = Still
    /\ reports = <<>>
    /\ passed = <<>>

-----------------------------------------------------------------------------
(* RobotStateTracker.get_snapshot: the recorded velocity counts until the   *)
(* recorded command has run its time, and a summary's counts for ever.      *)
CurrentVelocity ==
    IF robot.until > 0 /\ clock >= robot.until THEN Still ELSE robot.velocity

(* _lowstate_age_ms, which is negative for a stamp ahead of the clock.      *)
LowstateFresh ==
    robot.lowstate # None /\ clock - robot.lowstate <= MaxLowstateAge

(* _check_robot_state and _check_mode, strict_mode on.                      *)
RobotReady ==
    /\ LowstateFresh
    /\ robot.healthy
    /\ robot.sound
    /\ robot.mode \in LocoModes

(* _check_command_freshness, strict_mode on.                                *)
IntentFresh(created) ==
    created # None /\ clock - created \in -FutureSlack .. CommandTimeout

(* _check_motion_limits.                                                    *)
WithinLimits(v, d) ==
    /\ \A a \in Axes : v[a] \in -SpeedLimit .. SpeedLimit
    /\ d \in 1 .. MaxDuration

Near(u, v) == \A a \in Axes : u[a] - v[a] \in -StepLimit .. StepLimit

(* SafetyValidator.validate_loco.                                           *)
LocoValid(created, v, d) ==
    /\ RobotReady
    /\ IntentFresh(created)
    /\ WithinLimits(v, d)
    /\ Near(v, CurrentVelocity)

Least(a, b) == IF a < b THEN a ELSE b
Greatest(a, b) == IF a > b THEN a ELSE b

(* RateLimiter.allow, up to its test: the tokens there are at this call.    *)
Refilled ==
    IF bucket.counted = None THEN bucket.tokens
    ELSE Least(Burst * TokenTicks,
               bucket.tokens + Greatest(0, clock - bucket.counted))

Spent == Refilled - TokenTicks
HasToken == Refilled >= TokenTicks

(* What the runs must notice: a refusal that keeps the refill it was shown  *)
(* and leaves it to be counted again.                                       *)
CountedWhenPassed ==
    [tokens |-> IF HasToken THEN Spent ELSE Refilled,
     counted |-> IF HasToken THEN clock ELSE bucket.counted,
     since |-> elapsed]

(* ... and the bucket after it, a token taken when there is one.            *)
BucketAfter ==
    [tokens |-> IF HasToken THEN Spent ELSE Refilled,
     counted |-> clock, since |-> elapsed]

(* What the runs must notice: a command recorded without its time.          *)
RecordWithoutTime(v, d) ==
    [robot EXCEPT !.velocity = v, !.own = Len(passed) + 1]

(* RobotStateTracker.record_loco_command and record_stop.                   *)
RecordLoco(v, d) ==
    [robot EXCEPT !.velocity = v, !.until = clock + d, !.own = Len(passed) + 1]
RecordStop(created) ==
    [robot EXCEPT !.velocity = Still, !.until = clock, !.own = None,
                  !.stopCreated = created]

(* _record_and_publish_decision; what it publishes repeats what it records. *)
Decide(kind, allowed) == decision' = [kind |-> kind, allowed |-> allowed]

-----------------------------------------------------------------------------
(* on_loco_intent.  A malformed intent (an empty command_id, a value that   *)
(* is not finite) and one that fails a check are rejected before the bucket *)
(* is asked; only the bucket's own refusal changes the bucket.              *)
PassLoco(created, v, d) ==
    /\ LocoValid(created, v, d)
    /\ HasToken
    /\ Len(loco) < MaxInFlight
    /\ bucket' = BucketAfter
    /\ Decide("loco", TRUE)
    /\ loco' = Append(loco, v)
    /\ robot' = RecordLoco(v, d)
    /\ passed' = Append(passed, [at |-> elapsed, created |-> created,
                                 velocity |-> v, until |-> clock + d])
    /\ UNCHANGED <<clock, setBack, elapsed, stop, commanded, reports>>

LimitLoco(created, v, d) ==
    /\ LocoValid(created, v, d)
    /\ ~HasToken
    /\ bucket' = BucketAfter
    /\ Decide("loco", FALSE)
    /\ UNCHANGED <<clock, setBack, elapsed, robot, loco, stop, commanded,
                   reports, passed>>

RejectLoco(created, v, d, wellFormed) ==
    /\ ~(wellFormed /\ LocoValid(created, v, d))
    /\ Decide("loco", FALSE)
    /\ UNCHANGED <<clock, setBack, elapsed, robot, bucket, loco, stop,
                   commanded, reports, passed>>

(* on_action_intent: stop and cancel pass whatever the robot's state, every *)
(* other action and a malformed one are rejected.                           *)
PassStop(created) ==
    /\ stop < MaxInFlight
    /\ Decide("action", TRUE)
    /\ stop' = stop + 1
    /\ robot' = RecordStop(created)
    /\ UNCHANGED <<clock, setBack, elapsed, bucket, loco, commanded, reports,
                   passed>>

RejectAction ==
    /\ Decide("action", FALSE)
    /\ UNCHANGED <<clock, setBack, elapsed, robot, bucket, loco, stop,
                   commanded, reports, passed>>

(* What the runs must notice: a summary dated by its arrival.               *)
HeardOnArrival(r) ==
    [robot EXCEPT !.lowstate = clock, !.sent = r.sent,
                  !.mode = IF r.mode = None THEN @ ELSE r.mode,
                  !.sound = r.sound, !.velocity = r.velocity,
                  !.until = 0, !.own = None]

(* update_from_summary, for both summary topics.                            *)
Heard(r) ==
    [robot EXCEPT !.lowstate = r.stamp, !.sent = r.sent,
                  !.mode = IF r.mode = None THEN @ ELSE r.mode,
                  !.sound = r.sound, !.velocity = r.velocity,
                  !.until = 0, !.own = None]

HearReport ==
    /\ reports # <<>>
    /\ robot' = Heard(Head(reports))
    /\ reports' = Tail(reports)
    /\ UNCHANGED <<clock, setBack, elapsed, bucket, decision, loco, stop,
                   commanded, passed>>

(* update_from_health: the worst of a level and of what it spells out.      *)
HearHealth(ok) ==
    /\ robot' = [robot EXCEPT !.healthy = ok]
    /\ UNCHANGED <<clock, setBack, elapsed, bucket, decision, loco, stop,
                   commanded, reports, passed>>

-----------------------------------------------------------------------------
(* External: g1_interface obeys a command, zeroes the velocity by its own   *)
(* watchdog, and answers a lowstate with a summary of its last command.     *)
InterfaceMoves ==
    /\ loco # <<>>
    /\ commanded' = Head(loco)
    /\ loco' = Tail(loco)
    /\ UNCHANGED <<clock, setBack, elapsed, robot, bucket, decision, stop,
                   reports, passed>>

InterfaceStops ==
    /\ commanded' = Still
    /\ stop' = Greatest(0, stop - 1)
    /\ UNCHANGED <<clock, setBack, elapsed, robot, bucket, decision, loco,
                   reports, passed>>

InterfaceReports(c) ==
    /\ Len(reports) < MaxInFlight
    /\ reports' = Append(reports, [stamp |-> clock, sent |-> elapsed,
                                   mode |-> c.mode, sound |-> c.sound,
                                   velocity |-> commanded])
    /\ UNCHANGED <<clock, setBack, elapsed, robot, bucket, decision, loco,
                   stop, commanded, passed>>

Tick ==
    /\ clock < MaxTime /\ elapsed < MaxTime
    /\ clock' = clock + 1
    /\ elapsed' = elapsed + 1
    /\ UNCHANGED <<setBack, robot, bucket, decision, loco, stop, commanded,
                   reports, passed>>

(* External: the host corrects its clock, to any earlier time.              *)
SetClockBack ==
    /\ setBack < ClockSteps
    /\ clock' \in 1 .. clock - 1
    /\ setBack' = setBack + 1
    /\ UNCHANGED <<elapsed, robot, bucket, decision, loco, stop, commanded,
                   reports, passed>>

-----------------------------------------------------------------------------
Stamps == {None} \cup (clock - MaxLag .. clock + FutureSlack)

Next ==
    \/ \E created \in Stamps, v \in Velocities, d \in Durations :
          \/ PassLoco(created, v, d)
          \/ LimitLoco(created, v, d)
          \/ \E wellFormed \in BOOLEAN : RejectLoco(created, v, d, wellFormed)
    \/ \E created \in Stamps \ {None} : PassStop(created)
    \/ RejectAction
    \/ HearReport
    \/ \E ok \in BOOLEAN : HearHealth(ok)
    \/ InterfaceMoves
    \/ InterfaceStops
    \/ \E c \in Conditions : InterfaceReports(c)
    \/ Tick
    \/ SetClockBack

Spec == Init /\ [][Next]_vars

-----------------------------------------------------------------------------
(* RateLimiter keeps its promise over every window, not only since the last *)
(* refill: however the allowed and refused calls interleave, the commands   *)
(* that pass between two of them number at most the burst and what the time *)
(* really passed between them buys, also when the clock the bucket reads is *)
(* set back in between (rate_limits.loco, RateLimiter.allow).               *)
RateBounded ==
    \A i, j \in DOMAIN passed : i <= j =>
        (j - i + 1) * TokenTicks <= Burst * TokenTicks + passed[j].at - passed[i].at

(* As long as the clock has not been set back, a command passes only while  *)
(* a summary that left g1_interface at most MaxLowstateAge ticks ago is the *)
(* last word on the robot: one that was long under way does not count as    *)
(* news when it arrives (update_from_summary keeps the producer's stamp).   *)
(* The age is the ROS clock's, so a clock that is set back rejuvenates.     *)
LocoOnFreshState ==
    [][passed' # passed /\ setBack = 0 =>
          elapsed - robot.sent <= MaxLowstateAge]_vars

(* While the node's last recorded command runs and nothing else was heard,  *)
(* the next command that passes is within the step limit of it: a refused   *)
(* command in between, or one that is still under way, does not blur what   *)
(* the robot was last told (record_loco_command, get_snapshot).             *)
StepsFromLastCommand ==
    [][passed' # passed /\ robot.own # None =>
          /\ robot.own = Len(passed)
          /\ clock < passed[Len(passed)].until =>
                Near(passed'[Len(passed')].velocity,
                     passed[Len(passed)].velocity)]_vars

(* Every step between two commands that pass, the first still running, is   *)
(* within the limit: what the continuity check is there for.  The code      *)
(* compares with a summary as soon as one arrives, and that one may have    *)
(* left before the command.                                                 *)
StepsWithinLimit ==
    [][passed' # passed /\ passed # <<>> /\ clock < passed[Len(passed)].until
          => Near(passed'[Len(passed')].velocity,
                  passed[Len(passed)].velocity)]_vars

(* Stop has priority: after a stop passed, no loco command that was asked   *)
(* for before it passes (stop and loco come over two topics, and the node   *)
(* keeps nothing of a stop that a later check would ask for).               *)
StopHasPriority ==
    [][passed' # passed /\ robot.stopCreated # None =>
          passed'[Len(passed')].created >= robot.stopCreated]_vars
=============================================================================
