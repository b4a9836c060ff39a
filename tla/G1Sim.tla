-------------------------------- MODULE G1Sim --------------------------------
(***************************************************************************)
(* The simulator that stands in for the robot (g1_sim/model.py, node.py):  *)
(* five request/response services, the microphone input, and timers that   *)
(* publish the state.  The node spins in one thread, an action is a        *)
(* callback.  Each request is answered in the callback that takes it; one  *)
(* whose parameters do not convert is answered with code 1, whatever it    *)
(* had changed before it raised.  Time is ticks of the ROS clock, which    *)
(* may be set back.  The requests that only read, echo their parameters or *)
(* are unknown to a service are one action, Read, and of what the requests *)
(* of a service set there is one setting.  What no callback reads is left  *)
(* out: last_*_request, the stamps of lowcmd, arm_sdk and dex3 commands,   *)
(* playback_history, asr_index.                                            *)
(***************************************************************************)
EXTENDS SimMotion, FiniteSets

CONSTANTS
    Durations,    \* durations of velocity commands
    MaxLag,       \* bound: ticks between two timers that integrate
    MaxSetBack,   \* bound: how often the ROS clock is set back, by one tick
    Values,       \* values of the settings
    Apps,         \* applications that play audio
    Streams       \* their streams

ASSUME SimAssumption ==
    /\ Durations \subseteq Int /\ MaxLag \in Nat /\ MaxSetBack \in 0 .. MaxLag
    /\ Values # {} /\ None \notin Streams

VARIABLES
    motion,      \* velocity, command_until_sec, last_update_sec: see SimMotion
    setBack,     \* how often the clock was set back
    setting,     \* fsm_id, swing_height..., volume, agv_height, silent...
    owner,       \* control_owner
    playing,     \* active_playback
    playState,   \* the last play_state message, None before the first
    reply,       \* the code of the last response
    movedFor,    \* history: how long it moved since the last accepted velocity
    allowed      \* history: how long that command and the clock allow it to

vars == <<motion, setBack, setting, owner, playing, playState, reply,
          movedFor, allowed>>

\* The services that set something; the arm's only echoes.
Services == {"sport", "voice", "agv", "motion_switcher"}

\* What the next integrate() adds.
Adds == IF HasVelocity(motion) THEN MovedFor(motion) ELSE 0

Init ==
    /\ motion = Standing
    /\ setBack = 0
    /\ setting \in [Services -> Values]
    /\ owner = "internal"
    /\ playing = [a \in Apps |-> None]
    /\ playState = None
    /\ reply = 0
    /\ movedFor = 0 /\ allowed = 0

TypeOK ==
    /\ motion \in Motion
    /\ setBack \in 0 .. MaxSetBack
    /\ setting \in [Services -> Values]
    /\ owner \in {"internal", "user"}
    /\ playing \in [Apps -> Streams \cup {None}]
    /\ playState \in {0, 1, None}
    /\ reply \in {0, 1}
    /\ movedFor \in Nat /\ allowed \in Nat

\* _build_response: the answer to a request carries the code.
Answer(code) == reply' = code

Rest == <<setBack, setting, owner, playing, playState>>

-----------------------------------------------------------------------------
(* Velocity: sport's set_velocity and agv's move.                          *)

Velocity(vx, turn, duration) ==
    /\ motion' = SetVelocity(motion, vx, turn, duration)
    /\ Answer(0)
    /\ movedFor' = 0
    /\ allowed' = IF duration > 0 THEN duration ELSE 0
    /\ UNCHANGED Rest

\* mutant: the end of the command is moved before the velocity converts
VelocityRejectedLate(vx, turn) ==
    /\ \E duration \in Durations, m \in FailsBetween(motion, vx, turn) :
           motion' = [m EXCEPT !.left = duration]
    /\ Answer(1)
    /\ movedFor' = movedFor + Adds
    /\ UNCHANGED <<allowed, Rest>>

\* Rejected with code 1, and integrated.  What was assigned before the rest
\* raised stays, for what is left of the earlier command.
VelocityRejected(vx, turn) ==
    /\ motion' \in {FailsBefore(motion)} \cup FailsBetween(motion, vx, turn)
    /\ Answer(1)
    /\ movedFor' = movedFor + Adds
    /\ UNCHANGED <<allowed, Rest>>

-----------------------------------------------------------------------------
(* The other requests.                                                     *)

Quiet == UNCHANGED <<motion, setBack, movedFor, allowed>>

\* get_*, tts, set_rgb_led, check_mode, the arm service...: nothing changes
\* that is read later.  Unknown ids and parameters that are no object get 1.
Read ==
    /\ \E code \in {0, 1} : Answer(code)
    /\ Quiet /\ UNCHANGED <<setting, owner, playing, playState>>

\* One assignment, from a value that was converted before it.
Set(service) ==
    /\ \E v \in Values : setting' = [setting EXCEPT ![service] = v]
    /\ Answer(0)
    /\ Quiet /\ UNCHANGED <<owner, playing, playState>>

SwitchOwner ==
    /\ \/ owner' = "user" /\ Answer(0)
       \/ owner' = "internal" /\ \E code \in {0, 1} : Answer(code)   \* int(data) may raise
    /\ Quiet /\ UNCHANGED <<setting, playing, playState>>

\* on_voice_request, after its answer: a start is announced, and a stop if it
\* stopped something.  A request that raised or is unknown announces nothing.
Announce(now, changed) == playState' = IF changed THEN now ELSE playState

\* A second stream of an application replaces the first.
StartPlay(app, stream) ==
    /\ playing' = [playing EXCEPT ![app] = stream]
    /\ Announce(1, TRUE)
    /\ Answer(0)
    /\ Quiet /\ UNCHANGED <<setting, owner>>

\* mutant: a stop is not announced
StopPlaySilent(app) ==
    /\ playing' = [playing EXCEPT ![app] = None]
    /\ Answer(0)
    /\ Quiet /\ UNCHANGED <<setting, owner, playState>>

StopPlay(app) ==
    /\ playing' = [playing EXCEPT ![app] = None]
    /\ Announce(0, playing[app] # None)
    /\ Answer(0)
    /\ Quiet /\ UNCHANGED <<setting, owner>>

-----------------------------------------------------------------------------
(* The services: which requests each of them takes.                        *)

SportRequest ==
    \/ \E vx, turn \in Speeds, d \in Durations : Velocity(vx, turn, d)
    \/ \E vx, turn \in Speeds : VelocityRejected(vx, turn)
    \/ Set("sport") \/ SwitchOwner \/ Read

ArmRequest == Read

VoiceRequest ==
    \/ \E app \in Apps, stream \in Streams : StartPlay(app, stream)
    \/ \E app \in Apps : StopPlay(app)
    \/ Set("voice") \/ Read

\* Its velocity is converted before the state is touched.
AgvRequest ==
    \/ \E vx, turn \in Speeds, d \in Durations : Velocity(vx, turn, d)
    \/ Set("agv") \/ Read

MotionSwitcherRequest == Set("motion_switcher") \/ Read

-----------------------------------------------------------------------------
(* Timers and time.                                                        *)

\* publish_lowstate, publish_lowstate_low_freq, publish_imu, publish_odometry.
Publish ==
    /\ motion' = Integrate(motion)
    /\ movedFor' = movedFor + Adds
    /\ UNCHANGED <<allowed, reply, Rest>>

Tick ==
    /\ motion.since # None => motion.since < MaxLag
    /\ motion' = Passes(motion, 1, -MaxLag)
    /\ UNCHANGED <<movedFor, allowed, reply, Rest>>

\* The clock of the host is set back by a tick: the command lasts a tick longer.
SetBack ==
    /\ setBack < MaxSetBack
    /\ setBack' = setBack + 1
    /\ motion' = Passes(motion, -1, -MaxLag)
    /\ allowed' = allowed + 1
    /\ UNCHANGED <<movedFor, reply, setting, owner, playing, playState>>

Next ==
    \/ SportRequest \/ ArmRequest \/ VoiceRequest \/ AgvRequest
    \/ MotionSwitcherRequest
    \/ Publish \/ Tick \/ SetBack

Spec == Init /\ [][Next]_vars

-----------------------------------------------------------------------------
(* Properties.                                                             *)

\* However timers, requests and rejected requests interleave, the robot moves no
\* longer than the last accepted command says, but for what a clock that is set
\* back adds (integrate's cut at command_until_sec, last_update_sec).
MovesOnlyInItsTime == movedFor <= allowed

\* The listener of play_state is not left with "playing" when nothing plays: the
\* stop that stopped the last stream says so.  (The reverse does not hold: the
\* stop of one application says "stopped" while another plays.)
PlayingIsTrue == playState = 1 => \E app \in Apps : playing[app] # None
=============================================================================
