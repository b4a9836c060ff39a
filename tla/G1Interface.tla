---------------------------- MODULE G1Interface ----------------------------
(***************************************************************************)
(* g1_interface with the official_loco backend: the node that turns        *)
(* validated motion commands into Sport API requests, follows their        *)
(* acknowledgements, watches the robot, the safety node and the deadline   *)
(* of the running motion, and reports its health.                          *)
(*                                                                         *)
(* The node spins in one thread, so a callback is an action.  The robot    *)
(* and the network are the environment: a response may be lost, late,      *)
(* duplicated, reordered, unsolicited or unreadable.                       *)
(*                                                                         *)
(* A tick is one watchdog period of the monotonic clock.  Every deadline   *)
(* of the code compares now with a stored time, so the model keeps ages    *)
(* that stop growing one tick past the limit they are compared with, and   *)
(* "never received" is the same as "too old".                              *)
(***************************************************************************)
EXTENDS Integers, FiniteSets

CONSTANTS
  StateTimeout,      \* state_timeout_ms
  SafetyTimeout,     \* safety_heartbeat_timeout_ms
  ModeTimeout,       \* mode_freshness_timeout_ms
  ResponseTimeout,   \* api_response_timeout_ms
  UnhealthyCount,    \* api_unhealthy_timeout_count
  MaxQueued,         \* pending_count at which mode queries pause (8)
  MaxDuration,       \* longest duration of a loco command (2.0 s)
  Queries,           \* the state queries among the configured api_ids
  Payloads,          \* the response payloads the robot sends
  Ids,               \* bound: how many request ids can be in use at a time
  None               \* Python's None

(* The fields that a command touches, in one record:                        *)
(*   ack      last_command_ack: the last velocity request and its fate      *)
(*   motion   active_motion_sequence_id and the time to its deadline        *)
(*   pending  the requests SportApiClient waits for                         *)
(*   timeouts consecutive_api_timeouts, up to UnhealthyCount                *)
(* commanded_velocity is not zero exactly while motion is set.              *)
Ack == [id: Ids, state: {"pending", "acknowledged", "rejected", "timed_out"},
        kind: {"motion", "stop"}, age: 0..(ResponseTimeout + 1)]
Motion  == [id: Ids, left: 0..MaxDuration]
Request == [id: Ids, action: Queries \cup {"set_velocity"}, age: 0..(ResponseTimeout + 1)]
Command ==
  [ack: Ack \cup {None}, motion: Motion \cup {None},
   pending: SUBSET Request, timeouts: 0..UnhealthyCount]

(* G1InterfaceConfig.validate, of the times and the count there are here.   *)
(* A time is positive, and is counted in whole ticks: one that is shorter   *)
(* than a tick is over at the next one.                                     *)
Accepted ==
  /\ StateTimeout \in Nat /\ SafetyTimeout \in Nat /\ ModeTimeout \in Nat
  /\ ResponseTimeout \in Nat /\ UnhealthyCount \in Nat \ {0}

ASSUME ConfigAssumption == Accepted
ASSUME InterfaceAssumption ==
  /\ MaxQueued \in Nat /\ MaxDuration \in Nat \ {0}
  /\ Queries \subseteq {"get_fsm_mode", "get_fsm_id"}
  /\ Payloads \subseteq {"data", "empty", "notInteger", "malformed"}
  /\ None \notin Ack /\ None \notin Motion

VARIABLES
  running,      \* the process is up
  due,          \* the watchdog timer of this tick has not run yet
  lowstateAge,  \* since last_lowstate_monotonic_sec
  safetyAge,    \* since last_safety_heartbeat_monotonic_sec
  modeAge,      \* since last_successful_mode_query_monotonic_sec
  mode,         \* mode, and with it control_owner
  apiFailed,    \* last_api_result is a matched response with code # 0
  cmd           \* the command being followed, see Command

vars == <<running, due, lowstateAge, safetyAge, modeAge, mode, apiFailed, cmd>>

----------------------------------------------------------------------------
Older(age, limit) == IF age > limit THEN age ELSE age + 1

LowstateFresh == lowstateAge <= StateTimeout
SafetyFresh   == safetyAge <= SafetyTimeout
ModeFresh     == modeAge <= ModeTimeout

AckState(c) == IF c.ack = None THEN "none" ELSE c.ack.state

Unresolved(c) == AckState(c) \in {"pending", "rejected", "timed_out"}

\* Request ids grow with every request, so a new one is none of those in use.
Used(c) == {r.id : r \in c.pending} \cup (IF c.ack = None THEN {} ELSE {c.ack.id})
Free(c) == Ids \ Used(c)
FreshId(c) == CHOOSE id \in Free(c) : TRUE

\* SportApiClient.build_request
Build(c, action) ==
  [c EXCEPT !.pending = @ \cup {[id |-> FreshId(c), action |-> action, age |-> 0]}]

\* _publish_velocity_command: a new request replaces the ack that is followed.
PublishVelocity(c, kind, duration) ==
  LET id == FreshId(c)
  IN  [Build(c, "set_velocity") EXCEPT
         !.ack = [id |-> id, state |-> "pending", kind |-> kind, age |-> 0],
         !.motion = IF kind = "motion" THEN [id |-> id, left |-> duration] ELSE None]

StopPending(c) == AckState(c) = "pending" /\ c.ack.kind = "stop"

\* _publish_stop_request without force
PublishStop(c) == IF StopPending(c) THEN c ELSE PublishVelocity(c, "stop", 0)

Expired(c) == {r \in c.pending : r.age > ResponseTimeout}

AckExpires(c) ==
  /\ AckState(c) = "pending"
  /\ c.ack.id \in {r.id : r \in Expired(c)}

CountTimeouts(c) ==
  IF c.timeouts + Cardinality(Expired(c)) > UnhealthyCount
  THEN UnhealthyCount
  ELSE c.timeouts + Cardinality(Expired(c))

\* Requests leave the pending table; the followed velocity request meets its fate.
Forget(c, requests, count) == [c EXCEPT !.pending = @ \ requests, !.timeouts = count]
Resolve(c, fate) == [c EXCEPT !.ack = [@ EXCEPT !.state = fate, !.age = 0]]

\* _expire_api_requests
Expire(c) ==
  LET forgotten == Forget(c, Expired(c), CountTimeouts(c))
      timedOut == Resolve(forgotten, "timed_out")
  IN  IF ~AckExpires(c) THEN forgotten
      ELSE IF c.ack.kind = "motion" /\ c.motion # None /\ c.motion.id = c.ack.id
      THEN PublishStop(timedOut)
      ELSE timedOut

\* Fault: the deadline of the motion is not watched.
WatchdogIgnoresDeadline(c) == ~LowstateFresh \/ ~SafetyFresh

\* The three reasons for which the watchdog ends a running motion.
WatchdogFires(c) == ~LowstateFresh \/ ~SafetyFresh \/ c.motion.left = 0

\* check_sport_command_allowed
LocoAllowed ==
  /\ LowstateFresh
  /\ SafetyFresh
  /\ ModeFresh
  /\ ~Unresolved(cmd)
  /\ mode = "sport_api_loco"

\* Fault: the state of the last command does not count.
HealthIgnoresAck ==
  IF ~LowstateFresh \/ cmd.timeouts >= UnhealthyCount THEN "unhealthy"
  ELSE IF ~ModeFresh \/ ~SafetyFresh \/ cmd.timeouts > 0 \/ apiFailed THEN "degraded"
  ELSE "ok"

\* build_health_status
Health ==
  IF ~LowstateFresh \/ cmd.timeouts >= UnhealthyCount THEN "unhealthy"
  ELSE IF \/ ~ModeFresh \/ ~SafetyFresh
          \/ cmd.timeouts > 0 \/ Unresolved(cmd) \/ apiFailed
  THEN "degraded"
  ELSE "ok"

----------------------------------------------------------------------------
Init ==
  /\ running = TRUE
  /\ due = FALSE
  /\ lowstateAge = StateTimeout + 1
  /\ safetyAge = SafetyTimeout + 1
  /\ modeAge = ModeTimeout + 1
  /\ mode = None
  /\ apiFailed = FALSE
  /\ cmd = [ack |-> None, motion |-> None, pending |-> {}, timeouts |-> 0]

OnLowstate ==
  /\ running
  /\ lowstateAge' = 0
  /\ UNCHANGED <<running, due, safetyAge, modeAge, mode, apiFailed, cmd>>

OnSafetyState ==
  /\ running
  /\ safetyAge' = 0
  /\ UNCHANGED <<running, due, lowstateAge, modeAge, mode, apiFailed, cmd>>

\* _bounded(duration, 0.01, 2.0)
DurationValid(d) == d >= 1 /\ d <= MaxDuration

\* A loco whose three velocities are zero is sent as a stop.
OnSafeLoco(kind, duration) ==
  /\ running
  /\ LocoAllowed
  /\ DurationValid(duration)
  /\ \E i, j \in Free(cmd) : i # j
  /\ cmd' = PublishVelocity(cmd, kind, duration)
  /\ UNCHANGED <<running, due, lowstateAge, safetyAge, modeAge, mode, apiFailed>>

\* No gate: a stop or cancel is sent whatever the state, also over another stop.
OnSafeStop ==
  /\ running
  /\ \E i, j \in Free(cmd) : i # j
  /\ cmd' = PublishVelocity(cmd, "stop", 0)
  /\ UNCHANGED <<running, due, lowstateAge, safetyAge, modeAge, mode, apiFailed>>

QuerySportMode ==
  /\ running
  /\ Cardinality(cmd.pending) < MaxQueued
  /\ \E i, j, k \in Free(cmd) : i # j /\ j # k /\ i # k
  /\ LET asked == IF "get_fsm_mode" \in Queries THEN Build(cmd, "get_fsm_mode") ELSE cmd
     IN  cmd' = IF "get_fsm_id" \in Queries THEN Build(asked, "get_fsm_id") ELSE asked
  /\ UNCHANGED <<running, due, lowstateAge, safetyAge, modeAge, mode, apiFailed>>

\* A response that belongs to no request: decoded, remembered, otherwise ignored.
OnUnmatchedResponse ==
  /\ running
  /\ Payloads # {"malformed"}
  /\ apiFailed' = FALSE
  /\ UNCHANGED <<running, due, lowstateAge, safetyAge, modeAge, mode, cmd>>

\* record_response forgets the request before it decodes the payload; a payload
\* that is not a JSON object then ends the callback.
OnMalformedResponse(r) ==
  /\ running
  /\ "malformed" \in Payloads
  /\ cmd' = Forget(cmd, {r}, cmd.timeouts)
  /\ UNCHANGED <<running, due, lowstateAge, safetyAge, modeAge, mode, apiFailed>>

Fate(code) == IF code = 0 THEN "acknowledged" ELSE "rejected"

\* Fault: a rejected motion is left running.
RejectionIgnored(c, r, code) ==
  LET done == Forget(c, {r}, 0)
  IN  IF c.ack = None \/ c.ack.id # r.id THEN done
      ELSE Resolve(done, Fate(code))

\* _update_command_ack_from_response for a matched response
Answered(c, r, code) ==
  LET done == Forget(c, {r}, 0)
      resolved == Resolve(done, Fate(code))
  IN  IF c.ack = None \/ c.ack.id # r.id THEN done
      ELSE IF code # 0 /\ c.ack.kind = "motion" THEN PublishStop(resolved)
      ELSE resolved

\* int(data) of a state query raises outside the try block: spin ends, and the
\* finally clause of main sends a last stop.
Crashes(r, code, payload) ==
  r.action \in {"get_fsm_mode", "get_fsm_id"} /\ code = 0 /\ payload = "notInteger"

ModeAnswered(r, code, payload) ==
  r.action = "get_fsm_mode" /\ code = 0 /\ payload = "data"

OnSportResponse(r, code, payload) ==
  LET answered == Answered(cmd, r, code)
  IN  /\ running
      /\ apiFailed' = (code # 0)
      /\ running' = ~Crashes(r, code, payload)
      /\ cmd' = IF Crashes(r, code, payload)
                THEN PublishVelocity(answered, "stop", 0)
                ELSE answered
      /\ IF ModeAnswered(r, code, payload)
         THEN mode' = "sport_api_loco" /\ modeAge' = 0
         ELSE UNCHANGED <<mode, modeAge>>
      /\ UNCHANGED <<due, lowstateAge, safetyAge>>

WatchdogTick ==
  /\ running
  /\ due
  /\ due' = FALSE
  /\ LET c == Expire(cmd)
     IN  cmd' = IF c.motion # None /\ WatchdogFires(c) THEN PublishStop(c) ELSE c
  /\ UNCHANGED <<running, lowstateAge, safetyAge, modeAge, mode, apiFailed>>

\* publish_health expires requests before it reports.
PublishHealth ==
  /\ running
  /\ cmd' = Expire(cmd)
  /\ UNCHANGED <<running, due, lowstateAge, safetyAge, modeAge, mode, apiFailed>>

\* shutdown, once: the stop is sent even over a pending one.
Shutdown ==
  /\ running
  /\ Free(cmd) # {}
  /\ running' = FALSE
  /\ cmd' = PublishVelocity(cmd, "stop", 0)
  /\ UNCHANGED <<due, lowstateAge, safetyAge, modeAge, mode, apiFailed>>

\* A command one tick later.
Aged(c) ==
  [ack |-> IF c.ack = None THEN None
           ELSE [c.ack EXCEPT !.age = Older(@, ResponseTimeout)],
   motion |-> IF c.motion = None THEN None
              ELSE [c.motion EXCEPT !.left = IF @ = 0 THEN 0 ELSE @ - 1],
   pending |-> {[r EXCEPT !.age = Older(@, ResponseTimeout)] : r \in c.pending},
   timeouts |-> c.timeouts]

\* A tick passes; the executor runs the watchdog in every tick.
Tick ==
  /\ running
  /\ ~due
  /\ due' = TRUE
  /\ lowstateAge' = Older(lowstateAge, StateTimeout)
  /\ safetyAge' = Older(safetyAge, SafetyTimeout)
  /\ modeAge' = Older(modeAge, ModeTimeout)
  /\ cmd' = Aged(cmd)
  /\ UNCHANGED <<running, mode, apiFailed>>

\* What the executor calls: the subscriptions, the timers and the shutdown.
Callback ==
  \/ OnLowstate
  \/ OnSafetyState
  \/ \E kind \in {"motion", "stop"}, d \in 0..(MaxDuration + 1) : OnSafeLoco(kind, d)
  \/ OnSafeStop
  \/ QuerySportMode
  \/ OnUnmatchedResponse
  \/ \E r \in cmd.pending : OnMalformedResponse(r)
  \/ \E r \in cmd.pending, code \in {0, 1}, p \in Payloads \ {"malformed"} :
       OnSportResponse(r, code, p)
  \/ WatchdogTick
  \/ PublishHealth
  \/ Shutdown

Next == Callback \/ Tick

Spec == Init /\ [][Next]_vars

----------------------------------------------------------------------------
\* Every variable has its type; the longest motion lasts MaxDuration.
TypeOK ==
  /\ running \in BOOLEAN /\ due \in BOOLEAN /\ apiFailed \in BOOLEAN
  /\ lowstateAge \in 0..(StateTimeout + 1)
  /\ safetyAge \in 0..(SafetyTimeout + 1)
  /\ modeAge \in 0..(ModeTimeout + 1)
  /\ mode \in {"sport_api_loco", None}
  /\ cmd \in Command

(* The running motion is always the last command that was sent, and neither *)
(* rejected nor timed out: whichever callback learns that a motion failed   *)
(* has ended it in the same step (_expire_api_requests from the watchdog or *)
(* the health timer, _update_command_ack_from_response).                    *)
MotionIsLastCommand ==
  cmd.motion # None =>
    /\ cmd.ack # None
    /\ cmd.ack.id = cmd.motion.id
    /\ cmd.ack.kind = "motion"
    /\ cmd.ack.state \in {"pending", "acknowledged"}

(* Once the watchdog of a tick has run, a motion is active only while the   *)
(* joint reports and the safety heartbeat are fresh, its deadline is ahead  *)
(* and the process is up: loss of the robot, of the safety node, of the     *)
(* process or of the next command each end it within one period, also when  *)
(* another stop is being awaited (watchdog_tick, _publish_stop_request).    *)
MotionSupervised ==
  cmd.motion # None =>
    /\ running
    /\ ~due => LowstateFresh /\ SafetyFresh /\ cmd.motion.left > 0

(* docs/sport_api_ack_stuck_on_pending.md, step 8: the watchdog times out   *)
(* the pending request after the response timeout, so an acknowledgement    *)
(* is never awaited longer.                                                 *)
AckIsResolved ==
  running /\ ~due /\ AckState(cmd) = "pending" => cmd.ack.age <= ResponseTimeout

(* Two independent functions decide the same thing for two nodes: whenever  *)
(* build_health_status tells safety_control that all is well, the gate of   *)
(* on_safe_loco is open, so a command safety_control validated against a    *)
(* fresh report is not refused here.                                        *)
HealthyMeansAllowed == Health = "ok" => LocoAllowed

(* docs/data_contracts.md: a loco command requires that no velocity request *)
(* is unacknowledged.                                                       *)
NoVelocityOutstanding ==
  [][cmd'.motion # None /\ (cmd.motion = None \/ cmd'.motion.id # cmd.motion.id)
       => \A r \in cmd.pending : r.action # "set_velocity"]_vars

=============================================================================
