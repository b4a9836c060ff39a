------------------------------ MODULE SimMotion ------------------------------
(***************************************************************************)
(* How the simulated robot moves (g1_sim/model.py, SimulatedRobotState):   *)
(* the two functions that read or write its velocity, as operators on a    *)
(* record.  The code compares absolute readings of the ROS clock; only     *)
(* their differences matter, so the record holds                           *)
(*   vx, turn  the velocity: forward, and the two components set after it  *)
(*   left      command_until_sec - now                                     *)
(*   since     now - last_update_sec, None before the first update         *)
(* Both may be negative: the ROS clock can be set back.  The pose is       *)
(* abstracted to whether, and how long, the robot moves.                   *)
(***************************************************************************)
EXTENDS Integers, PythonNone

CONSTANT Speeds

ASSUME SpeedsAssumption == 0 \in Speeds /\ Speeds \subseteq Nat
ASSUME NotASince == None \notin Int

Motion == [vx : Speeds, turn : Speeds, left : Int, since : Int \cup {None}]

Standing == [vx |-> 0, turn |-> 0, left |-> 0, since |-> None]

HasVelocity(m) == m.vx # 0 \/ m.turn # 0

Earlier(a, b) == IF a < b THEN a ELSE b

\* The time integrate() moves the robot for: up to now, or up to the end of the
\* command when that has passed.
MovedFor(m) ==
    IF m.since = None THEN 0
    ELSE IF m.since + Earlier(0, m.left) > 0 THEN m.since + Earlier(0, m.left) ELSE 0

\* mutant: the velocity stays when the command is over
IntegrateKeeps(m) == [m EXCEPT !.since = 0]

\* integrate(): the first call only starts the clock.
Integrate(m) ==
    IF m.since = None THEN [m EXCEPT !.since = 0]
    ELSE [m EXCEPT !.since = 0,
                   !.vx = IF m.left <= 0 THEN 0 ELSE @,
                   !.turn = IF m.left <= 0 THEN 0 ELSE @]

\* apply_velocity_command() of a command that converts.
SetVelocity(m, vx, turn, duration) ==
    [Integrate(m) EXCEPT !.vx = vx, !.turn = turn,
                         !.left = IF duration > 0 THEN duration ELSE 0]

\* The same when it raises: before the first assignment (the list or the
\* duration is bad), or between the assignments of vx and command_until_sec, with
\* neither or one of the components of turn assigned.
FailsBefore(m) == Integrate(m)
FailsBetween(m, vx, turn) ==
    {[Integrate(m) EXCEPT !.vx = vx], [Integrate(m) EXCEPT !.vx = vx, !.turn = turn]}

\* Time goes on by dt, or is set back by -dt; left stops at the point where it
\* can no longer matter.
Passes(m, dt, floor) ==
    [m EXCEPT !.left = IF @ - dt < floor THEN floor ELSE @ - dt,
              !.since = IF @ = None THEN None ELSE @ + dt]
=============================================================================
