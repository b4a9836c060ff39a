------------------------------ MODULE LocoChain ------------------------------
(***************************************************************************)
(* g1_interface and the robot it commands (g1_sim's model of it), joined by*)
(* the topic /api/sport/request: a queue of velocity requests in the order *)
(* they were sent, of which any may be lost.  Requests that only query are *)
(* left out of it, and what the robot says (responses, joint reports) is   *)
(* what it may say in G1Interface: anything, at any time, or nothing.      *)
(* On top of G1Interface the process may be killed without a last stop.    *)
(* Robot and interface count the same ticks; the robot publishes its state,*)
(* and integrates, at least once a tick, and its clock is not set back     *)
(* (G1Sim looks at that).                                                  *)
(***************************************************************************)
EXTENDS G1Interface, Sequences, SequencesExt

CONSTANT MaxWire  \* bound: velocity requests on the wire

ASSUME WireAssumption == MaxWire \in Nat \ {0}

Sim == INSTANCE SimMotion WITH Speeds <- {0, 1}

VARIABLES
    wire,   \* /api/sport/request: velocity requests not yet taken
    robot,  \* the robot's velocity and its deadline, see SimMotion
    lost    \* history: the last velocity request was lost, or (a process that
            \* was killed) never sent

chainVars == <<vars, wire, robot, lost>>

\* A velocity request: speed 1 stands for any that is not zero.
Velocity == [speed : {0, 1}, duration : 0 .. MaxDuration]

ChainInit == Init /\ wire = <<>> /\ robot = Sim!Standing /\ lost = FALSE

ChainTypeOK ==
    /\ TypeOK
    /\ wire \in Seq(Velocity)
    /\ robot \in Sim!Motion
    /\ lost \in BOOLEAN

-----------------------------------------------------------------------------
\* A velocity request was sent in this step: the acknowledgement that is
\* waited for has an id that was not in use.
Sent == cmd'.ack # None /\ (cmd.ack = None \/ cmd'.ack.id # cmd.ack.id)

VelocityRequest ==
    IF cmd'.motion = None THEN [speed |-> 0, duration |-> 0]
    ELSE [speed |-> 1, duration |-> cmd'.motion.left]

\* mutant: the interface's stop is not put on the wire
SendMotionOnly ==
    IF Sent /\ cmd'.motion # None
    THEN wire' = Append(wire, VelocityRequest) /\ lost' = FALSE
    ELSE UNCHANGED <<wire, lost>>

\* What the step of the interface sent goes on the wire.
Send ==
    IF Sent THEN Len(wire) < MaxWire /\ wire' = Append(wire, VelocityRequest) /\ lost' = FALSE
    ELSE UNCHANGED <<wire, lost>>

InterfaceStep == Callback /\ Send /\ UNCHANGED robot

\* What a process knows of its commands when it has just started.
NoCommand == [ack |-> None, motion |-> None, pending |-> {}, timeouts |-> 0]

\* The process dies: what it knew is gone, and no last stop is sent.
Kill ==
    /\ running
    /\ running' = FALSE
    /\ cmd' = NoCommand
    /\ lost' = TRUE
    /\ UNCHANGED <<due, lowstateAge, safetyAge, modeAge, mode, apiFailed, wire, robot>>

\* on_sport_request with set_velocity.
RobotTakes ==
    /\ wire # <<>>
    /\ robot' = Sim!SetVelocity(robot, Head(wire).speed, 0, Head(wire).duration)
    /\ wire' = Tail(wire)
    /\ UNCHANGED <<vars, lost>>

LoseRequest ==
    /\ \E i \in DOMAIN wire :
          /\ wire' = RemoveAt(wire, i)
          /\ lost' = (lost \/ i = Len(wire))
    /\ UNCHANGED <<vars, robot>>

RobotPublishes ==
    /\ robot' = Sim!Integrate(robot)
    /\ UNCHANGED <<vars, wire, lost>>

\* Time passes for both; for the robot also when the interface is gone.
ChainTick ==
    /\ robot.since = 0
    /\ robot' = Sim!Passes(robot, 1, -1)
    /\ IF running THEN Tick ELSE UNCHANGED vars
    /\ UNCHANGED <<wire, lost>>

ChainNext ==
    InterfaceStep \/ Kill \/ RobotTakes \/ LoseRequest \/ RobotPublishes \/ ChainTick

\* The robot goes on on its own: what was sent arrives or is lost, its timers
\* run, time passes.  Nothing is assumed of the interface.
ChainFairness ==
    /\ WF_chainVars(RobotTakes \/ LoseRequest)
    /\ WF_chainVars(RobotPublishes)
    /\ WF_chainVars(ChainTick)

ChainSpec == ChainInit /\ [][ChainNext]_chainVars /\ ChainFairness

-----------------------------------------------------------------------------
(* Properties.                                                             *)

StopOnTheWay == \E i \in DOMAIN wire : wire[i].speed = 0

\* The robot moves only while the interface supervises a motion (and so, by
\* MotionSupervised, while safety_control and the joint reports are alive), or a
\* stop is on its way to it, or the last request got lost.  It is the order of
\* the topic that makes it so: what was sent last is what the robot does last.
MovesOnlySupervised ==
    Sim!HasVelocity(robot) => cmd.motion # None \/ StopOnTheWay \/ lost

\* The interface may die, be killed, or lose its stop: the robot then stands
\* for good, because each request carries the time it is valid for.
DeadInterfaceStops == ~running ~> []~Sim!HasVelocity(robot)
=============================================================================
