--------------------------- MODULE SimPanel_proof ---------------------------
(* The two ends of the system.  The simulator: its types, that the robot moves *)
(* only in its time, and that what was announced as playing plays, for all     *)
(* speeds, durations, applications and settings.  The debug panel: its types,  *)
(* that a socket has no gap, and that a page that missed nothing is current,   *)
(* for any number of changes, sockets and events to show.                      *)
EXTENDS G1Sim, DebugPanel, SequenceTheorems, TLAPS

AtLeastZero(n) == IF n > 0 THEN n ELSE 0

\* How long the robot may still be moved if nothing is asked of it any more: for
\* the time since the last integration that lies in the command, and for what is
\* left of the command.
StillToMove(m) ==
    IF m.since = None THEN AtLeastZero(m.left)
    ELSE MovedFor(m) + AtLeastZero(m.left)

\* left is kept within MaxLag of the end of the command, and since within MaxLag:
\* where left stops counting, no time that lies in the command is waiting.
Bounded(m) ==
    /\ m.left >= -MaxLag
    /\ m.since # None => m.since <= MaxLag
    /\ HasVelocity(m) => m.since # None

\* What was moved and what may still be moved is covered by the command.  It
\* holds of a robot that stands as well: a rejected request may give it a velocity
\* for what is left of a command that had none.
Budget == movedFor + StillToMove(motion) <= allowed

SimInv == TypeOK /\ Bounded(motion) /\ Budget

-----------------------------------------------------------------------------
(* The operators on the motion record.                                        *)

LEMMA LagNat == MaxLag \in Nat /\ MaxSetBack \in Nat /\ None \notin Int
  BY SimAssumption, NotASince DEF SimAssumption, NotASince

\* Every velocity is one of the speeds, zero among them.
LEMMA IntegrateKeepsBounds ==
  ASSUME NEW m \in Motion, Bounded(m)
  PROVE  /\ Integrate(m) \in Motion /\ Bounded(Integrate(m))
         /\ Integrate(m).since = 0 /\ Integrate(m).left = m.left
  <1>1. 0 \in Speeds
    BY SpeedsAssumption DEF SpeedsAssumption
  <1>2. /\ Integrate(m) \in Motion
        /\ Integrate(m).since = 0 /\ Integrate(m).left = m.left
    <2>1. CASE m.since = None
      BY <2>1 DEF Integrate, Motion
    <2>2. CASE m.since # None
      <3>1. PICK vx \in Speeds, turn \in Speeds :
              Integrate(m) = [m EXCEPT !.since = 0, !.vx = vx, !.turn = turn]
        BY <1>1, <2>2 DEF Integrate, Motion
      <3>2. /\ m.left \in Int /\ m.since \in Int \cup {None} /\ 0 \in Int \cup {None}
        BY DEF Motion
      <3>3. [m EXCEPT !.since = 0, !.vx = vx, !.turn = turn] \in Motion
        BY <3>2 DEF Motion
      <3>4. /\ [m EXCEPT !.since = 0, !.vx = vx, !.turn = turn].since = 0
            /\ [m EXCEPT !.since = 0, !.vx = vx, !.turn = turn].left = m.left
        BY DEF Motion
      <3> QED
        BY <3>1, <3>3, <3>4
    <2> QED
      BY <2>1, <2>2
  <1>3. Bounded(Integrate(m))
    BY <1>2, LagNat DEF Bounded
  <1> QED
    BY <1>2, <1>3

\* What integrate() moves the robot for is taken from what was still to come.
LEMMA IntegrateSpends ==
  ASSUME NEW m \in Motion, Bounded(m)
  PROVE  /\ StillToMove(m) \in Nat
         /\ (IF HasVelocity(m) THEN MovedFor(m) ELSE 0) \in Nat
         /\ (IF HasVelocity(m) THEN MovedFor(m) ELSE 0) + StillToMove(Integrate(m))
               <= StillToMove(m)
  <1>1. CASE m.since = None
    BY <1>1, LagNat
    DEF StillToMove, Integrate, Motion, Bounded, HasVelocity, MovedFor, Earlier, AtLeastZero
  <1>2. CASE m.since # None
    <2>1. m.since \in Int /\ m.left \in Int
      BY <1>2 DEF Motion
    <2>2. /\ Integrate(m).since = 0 /\ Integrate(m).left = m.left
      BY IntegrateKeepsBounds
    <2>3. MovedFor(m) \in Nat
      BY <1>2, <2>1 DEF MovedFor, Earlier
    <2>4. StillToMove(Integrate(m)) = AtLeastZero(m.left)
      BY <2>1, <2>2, LagNat DEF StillToMove, MovedFor, Earlier, AtLeastZero
    <2>5. StillToMove(m) = MovedFor(m) + AtLeastZero(m.left)
      BY <1>2 DEF StillToMove
    <2>6. AtLeastZero(m.left) \in Nat
      BY <2>1 DEF AtLeastZero
    <2> QED
      BY <2>3, <2>4, <2>5, <2>6
  <1> QED
    BY <1>1, <1>2

\* A component that is assigned without the rest of the command changes nothing of
\* how long the robot may move.
LEMMA FailureKeepsBounds ==
  ASSUME NEW m \in Motion, Bounded(m), NEW vx \in Speeds, NEW turn \in Speeds,
         NEW n \in {FailsBefore(m)} \cup FailsBetween(m, vx, turn)
  PROVE  n \in Motion /\ Bounded(n) /\ StillToMove(n) = StillToMove(Integrate(m))
  <1>1. /\ Integrate(m) \in Motion /\ Bounded(Integrate(m))
        /\ Integrate(m).since = 0 /\ Integrate(m).left = m.left
    BY IntegrateKeepsBounds
  <1>2. n.since = 0 /\ n.left = m.left /\ n \in Motion
    BY <1>1 DEF FailsBefore, FailsBetween, Motion
  <1>3. Bounded(n)
    BY <1>1, <1>2, LagNat DEF Bounded
  <1>4. StillToMove(n) = StillToMove(Integrate(m))
    BY <1>1, <1>2 DEF StillToMove, MovedFor
  <1> QED
    BY <1>2, <1>3, <1>4

\* A command may move the robot for its own time and no longer.
LEMMA CommandIsItsTime ==
  ASSUME NEW m \in Motion, Bounded(m),
         NEW vx \in Speeds, NEW turn \in Speeds, NEW d \in Int
  PROVE  /\ SetVelocity(m, vx, turn, d) \in Motion
         /\ Bounded(SetVelocity(m, vx, turn, d))
         /\ StillToMove(SetVelocity(m, vx, turn, d)) = AtLeastZero(d)
  <1> DEFINE n == SetVelocity(m, vx, turn, d)
  <1>1. /\ Integrate(m) \in Motion /\ Integrate(m).since = 0
    BY IntegrateKeepsBounds
  <1>5. n = [Integrate(m) EXCEPT !.vx = vx, !.turn = turn, !.left = AtLeastZero(d)]
    BY DEF SetVelocity, AtLeastZero
  <1>6. AtLeastZero(d) \in Int
    BY DEF AtLeastZero
  <1>2. n \in Motion /\ n.since = 0 /\ n.left = AtLeastZero(d)
    <2> HIDE DEF n
    <2> QED BY <1>1, <1>5, <1>6 DEF Motion
  <1>3. Bounded(n)
    BY <1>2, LagNat DEF Bounded, AtLeastZero, Motion
  <1>4. StillToMove(n) = AtLeastZero(d)
    BY <1>2, LagNat DEF StillToMove, MovedFor, Earlier, AtLeastZero
  <1> QED
    BY <1>2, <1>3, <1>4

\* Passes moves the two distances to the clock and nothing else.
LEMMA PassesFields ==
  ASSUME NEW m \in Motion, NEW dt \in Int, NEW floor \in Int
  PROVE  LET n == Passes(m, dt, floor)
         IN  /\ n \in Motion /\ HasVelocity(n) = HasVelocity(m)
             /\ n.left = (IF m.left - dt < floor THEN floor ELSE m.left - dt)
             /\ n.since = (IF m.since = None THEN None ELSE m.since + dt)
  <1> DEFINE n == Passes(m, dt, floor)
             left == IF m.left - dt < floor THEN floor ELSE m.left - dt
             since == IF m.since = None THEN None ELSE m.since + dt
  <1>1. /\ m.vx \in Speeds /\ m.turn \in Speeds /\ m.left \in Int
        /\ m.since \in Int \cup {None}
    BY DEF Motion
  <1>2. n = [m EXCEPT !.left = left, !.since = since]
    BY DEF Passes
  <1>3. left \in Int
    BY <1>1
  <1>4. since \in Int \cup {None}
    BY <1>1
  <1>5. n \in Motion
    <2> HIDE DEF n, left, since
    <2> QED BY <1>1, <1>2, <1>3, <1>4 DEF Motion
  <1>6. /\ n.vx = m.vx /\ n.turn = m.turn /\ n.left = left /\ n.since = since
    <2> HIDE DEF n, left, since
    <2> QED BY <1>2 DEF Motion
  <1> QED
    BY <1>5, <1>6 DEF HasVelocity

\* A tick moves time from what is left to what is to be integrated.
LEMMA TickSpendsNothing ==
  ASSUME NEW m \in Motion, Bounded(m), m.since # None => m.since < MaxLag
  PROVE  /\ Passes(m, 1, -MaxLag) \in Motion /\ Bounded(Passes(m, 1, -MaxLag))
         /\ StillToMove(Passes(m, 1, -MaxLag)) <= StillToMove(m)
  <1> DEFINE n == Passes(m, 1, -MaxLag)
  <1>2. m.left \in Int /\ (m.since # None => m.since \in Int)
    BY DEF Motion
  <1>1. /\ n \in Motion /\ HasVelocity(n) = HasVelocity(m)
        /\ n.left = (IF m.left - 1 < -MaxLag THEN -MaxLag ELSE m.left - 1)
        /\ n.since = (IF m.since = None THEN None ELSE m.since + 1)
    BY <1>2, PassesFields, LagNat
  <1>3. Bounded(n)
    BY <1>1, <1>2, LagNat DEF Bounded
  <1>4. StillToMove(n) <= StillToMove(m)
    <2>1. CASE m.since = None
      BY <2>1, <1>1, <1>2, LagNat DEF StillToMove, AtLeastZero, Bounded
    <2>2. CASE m.since # None
      BY <2>2, <1>1, <1>2, LagNat
      DEF StillToMove, AtLeastZero, Bounded, MovedFor, Earlier
    <2> QED
      BY <2>1, <2>2
  <1> QED
    BY <1>1, <1>3, <1>4

\* A clock that is set back by a tick lets the robot move one tick longer.
LEMMA SetBackAddsOne ==
  ASSUME NEW m \in Motion, Bounded(m)
  PROVE  /\ Passes(m, -1, -MaxLag) \in Motion /\ Bounded(Passes(m, -1, -MaxLag))
         /\ StillToMove(Passes(m, -1, -MaxLag)) <= StillToMove(m) + 1
  <1> DEFINE n == Passes(m, -1, -MaxLag)
  <1>2. m.left \in Int /\ (m.since # None => m.since \in Int)
    BY DEF Motion
  <1>1. /\ n \in Motion /\ HasVelocity(n) = HasVelocity(m)
        /\ n.left = m.left + 1
        /\ n.since = (IF m.since = None THEN None ELSE m.since - 1)
    BY <1>2, PassesFields, LagNat DEF Bounded
  <1>3. Bounded(n)
    BY <1>1, <1>2, LagNat DEF Bounded
  <1>4. StillToMove(n) <= StillToMove(m) + 1
    <2>1. CASE m.since = None
      BY <2>1, <1>1, <1>2, LagNat DEF StillToMove, AtLeastZero, Bounded
    <2>2. CASE m.since # None
      BY <2>2, <1>1, <1>2, LagNat
      DEF StillToMove, AtLeastZero, Bounded, MovedFor, Earlier
    <2> QED
      BY <2>1, <2>2
  <1> QED
    BY <1>1, <1>3, <1>4

-----------------------------------------------------------------------------
(* The actions.                                                               *)

\* The invariant speaks of the motion and the two counts alone: a request that
\* sets none of them keeps it, if what it sets has its type.
LEMMA QuietKeepsSimInv ==
  ASSUME SimInv, Quiet,
         setting' \in [Services -> Values], owner' \in {"internal", "user"},
         playing' \in [Apps -> Streams \cup {None}],
         playState' \in {0, 1, None}, reply' \in {0, 1}
  PROVE  SimInv'
  BY DEF SimInv, Quiet, TypeOK, Bounded, Budget, HasVelocity, StillToMove, MovedFor

LEMMA InitSimInv == Init => SimInv
  <1> SUFFICES ASSUME Init PROVE SimInv
    OBVIOUS
  <1>1. motion \in Motion
    BY SpeedsAssumption DEF Init, Standing, Motion, SpeedsAssumption
  <1>2. TypeOK
    BY <1>1, LagNat DEF Init, TypeOK
  <1>3. Bounded(motion) /\ Budget
    BY LagNat DEF Init, Standing, Bounded, Budget, StillToMove, AtLeastZero, HasVelocity
  <1> QED
    BY <1>2, <1>3 DEF SimInv

LEMMA VelocityKeepsSimInv ==
  ASSUME SimInv, NEW vx \in Speeds, NEW turn \in Speeds, NEW d \in Durations,
         Velocity(vx, turn, d)
  PROVE  SimInv'
  <1>1. d \in Int
    BY SimAssumption DEF SimAssumption
  <1>2. /\ motion' \in Motion /\ Bounded(motion')
        /\ StillToMove(motion') = AtLeastZero(d)
    BY <1>1, CommandIsItsTime DEF Velocity, SimInv, TypeOK
  <1>3. AtLeastZero(d) \in Nat /\ allowed' = AtLeastZero(d) /\ movedFor' = 0
    BY <1>1 DEF Velocity, AtLeastZero
  <1>4. TypeOK'
    BY <1>2, <1>3 DEF TypeOK, SimInv, Velocity, Answer, Rest
  <1>5. Bounded(motion)' /\ Budget'
    BY <1>2, <1>3 DEF Budget, Bounded, StillToMove, HasVelocity, MovedFor
  <1> QED
    BY <1>4, <1>5 DEF SimInv

\* A step that integrates, and leaves the rest of the command's time as it is.
LEMMA IntegrationKeepsSimInv ==
  ASSUME SimInv, UNCHANGED <<allowed, Rest>>, reply' \in {0, 1},
         movedFor' = movedFor + Adds,
         motion' \in Motion, Bounded(motion'),
         StillToMove(motion') = StillToMove(Integrate(motion))
  PROVE  SimInv'
  <1>1. Adds \in Nat /\ StillToMove(motion) \in Nat
        /\ Adds + StillToMove(Integrate(motion)) <= StillToMove(motion)
    BY IntegrateSpends DEF Adds, SimInv, TypeOK
  <1>2. movedFor \in Nat /\ allowed \in Nat
    BY DEF SimInv, TypeOK
  <1>3. TypeOK'
    BY <1>1, <1>2 DEF TypeOK, SimInv, Rest
  <1>4. /\ motion \in Motion /\ Bounded(motion)
        /\ movedFor + StillToMove(motion) <= allowed
    BY DEF SimInv, TypeOK, Budget
  <1>5. StillToMove(Integrate(motion)) \in Nat
    BY <1>4, IntegrateKeepsBounds, IntegrateSpends
  <1>6. Bounded(motion)' /\ Budget'
    BY <1>1, <1>2, <1>4, <1>5 DEF Budget, Bounded, StillToMove, HasVelocity, MovedFor
  <1> QED
    BY <1>3, <1>6 DEF SimInv

LEMMA RejectedKeepsSimInv ==
  ASSUME SimInv, NEW vx \in Speeds, NEW turn \in Speeds, VelocityRejected(vx, turn)
  PROVE  SimInv'
  <1>1. motion \in Motion /\ Bounded(motion)
    BY DEF SimInv, TypeOK
  <1>2. /\ motion' \in Motion /\ Bounded(motion')
        /\ StillToMove(motion') = StillToMove(Integrate(motion))
    BY <1>1, FailureKeepsBounds DEF VelocityRejected
  <1> QED
    BY <1>2, IntegrationKeepsSimInv DEF VelocityRejected, Answer

LEMMA PublishKeepsSimInv ==
  ASSUME SimInv, Publish
  PROVE  SimInv'
  <1>1. motion' = Integrate(motion) /\ motion' \in Motion /\ Bounded(motion')
    BY IntegrateKeepsBounds DEF Publish, SimInv, TypeOK
  <1> QED
    BY <1>1, IntegrationKeepsSimInv DEF Publish, SimInv, TypeOK

LEMMA TickKeepsSimInv ==
  ASSUME SimInv, Tick
  PROVE  SimInv'
  <1>1. /\ motion \in Motion /\ Bounded(motion) /\ movedFor \in Nat /\ allowed \in Nat
        /\ movedFor + StillToMove(motion) <= allowed
    BY DEF SimInv, TypeOK, Budget
  <1>2. /\ motion' \in Motion /\ Bounded(motion')
        /\ StillToMove(motion') <= StillToMove(motion)
    BY <1>1, TickSpendsNothing DEF Tick
  <1>3. StillToMove(motion) \in Nat /\ StillToMove(motion') \in Nat
    BY <1>1, <1>2, IntegrateSpends
  <1>4. TypeOK'
    BY <1>2 DEF TypeOK, SimInv, Tick, Rest
  <1>5. movedFor' + StillToMove(motion') <= allowed'
    BY <1>1, <1>2, <1>3 DEF Tick
  <1> QED
    BY <1>2, <1>4, <1>5
    DEF SimInv, Budget, Bounded, StillToMove, HasVelocity, MovedFor

LEMMA SetBackKeepsSimInv ==
  ASSUME SimInv, SetBack
  PROVE  SimInv'
  <1>1. /\ motion \in Motion /\ Bounded(motion) /\ movedFor \in Nat /\ allowed \in Nat
        /\ movedFor + StillToMove(motion) <= allowed
    BY DEF SimInv, TypeOK, Budget
  <1>2. /\ motion' \in Motion /\ Bounded(motion')
        /\ StillToMove(motion') <= StillToMove(motion) + 1
    BY <1>1, SetBackAddsOne DEF SetBack
  <1>3. StillToMove(motion) \in Nat /\ StillToMove(motion') \in Nat
    BY <1>1, <1>2, IntegrateSpends
  <1>4. TypeOK'
    BY <1>1, <1>2, LagNat DEF TypeOK, SimInv, SetBack
  <1>5. movedFor' + StillToMove(motion') <= allowed'
    BY <1>1, <1>2, <1>3 DEF SetBack
  <1> QED
    BY <1>2, <1>4, <1>5
    DEF SimInv, Budget, Bounded, StillToMove, HasVelocity, MovedFor

\* The requests that set something else.
LEMMA OtherRequestsKeepSimInv ==
  ASSUME SimInv
  PROVE  /\ Read => SimInv'
         /\ \A service \in Services : Set(service) => SimInv'
         /\ SwitchOwner => SimInv'
         /\ \A app \in Apps, stream \in Streams : StartPlay(app, stream) => SimInv'
         /\ \A app \in Apps : StopPlay(app) => SimInv'
  <1>1. /\ setting \in [Services -> Values] /\ owner \in {"internal", "user"}
        /\ playing \in [Apps -> Streams \cup {None}] /\ playState \in {0, 1, None}
    BY DEF SimInv, TypeOK
  <1>2. Read => SimInv'
    BY <1>1, QuietKeepsSimInv DEF Read, Answer
  <1>3. ASSUME NEW service \in Services, Set(service) PROVE SimInv'
    <2>1. setting' \in [Services -> Values]
      BY <1>1, <1>3 DEF Set
    <2> QED
      BY <1>1, <1>3, <2>1, QuietKeepsSimInv DEF Set, Answer
  <1>4. SwitchOwner => SimInv'
    BY <1>1, QuietKeepsSimInv DEF SwitchOwner, Answer
  <1>5. ASSUME NEW app \in Apps, NEW stream \in Streams, StartPlay(app, stream)
        PROVE  SimInv'
    <2>1. playing' \in [Apps -> Streams \cup {None}]
      BY <1>1, <1>5 DEF StartPlay, Announce
    <2> QED
      BY <1>1, <1>5, <2>1, QuietKeepsSimInv DEF StartPlay, Announce, Answer
  <1>6. ASSUME NEW app \in Apps, StopPlay(app) PROVE SimInv'
    <2>1. playing' \in [Apps -> Streams \cup {None}] /\ playState' \in {0, 1, None}
      BY <1>1, <1>6 DEF StopPlay, Announce
    <2> QED
      BY <1>1, <1>6, <2>1, QuietKeepsSimInv DEF StopPlay, Announce, Answer
  <1> QED
    BY <1>2, <1>3, <1>4, <1>5, <1>6

LEMMA StepSimInv == SimInv /\ [Next]_vars => SimInv'
  <1> SUFFICES ASSUME SimInv, [Next]_vars PROVE SimInv'
    OBVIOUS
  <1>1. CASE SportRequest
    BY <1>1, VelocityKeepsSimInv, RejectedKeepsSimInv, OtherRequestsKeepSimInv
    DEF SportRequest, Services
  <1>2. CASE ArmRequest
    BY <1>2, OtherRequestsKeepSimInv DEF ArmRequest
  <1>3. CASE VoiceRequest
    BY <1>3, OtherRequestsKeepSimInv DEF VoiceRequest, Services
  <1>4. CASE AgvRequest
    BY <1>4, VelocityKeepsSimInv, OtherRequestsKeepSimInv DEF AgvRequest, Services
  <1>5. CASE MotionSwitcherRequest
    BY <1>5, OtherRequestsKeepSimInv DEF MotionSwitcherRequest, Services
  <1>6. CASE Publish
    BY <1>6, PublishKeepsSimInv
  <1>7. CASE Tick
    BY <1>7, TickKeepsSimInv
  <1>8. CASE SetBack
    BY <1>8, SetBackKeepsSimInv
  <1>9. CASE UNCHANGED vars
    BY <1>9
    DEF vars, SimInv, TypeOK, Bounded, Budget, HasVelocity, StillToMove, MovedFor
  <1> QED
    BY <1>1, <1>2, <1>3, <1>4, <1>5, <1>6, <1>7, <1>8, <1>9 DEF Next

LEMMA SimInvAlways == Spec => []SimInv
  BY InitSimInv, StepSimInv, PTL DEF Spec

-----------------------------------------------------------------------------
\* The simulator's state keeps its types, through every request and timer of
\* node.py.
THEOREM SimTypeOK == Spec => []TypeOK
  <1>1. SimInv => TypeOK
    BY DEF SimInv
  <1> QED
    BY <1>1, SimInvAlways, PTL

\* The robot is never moved longer than the last command it accepted says and the
\* clock allows, whatever rejected requests assigned before they raised and however
\* often the clock was set back (model.py, integrate and apply_velocity_command).
THEOREM SimMovesOnlyInItsTime == Spec => []MovesOnlyInItsTime
  <1>1. SimInv => MovesOnlyInItsTime
    BY IntegrateSpends DEF SimInv, TypeOK, Budget, MovesOnlyInItsTime
  <1> QED
    BY <1>1, SimInvAlways, PTL

\* While the last play_state message says "playing" a stream plays: a stop that
\* ends the last one is announced (node.py, on_voice_request).
THEOREM SimPlayingIsTrue == Spec => []PlayingIsTrue
  <1>1. Init => PlayingIsTrue
    <2>1. None # 1
      BY LagNat
    <2> QED
      BY <2>1 DEF Init, PlayingIsTrue
  <1>2. SimInv /\ PlayingIsTrue /\ [Next]_vars => PlayingIsTrue'
    <2> SUFFICES ASSUME SimInv, PlayingIsTrue, [Next]_vars PROVE PlayingIsTrue'
      OBVIOUS
    <2>1. playing \in [Apps -> Streams \cup {None}]
      BY DEF SimInv, TypeOK
    <2>2. ASSUME NEW app \in Apps, NEW stream \in Streams, StartPlay(app, stream)
          PROVE  PlayingIsTrue'
      <3>1. playing'[app] = stream /\ stream # None
        BY <2>1, <2>2, SimAssumption DEF StartPlay, SimAssumption
      <3> QED
        BY <3>1 DEF PlayingIsTrue
    <2>3. ASSUME NEW app \in Apps, StopPlay(app)
          PROVE  PlayingIsTrue'
      <3>1. CASE playing[app] # None
        BY <2>3, <3>1 DEF StopPlay, Announce, PlayingIsTrue
      <3>2. CASE playing[app] = None
        <4>1. playing' = playing /\ playState' = playState
          BY <2>1, <2>3, <3>2 DEF StopPlay, Announce
        <4> QED
          BY <4>1 DEF PlayingIsTrue
      <3> QED
        BY <3>1, <3>2
    <2>4. CASE UNCHANGED <<playing, playState>>
      BY <2>4 DEF PlayingIsTrue
    <2> QED
      BY <2>2, <2>3, <2>4
      DEF Next, SportRequest, ArmRequest, VoiceRequest, AgvRequest, MotionSwitcherRequest,
          Velocity, VelocityRejected, Set, SwitchOwner, Read, Publish, Tick, SetBack, Rest,
          vars
  <1> QED
    BY <1>1, <1>2, SimInvAlways, PTL DEF Spec

-----------------------------------------------------------------------------
(* The debug panel: the message (k, v) of change v of kind k on its way.      *)

IsMessage(m, k, v) == m.type = k /\ m.n = v
Among(s, k, v) == \E i \in DOMAIN s : IsMessage(s[i], k, v)

Handing(k, v) == ros.message # None /\ IsMessage(ros.message, k, v)
Waiting(k, v) == Among(queue, k, v)
InHand(k, v) == sending # None /\ IsMessage(sending.message, k, v)
Sends == sending # None /\ socket.number \in sending.todo
OnWire(k, v) == Among(wire, k, v)

Open == socket.status = "open"

\* Everything the page has still to be sent, or to read.
Coming(k, v) ==
    OnWire(k, v) \/ (Sends /\ InHand(k, v)) \/ Waiting(k, v) \/ Handing(k, v)

\* After change n nothing of the kind is missing on the way.
Ahead(k, n) == \A v \in n + 1 .. state[k] : Coming(k, v)

Increasing(s) ==
    \A i, j \in DOMAIN s : i < j /\ s[i].type = s[j].type => s[i].n < s[j].n

\* The server knows no socket that the page has not connected, and the live one.
Connected ==
    /\ socket.number = 0 => socket.status = "closed"
    /\ \A c \in connections : c <= socket.number
    /\ sending # None =>
         /\ \A c \in sending.todo \cup sending.failed : c <= socket.number
         /\ Open => socket.number \notin sending.failed
    /\ socket.status = "opening" =>
         /\ socket.number \notin connections
         /\ sending # None => socket.number \notin sending.todo \cup sending.failed
         /\ heard = Nothing
    /\ Open => socket.number \in connections
    /\ ~Open => wire = <<>>

\* What is further on its way is older.
InOrder ==
    /\ Increasing(queue) /\ Increasing(wire)
    /\ \A k \in Kinds : heard[k] <= state[k]
    /\ \A k \in Kinds : \A v \in Nat :
         /\ Coming(k, v) \/ InHand(k, v) => v <= state[k]
         /\ Coming(k, v) => heard[k] < v
         /\ Handing(k, v) => v = state[k]
    /\ \A k \in Kinds : \A v, w \in Nat :
         /\ OnWire(k, v) /\ InHand(k, w) => v <= w /\ (Sends => v < w)
         /\ (OnWire(k, v) \/ InHand(k, v)) /\ Waiting(k, w) => v < w
         /\ (OnWire(k, v) \/ InHand(k, v) \/ Waiting(k, v)) /\ Handing(k, w) => v < w

\* Behind every message there are all the later ones of its kind.
Covered ==
    /\ \A k \in Kinds : \A n \in Nat : Waiting(k, n) =>
         \A v \in n + 1 .. state[k] : Waiting(k, v) \/ Handing(k, v)
    /\ Open => \A k \in Kinds : \A n \in Nat :
         Coming(k, n) \/ (heard[k] = n /\ n # 0) => Ahead(k, n)

\* Behind every event of the list there are all later ones, on the list or coming.
Complete(list) ==
    /\ \A v \in Nat \ {0} : v = state["event"] =>
         Coming("event", v) \/ \E i \in DOMAIN list : list[i] = v
    /\ \A i \in DOMAIN list : \A v \in list[i] + 1 .. state["event"] :
         Coming("event", v) \/ \E j \in DOMAIN list : i < j /\ list[j] = v

\* What the page shows, or is about to be shown of the answers, lacks nothing
\* but what is coming.
Current(robot, result) ==
    /\ robot <= state["robot_state"] /\ result <= state["agent_result"]
    /\ Ahead("robot_state", robot) /\ Ahead("agent_result", result)

AnswersCurrent ==
    /\ answers.history # None => Len(answers.history) <= Shown
    /\ page.loaded => answers.state # None /\ answers.history # None
    /\ ~gap /\ (answers.state # None \/ answers.history # None) => Open
    /\ ~gap /\ ~page.loaded /\ answers.state # None =>
         Current(answers.state.robot, answers.state.result)
    /\ ~gap /\ ~page.loaded /\ answers.history # None => Complete(answers.history)

PageCurrent ==
    ~gap /\ page.loaded => Current(page.robot, page.result) /\ Complete(page.timeline)

PanelInv ==
    PanelTypeOK /\ Connected /\ InOrder /\ Covered /\ AnswersCurrent /\ PageCurrent

-----------------------------------------------------------------------------
(* Messages in a queue, and the page's lists.                                 *)

LEMMA PanelConstants ==
  /\ MaxEvents \in Nat \ {0} /\ Shown \in Nat \ {0} /\ MaxEvents <= Shown
  /\ MaxChanges \in Nat /\ MaxSockets \in Nat
  /\ None \notin Message /\ None \notin Sending
  BY PanelAssumption, NoneIsNoMessage

\* A message put at the end is the only new one.
LEMMA PutMessage ==
  ASSUME NEW s \in Seq(Message), NEW m \in Message
  PROVE  /\ Append(s, m) \in Seq(Message)
         /\ \A k, v : Among(Append(s, m), k, v) <=> Among(s, k, v) \/ IsMessage(m, k, v)
         /\ Increasing(s) /\ (\A v \in Nat : Among(s, m.type, v) => v < m.n)
               => Increasing(Append(s, m))
  <1>1. PICK q : q = Append(s, m)
    OBVIOUS
  <1>2. /\ q \in Seq(Message) /\ Len(q) = Len(s) + 1 /\ q[Len(s) + 1] = m
        /\ \A i \in 1 .. Len(s) : q[i] = s[i]
    BY <1>1
  <1>3. DOMAIN s = 1 .. Len(s) /\ DOMAIN q = 1 .. Len(s) + 1 /\ Len(s) \in Nat
    BY <1>2
  <1>4. ASSUME NEW k, NEW v
        PROVE  Among(q, k, v) <=> Among(s, k, v) \/ IsMessage(m, k, v)
    BY <1>2, <1>3 DEF Among
  <1>5. ASSUME Increasing(s), \A v \in Nat : Among(s, m.type, v) => v < m.n
        PROVE  Increasing(q)
    <2>0. \A i \in DOMAIN s : s[i] \in Message
      BY <1>3
    <2>1. \A i \in DOMAIN s : s[i].n \in Nat
      BY <2>0, PanelConstants DEF Message
    <2>2. \A i \in DOMAIN s : s[i].type = m.type => s[i].n < m.n
      BY <1>5, <2>1 DEF Among, IsMessage
    <2>3. QED
      BY <1>2, <1>3, <1>5, <2>2 DEF Increasing
  <1>6. QED
    BY <1>1, <1>2, <1>4, <1>5

\* What is taken from the front was the oldest of its kind.
LEMMA TakeMessage ==
  ASSUME NEW s \in Seq(Message), s # <<>>
  PROVE  /\ Head(s) \in Message /\ Tail(s) \in Seq(Message)
         /\ \A k, v : Among(s, k, v) <=> IsMessage(Head(s), k, v) \/ Among(Tail(s), k, v)
         /\ Increasing(s) =>
              /\ Increasing(Tail(s))
              /\ \A v \in Nat : Among(Tail(s), Head(s).type, v) => Head(s).n < v
  <1>1. PICK q : q = Tail(s)
    OBVIOUS
  <1>2. /\ q \in Seq(Message) /\ Head(s) \in Message /\ Head(s) = s[1]
        /\ Len(q) = Len(s) - 1 /\ \A i \in 1 .. Len(q) : q[i] = s[i + 1]
    BY <1>1, HeadTailProperties
  <1>3. /\ DOMAIN s = 1 .. Len(s) /\ DOMAIN q = 1 .. Len(s) - 1
        /\ Len(s) \in Nat /\ Len(s) # 0
    BY <1>2, EmptySeq
  <1>4. ASSUME NEW k, NEW v
        PROVE  Among(s, k, v) <=> IsMessage(Head(s), k, v) \/ Among(q, k, v)
    <2>1. ASSUME NEW i \in DOMAIN s, i # 1 PROVE i - 1 \in DOMAIN q /\ q[i - 1] = s[i]
      BY <1>2, <1>3, <2>1
    <2>2. \A i \in DOMAIN q : i + 1 \in DOMAIN s /\ q[i] = s[i + 1]
      BY <1>2, <1>3
    <2>3. 1 \in DOMAIN s
      BY <1>3
    <2>4. QED
      BY <1>2, <2>1, <2>2, <2>3 DEF Among
  <1>5. ASSUME Increasing(s)
        PROVE  /\ Increasing(q)
               /\ \A v \in Nat : Among(q, Head(s).type, v) => Head(s).n < v
    <2>1. \A i \in DOMAIN q : i + 1 \in DOMAIN s /\ 1 < i + 1 /\ q[i] = s[i + 1]
      BY <1>2, <1>3
    <2>2. Increasing(q)
      <3> SUFFICES ASSUME NEW i \in DOMAIN q, NEW j \in DOMAIN q, i < j, q[i].type = q[j].type
                   PROVE  q[i].n < q[j].n
        BY DEF Increasing
      <3>1. i + 1 < j + 1
        BY <1>3
      <3>2. QED
        BY <1>5, <2>1, <3>1 DEF Increasing
    <2>3. \A i \in DOMAIN q : q[i].type = Head(s).type => Head(s).n < q[i].n
      BY <1>2, <1>3, <1>5, <2>1 DEF Increasing
    <2>4. QED
      BY <2>2, <2>3 DEF Among, IsMessage
  <1>6. QED
    BY <1>1, <1>2, <1>4, <1>5

\* t is the end of s, moved to the front by d.
IsEndOf(t, s) ==
    \E d \in Nat : Len(s) = Len(t) + d /\ \A i \in DOMAIN t : t[i] = s[i + d]

LEMMA CutIsTheEnd ==
  ASSUME NEW S, NEW s \in Seq(S), NEW k \in Nat \ {0}
  PROVE  /\ Cut(s, k) \in Seq(S) /\ Len(Cut(s, k)) <= k
         /\ Len(s) <= k => Cut(s, k) = s
         /\ IsEndOf(Cut(s, k), s) /\ (Len(s) > 0 => Len(Cut(s, k)) > 0)
  <1>1. CASE Len(s) <= k
    <2>1. Cut(s, k) = s /\ Len(s) = Len(s) + 0 /\ \A i \in DOMAIN s : s[i] = s[i + 0]
      BY <1>1 DEF Cut
    <2>2. IsEndOf(s, s)
      BY <2>1 DEF IsEndOf
    <2>3. QED
      BY <1>1, <2>1, <2>2
  <1>2. CASE ~(Len(s) <= k)
    <2>1. PICK d : d = Len(s) - k
      OBVIOUS
    <2>2. d \in Nat /\ d + 1 \in 1 .. Len(s) /\ Cut(s, k) = SubSeq(s, d + 1, Len(s))
      BY <1>2, <2>1 DEF Cut
    <2>3. PICK q : q = SubSeq(s, d + 1, Len(s))
      OBVIOUS
    <2>4. /\ q \in Seq(S) /\ Len(q) = k
          /\ \A i \in 1 .. k : q[i] = s[i + d]
      <3>1. \A i \in d + 1 .. Len(s) : s[i] \in S
        BY <2>2
      <3>2. /\ q \in Seq(S)
            /\ Len(q) = IF d + 1 <= Len(s) THEN Len(s) - (d + 1) + 1 ELSE 0
            /\ \A i \in 1 .. Len(s) - (d + 1) + 1 : q[i] = s[d + 1 + i - 1]
        BY <2>2, <2>3, <3>1, SubSeqProperties
      <3>3. QED
        BY <1>2, <2>1, <2>2, <3>2
    <2>5. Cut(s, k) = q /\ DOMAIN q = 1 .. k /\ Len(s) = Len(q) + d
      BY <2>1, <2>2, <2>3, <2>4
    <2>6. IsEndOf(q, s)
      BY <2>2, <2>4, <2>5 DEF IsEndOf
    <2>7. QED
      BY <1>2, <2>4, <2>5, <2>6
  <1>3. QED
    BY <1>1, <1>2

\* The answer to the question for the history has the last events in order.
LEMMA TimelineIsTheEnd ==
  ASSUME NEW n \in 0 .. MaxChanges
  PROVE  /\ Timeline(n) \in Seq(1 .. MaxChanges) /\ Len(Timeline(n)) <= Shown
         /\ SubSeq(Timeline(n), 1, IF Len(Timeline(n)) < Shown
                                   THEN Len(Timeline(n)) ELSE Shown) = Timeline(n)
         /\ \E d \in Nat : /\ n = Len(Timeline(n)) + d
                           /\ \A i \in DOMAIN Timeline(n) : Timeline(n)[i] = i + d
         /\ n > 0 => Len(Timeline(n)) > 0
  <1>1. PICK s : s = [i \in 1 .. n |-> i]
    OBVIOUS
  <1>2. s \in Seq(1 .. MaxChanges) /\ Len(s) = n /\ \A i \in 1 .. n : s[i] = i
    BY <1>1, PanelConstants
  <1>3. PICK t : t = Timeline(n)
    OBVIOUS
  <1>4. t = Cut(s, MaxEvents)
    BY <1>1, <1>3 DEF Timeline
  <1>5. /\ t \in Seq(1 .. MaxChanges) /\ Len(t) <= MaxEvents
        /\ Len(s) <= MaxEvents => t = s
        /\ IsEndOf(t, s)
    <2>1. MaxEvents \in Nat \ {0}
      BY PanelConstants
    <2>2. QED
      BY <1>2, <1>4, <2>1, CutIsTheEnd
  <1>6. Len(t) <= Shown /\ Len(t) \in Nat
    BY <1>5, PanelConstants
  <1>7. SubSeq(t, 1, Len(t)) = t
    BY <1>5, SubSeqFull
  <1>8. (IF Len(t) < Shown THEN Len(t) ELSE Shown) = Len(t)
    BY <1>6, PanelConstants
  <1>9. PICK d \in Nat : Len(s) = Len(t) + d /\ \A i \in DOMAIN t : t[i] = s[i + d]
    BY <1>5 DEF IsEndOf
  <1>10. n = Len(t) + d /\ \A i \in DOMAIN t : t[i] = i + d
    BY <1>2, <1>5, <1>6, <1>9
  <1>11. n > 0 => Len(t) > 0
    <2>1. CASE n <= MaxEvents
      BY <1>2, <1>5, <2>1
    <2>2. CASE n > MaxEvents
      BY <1>2, <1>4, <2>2, PanelConstants, SubSeqProperties DEF Cut
    <2>3. QED
      BY <2>1, <2>2, PanelConstants
  <1>12. QED
    BY <1>3, <1>5, <1>6, <1>7, <1>8, <1>10, <1>11

-----------------------------------------------------------------------------
(* What every step keeps of the page, when nothing is lost on the way.        *)

LEMMA PanelTypes ==
  ASSUME PanelTypeOK
  PROVE  /\ \A k \in Kinds : state[k] \in Nat /\ heard[k] \in Nat
         /\ {"event", "robot_state", "agent_result"} = Kinds
         /\ ros.message # None => ros.message \in Message
         /\ sending # None => sending \in Sending /\ sending.message \in Message
         /\ answers.state # None => answers.state \in SnapshotType
         /\ answers.history # None => answers.history \in Seq(1 .. MaxChanges)
         /\ page.timeline \in Seq(1 .. MaxChanges) /\ page.robot \in Nat /\ page.result \in Nat
         /\ page.loaded \in BOOLEAN /\ gap \in BOOLEAN
  BY PanelConstants DEF PanelTypeOK, Kinds, Sending

LEMMA SnapshotTypes ==
  ASSUME NEW r \in SnapshotType
  PROVE  r.robot \in Nat /\ r.result \in Nat
  BY PanelConstants DEF SnapshotType

LEMMA MessageTypes ==
  ASSUME NEW m \in Message
  PROVE  m.type \in Kinds /\ m.n \in Nat /\ m.n # 0
  BY PanelConstants DEF Message

\* What is behind a number stays so when what is coming keeps coming.
LEMMA AheadKept ==
  ASSUME PanelTypeOK, PanelTypeOK', NEW k \in Kinds, NEW n \in Nat, Ahead(k, n),
         \A v \in Nat : Coming(k, v) => Coming(k, v)',
         \A v \in state[k] + 1 .. state'[k] : Coming(k, v)'
  PROVE  \A v \in n + 1 .. state'[k] : Coming(k, v)'
  <1> SUFFICES ASSUME NEW v \in n + 1 .. state'[k] PROVE Coming(k, v)'
    OBVIOUS
  <1>1. state[k] \in Nat /\ state'[k] \in Nat
    BY PanelTypes, PanelConstants DEF PanelTypeOK
  <1>2. CASE v <= state[k]
    BY <1>1, <1>2 DEF Ahead
  <1>3. CASE ~(v <= state[k])
    BY <1>1, <1>3
  <1>4. QED
    BY <1>2, <1>3

LEMMA CompleteKept ==
  ASSUME PanelTypeOK, PanelTypeOK', NEW list \in Seq(1 .. MaxChanges), Complete(list),
         state["event"] <= state'["event"],
         \A v \in Nat : Coming("event", v) => Coming("event", v)',
         \A v \in state["event"] + 1 .. state'["event"] : Coming("event", v)'
  PROVE  Complete(list)'
  <1>1. state["event"] \in Nat /\ state'["event"] \in Nat
    BY PanelTypes, PanelConstants DEF PanelTypeOK, Kinds
  <1>2. \A i \in DOMAIN list : list[i] \in Nat
    BY PanelConstants
  <1>3. ASSUME NEW v \in Nat \ {0}, v = state'["event"]
        PROVE  Coming("event", v)' \/ \E i \in DOMAIN list : list[i] = v
    <2>1. CASE v = state["event"]
      BY <1>3, <2>1 DEF Complete
    <2>2. CASE v # state["event"]
      BY <1>1, <1>3, <2>2
    <2>3. QED
      BY <2>1, <2>2
  <1>4. ASSUME NEW i \in DOMAIN list, NEW v \in list[i] + 1 .. state'["event"]
        PROVE  Coming("event", v)' \/ \E j \in DOMAIN list : i < j /\ list[j] = v
    <2>1. CASE v <= state["event"]
      BY <1>1, <1>2, <1>4, <2>1 DEF Complete
    <2>2. CASE ~(v <= state["event"])
      BY <1>1, <1>2, <1>4, <2>2
    <2>3. QED
      BY <2>1, <2>2
  <1>5. QED
    BY <1>3, <1>4 DEF Complete

\* A step of the server or the ROS thread that loses nothing.
LEMMA NothingLost ==
  ASSUME PanelInv, PanelTypeOK', UNCHANGED <<socket, answers, page, gap>>,
         \A k \in Kinds : state[k] <= state'[k],
         Open => \A k \in Kinds : \A v \in Nat :
                    /\ Coming(k, v) => Coming(k, v)'
                    /\ v \in state[k] + 1 .. state'[k] => Coming(k, v)'
  PROVE  /\ AnswersCurrent' /\ PageCurrent'
         /\ \A k \in Kinds : \A n \in Nat : Open /\ Ahead(k, n) => Ahead(k, n)'
  <1>1. \A k \in Kinds : state[k] \in Nat /\ state'[k] \in Nat
    BY PanelConstants DEF PanelInv, PanelTypeOK
  <1>2. \A k \in Kinds : \A v \in state[k] + 1 .. state'[k] : v \in Nat
    BY <1>1
  <1>3. ASSUME NEW k \in Kinds, NEW n \in Nat, Open, Ahead(k, n) PROVE Ahead(k, n)'
    BY <1>2, <1>3, AheadKept DEF PanelInv, Ahead
  <1>4. {"event", "robot_state", "agent_result"} = Kinds
    BY DEF Kinds
  <1>5. ASSUME NEW robot \in Nat, NEW result \in Nat, Open, Current(robot, result)
        PROVE  Current(robot, result)'
    <2>1. robot <= state'["robot_state"] /\ result <= state'["agent_result"]
      BY <1>1, <1>4, <1>5 DEF Current
    <2>2. Ahead("robot_state", robot)' /\ Ahead("agent_result", result)'
      BY <1>3, <1>4, <1>5 DEF Current
    <2>3. QED
      BY <2>1, <2>2 DEF Current
  <1>6. ASSUME NEW list \in Seq(1 .. MaxChanges), Open, Complete(list) PROVE Complete(list)'
    <2>1. /\ state["event"] <= state'["event"]
          /\ \A v \in Nat : Coming("event", v) => Coming("event", v)'
          /\ \A v \in state["event"] + 1 .. state'["event"] : Coming("event", v)'
      BY <1>2, <1>4, <1>6
    <2>2. QED
      BY <1>6, <2>1, CompleteKept DEF PanelInv
  <1>7. AnswersCurrent'
    <2>1. PICK a : a = answers
      OBVIOUS
    <2>2. PICK s : s = a.state
      OBVIOUS
    <2>3. PICK h : h = a.history
      OBVIOUS
    <2>4. /\ h # None => h \in Seq(1 .. MaxChanges)
          /\ s # None => s.robot \in Nat /\ s.result \in Nat
      BY <2>1, <2>2, <2>3, PanelTypes, SnapshotTypes DEF PanelInv
    <2>5. /\ answers' = a /\ page' = page /\ gap' = gap /\ Open' = Open
      BY <2>1 DEF Open
    <2>6. ASSUME ~gap, ~page.loaded, s # None PROVE Current(s.robot, s.result)'
      BY <1>5, <2>1, <2>2, <2>4, <2>6 DEF PanelInv, AnswersCurrent
    <2>7. ASSUME ~gap, ~page.loaded, h # None PROVE Complete(h)'
      BY <1>6, <2>1, <2>3, <2>4, <2>7 DEF PanelInv, AnswersCurrent
    <2>8. /\ answers'.state = s /\ answers'.history = h
          /\ answers.state = s /\ answers.history = h
      BY <2>1, <2>2, <2>3
    <2>9. s # None => Current(answers.state.robot, answers.state.result)' = Current(s.robot, s.result)'
      BY <2>8 DEF Current, Ahead
    <2>10. Complete(answers.history)' = Complete(h)'
      BY <2>8 DEF Complete
    <2>11. QED
      BY <2>5, <2>6, <2>7, <2>8, <2>9, <2>10 DEF PanelInv, AnswersCurrent
  <1>8. PageCurrent'
    <2>1. PICK p : p = page
      OBVIOUS
    <2>2. p.timeline \in Seq(1 .. MaxChanges) /\ p.robot \in Nat /\ p.result \in Nat
      BY <2>1, PanelTypes DEF PanelInv
    <2>3. ASSUME ~gap, p.loaded PROVE Current(p.robot, p.result)' /\ Complete(p.timeline)'
      <3>1. Open
        BY <2>1, <2>3 DEF PanelInv, AnswersCurrent
      <3>2. QED
        BY <1>5, <1>6, <2>1, <2>2, <2>3, <3>1 DEF PanelInv, PageCurrent
    <2>4. page' = p /\ page = p /\ gap' = gap
      BY <2>1
    <2>5. Current(page.robot, page.result)' = Current(p.robot, p.result)'
      BY <2>4 DEF Current, Ahead
    <2>6. Complete(page.timeline)' = Complete(p.timeline)'
      BY <2>4 DEF Complete
    <2>7. QED
      BY <2>3, <2>4, <2>5, <2>6 DEF PageCurrent
  <1>9. QED
    BY <1>3, <1>7, <1>8

-----------------------------------------------------------------------------
(* The steps that pass a message on.                                          *)

ServerCovered ==
    \A k \in Kinds : \A n \in Nat : Waiting(k, n) =>
        \A v \in n + 1 .. state[k] : Waiting(k, v) \/ Handing(k, v)

LEMMA Carried ==
  ASSUME PanelInv, PanelTypeOK', UNCHANGED <<state, socket, heard, answers, page, gap>>,
         Connected', InOrder', ServerCovered',
         Open => \A k \in Kinds : \A v \in Nat : Coming(k, v)' <=> Coming(k, v)
  PROVE  PanelInv'
  <1>1. /\ \A k \in Kinds : state[k] \in Nat /\ state[k] <= state'[k]
        /\ \A k \in Kinds : state[k] + 1 .. state'[k] = {}
    BY PanelConstants DEF PanelInv, PanelTypeOK
  <1>2. /\ AnswersCurrent' /\ PageCurrent'
        /\ \A k \in Kinds : \A n \in Nat : Open /\ Ahead(k, n) => Ahead(k, n)'
    BY <1>1, NothingLost
  <1>3. Covered'
    <2>1. Open' = Open /\ \A k \in Kinds : heard'[k] = heard[k]
      BY DEF Open
    <2>2. ASSUME Open, NEW k \in Kinds, NEW n \in Nat, Coming(k, n)' \/ (heard'[k] = n /\ n # 0)
          PROVE  Ahead(k, n)'
      BY <1>2, <2>1, <2>2 DEF PanelInv, Covered
    <2>3. QED
      BY <2>1, <2>2 DEF Covered, ServerCovered
  <1>4. QED
    BY <1>2, <1>3 DEF PanelInv

LEMMA NotifyInv ==
  ASSUME PanelInv, PanelTypeOK', Notify
  PROVE  PanelInv'
  <1>1. PICK m \in Message : m = ros.message
    BY PanelTypes DEF Notify, PanelInv
  <1>2. /\ queue' = Append(queue, m) /\ ros'.message = None /\ queue \in Seq(Message)
        /\ m.type \in Kinds /\ m.n \in Nat /\ ros.message # None
    BY <1>1, MessageTypes DEF Notify, PanelInv, PanelTypeOK
  <1>3. /\ \A k \in Kinds : \A v \in Nat :
             /\ Waiting(k, v)' <=> Waiting(k, v) \/ Handing(k, v)
             /\ ~Handing(k, v)' /\ (OnWire(k, v)' <=> OnWire(k, v))
             /\ InHand(k, v)' <=> InHand(k, v)
        /\ Sends' <=> Sends
    BY <1>1, <1>2, PutMessage
       DEF Notify, Waiting, Handing, OnWire, InHand, Sends
  <1>4. /\ \A v \in Nat : Waiting(m.type, v) => v < m.n
        /\ Handing(m.type, m.n)
    BY <1>1, <1>2 DEF PanelInv, InOrder, Handing, IsMessage
  <1>5. Increasing(queue)' /\ Increasing(wire)'
    BY <1>2, <1>4, PutMessage DEF PanelInv, InOrder, Waiting, Notify, Increasing
  <1>6. UNCHANGED <<state, sending, connections, socket, wire, answers, page, gap, heard>>
    BY DEF Notify
  <1>7. Connected'
    BY <1>6 DEF PanelInv, Connected, Open
  <1>8. \A k \in Kinds : \A v \in Nat : Coming(k, v)' <=> Coming(k, v)
    BY <1>3 DEF Coming
  <1>9. InOrder'
    BY <1>3, <1>5, <1>6, <1>8 DEF PanelInv, InOrder
  <1>10. ServerCovered'
    <2>1. \A k \in Kinds : \A n \in Nat : \A v \in n + 1 .. state[k] : v \in Nat
      BY PanelConstants DEF PanelInv, PanelTypeOK
    <2>2. ASSUME NEW k \in Kinds, NEW n \in Nat, Handing(k, n) PROVE n + 1 .. state[k] = {}
      BY <2>2, PanelTypes DEF PanelInv, InOrder
    <2>3. QED
      BY <1>3, <1>6, <2>1, <2>2 DEF PanelInv, Covered, ServerCovered
  <1>11. QED
    BY <1>6, <1>7, <1>8, <1>9, <1>10, Carried

LEMMA BroadcastInv ==
  ASSUME PanelInv, PanelTypeOK', Broadcast
  PROVE  PanelInv'
  <1>1. PICK m : m = Head(queue)
    OBVIOUS
  <1>2. /\ queue \in Seq(Message) /\ queue # <<>> /\ queue' = Tail(queue)
        /\ m \in Message /\ m.type \in Kinds /\ m.n \in Nat
        /\ sending = None /\ sending' = [message |-> m, todo |-> connections, failed |-> {}]
        /\ connections \subseteq Sockets
    BY <1>1, TakeMessage, MessageTypes DEF Broadcast, PanelInv, PanelTypeOK
  <1>3. sending' # None
    BY <1>2, PanelConstants DEF Sending
  <1>4. UNCHANGED <<state, ros, connections, socket, wire, answers, page, gap, heard>>
    BY DEF Broadcast
  <1>5. /\ \A k \in Kinds : \A v \in Nat :
             /\ Waiting(k, v) <=> IsMessage(m, k, v) \/ Waiting(k, v)'
             /\ Handing(k, v)' <=> Handing(k, v)
             /\ OnWire(k, v)' <=> OnWire(k, v)
             /\ ~InHand(k, v) /\ (InHand(k, v)' <=> IsMessage(m, k, v))
        /\ ~Sends /\ (Sends' <=> socket.number \in connections)
    BY <1>1, <1>2, <1>3, <1>4, TakeMessage
       DEF Waiting, Handing, OnWire, InHand, Sends
  <1>6. /\ \A k \in Kinds : \A v, w \in Nat : IsMessage(m, k, v) /\ Waiting(k, w)' => v < w
        /\ Increasing(queue)' /\ Increasing(wire)'
    BY <1>1, <1>2, <1>4, TakeMessage DEF PanelInv, InOrder, Waiting, IsMessage, Increasing
  <1>7. Connected'
    BY <1>2, <1>3, <1>4 DEF PanelInv, Connected, Open
  <1>8. Open => \A k \in Kinds : \A v \in Nat : Coming(k, v)' <=> Coming(k, v)
    BY <1>5 DEF Coming, PanelInv, Connected
  <1>9. \A k \in Kinds : \A v \in Nat :
          /\ Coming(k, v)' \/ InHand(k, v)' => Coming(k, v)
          /\ OnWire(k, v)' => Coming(k, v)
    BY <1>5 DEF Coming
  <1>10. InOrder'
    BY <1>4, <1>5, <1>6, <1>9 DEF PanelInv, InOrder
  <1>11. ServerCovered'
    <2>1. \A k \in Kinds : \A n \in Nat : \A v \in n + 1 .. state[k] : v \in Nat /\ n < v
      BY PanelConstants DEF PanelInv, PanelTypeOK
    <2>2. SUFFICES ASSUME NEW k \in Kinds, NEW n \in Nat, Waiting(k, n)',
                          NEW v \in n + 1 .. state[k]
                   PROVE  Waiting(k, v)' \/ Handing(k, v)'
      BY <1>4 DEF ServerCovered
    <2>3. v \in Nat /\ n < v /\ (Waiting(k, v) \/ Handing(k, v))
      BY <1>5, <2>1, <2>2 DEF PanelInv, Covered
    <2>4. ~IsMessage(m, k, v)
      BY <1>6, <2>2, <2>3
    <2>5. QED
      BY <1>5, <2>3, <2>4
  <1>12. QED
    BY <1>4, <1>7, <1>8, <1>10, <1>11, Carried

LEMMA SendToInv ==
  ASSUME PanelInv, PanelTypeOK', NEW c \in Sockets, SendTo(c)
  PROVE  PanelInv'
  <1>1. PICK s \in Sending : s = sending
    BY PanelTypes DEF SendTo, PanelInv
  <1>2. PICK m \in Message : m = s.message
    BY <1>1 DEF Sending
  <1>3. m.type \in Kinds /\ m.n \in Nat /\ wire \in Seq(Message) /\ sending # None /\ c \in s.todo
    BY <1>1, MessageTypes DEF SendTo, PanelInv, PanelTypeOK
  <1>4. UNCHANGED <<state, ros, queue, connections, socket, answers, page, gap, heard>>
    BY DEF SendTo
  <1>5. PICK z : z = sending'
    OBVIOUS
  <1>6. z.message = m /\ z.todo = s.todo \ {c} /\ s.failed \subseteq z.failed
    BY <1>1, <1>2, <1>5 DEF SendTo, Sending
  <1>7. z # None
    BY <1>1, <1>5, PanelConstants DEF SendTo, Sending
  <1>8. Sends <=> socket.number \in s.todo
    BY <1>1, <1>3 DEF Sends
  <1>9. Sends' <=> socket.number \in s.todo /\ socket.number # c
    BY <1>4, <1>5, <1>6, <1>7 DEF Sends
  <1>10. \A k \in Kinds : \A v \in Nat :
           /\ Waiting(k, v)' <=> Waiting(k, v)
           /\ Handing(k, v)' <=> Handing(k, v)
           /\ InHand(k, v) <=> IsMessage(m, k, v)
           /\ InHand(k, v)' <=> IsMessage(m, k, v)
    BY <1>1, <1>2, <1>3, <1>4, <1>5, <1>6, <1>7 DEF Waiting, Handing, InHand
  <1>11. ServerCovered'
    <2>1. \A k \in Kinds : \A n \in Nat : \A v \in n + 1 .. state[k] : v \in Nat
      BY PanelConstants DEF PanelInv, PanelTypeOK
    <2>2. QED
      BY <1>4, <1>10, <2>1 DEF ServerCovered, PanelInv, Covered
  <1>12. Connected'
    <2>1. Open' = Open
      BY <1>4 DEF Open
    <2>2. z.failed \subseteq s.failed \cup (IF Live(c) THEN {} ELSE {c})
      BY <1>1, <1>5 DEF SendTo, Sending
    <2>3. c <= socket.number /\ (socket.status = "opening" => c # socket.number)
      BY <1>1, <1>3 DEF PanelInv, Connected
    <2>4. Open => (c = socket.number <=> Live(c))
      BY DEF Open, Live
    <2>5. ~Open => wire' = <<>>
      BY DEF SendTo, Live, Open, PanelInv, Connected
    <2>6. /\ \A b \in z.todo \cup z.failed : b <= socket.number
          /\ Open => socket.number \notin z.failed
          /\ socket.status = "opening" => socket.number \notin z.todo \cup z.failed
      BY <1>1, <1>3, <1>6, <2>2, <2>3, <2>4 DEF PanelInv, Connected
    <2>7. QED
      BY <1>4, <1>5, <2>1, <2>5, <2>6 DEF PanelInv, Connected
  <1>13. CASE Live(c)
    <2>1. wire' = Append(wire, m) /\ c = socket.number /\ Sends /\ ~Sends'
      BY <1>1, <1>2, <1>3, <1>8, <1>9, <1>13 DEF SendTo, Live
    <2>2. \A k \in Kinds : \A v \in Nat : OnWire(k, v)' <=> OnWire(k, v) \/ IsMessage(m, k, v)
      BY <1>3, <2>1, PutMessage DEF OnWire
    <2>3. \A k \in Kinds : \A v \in Nat : Coming(k, v)' <=> Coming(k, v)
      BY <1>10, <2>1, <2>2 DEF Coming
    <2>4. IsMessage(m, m.type, m.n) /\ InHand(m.type, m.n)
      BY <1>3, <1>10 DEF IsMessage
    <2>5. \A v \in Nat : OnWire(m.type, v) => v < m.n
      BY <1>3, <2>1, <2>4 DEF PanelInv, InOrder
    <2>6. Increasing(wire)' /\ Increasing(queue)'
      BY <1>3, <1>4, <2>1, <2>5, PutMessage DEF PanelInv, InOrder, OnWire, Increasing
    <2>7. \A k \in Kinds : \A v \in Nat : IsMessage(m, k, v) <=> k = m.type /\ v = m.n
      BY DEF IsMessage
    <2>8. InOrder'
      BY <1>3, <1>4, <1>10, <2>1, <2>2, <2>3, <2>6, <2>7 DEF PanelInv, InOrder
    <2>9. QED
      BY <1>4, <1>11, <1>12, <2>3, <2>8, Carried
  <1>14. CASE ~Live(c)
    <2>1. wire' = wire
      BY <1>14 DEF SendTo
    <2>2. \A k \in Kinds : \A v \in Nat : OnWire(k, v)' <=> OnWire(k, v)
      BY <2>1 DEF OnWire
    <2>3. Open => (Sends' <=> Sends)
      BY <1>8, <1>9, <1>14 DEF Live, Open
    <2>4. Sends' => Sends
      BY <1>8, <1>9
    <2>5. Open => \A k \in Kinds : \A v \in Nat : Coming(k, v)' <=> Coming(k, v)
      BY <1>10, <2>2, <2>3 DEF Coming
    <2>6. \A k \in Kinds : \A v \in Nat : Coming(k, v)' => Coming(k, v)
      BY <1>10, <2>2, <2>4 DEF Coming
    <2>7. Increasing(wire)' /\ Increasing(queue)'
      BY <1>4, <2>1 DEF PanelInv, InOrder, Increasing
    <2>8. InOrder'
      BY <1>4, <1>10, <2>2, <2>4, <2>6, <2>7 DEF PanelInv, InOrder
    <2>9. QED
      BY <1>4, <1>11, <1>12, <2>5, <2>8, Carried
  <1>15. QED
    BY <1>13, <1>14

LEMMA BroadcastedInv ==
  ASSUME PanelInv, PanelTypeOK', Broadcasted
  PROVE  PanelInv'
  <1>1. /\ sending # None /\ sending.todo = {} /\ sending' = None
        /\ UNCHANGED <<state, ros, queue, socket, wire, answers, page, gap, heard>>
        /\ connections' = connections \ sending.failed
    BY DEF Broadcasted, SentToAll
  <1>2. /\ \A k \in Kinds : \A v \in Nat :
             /\ Waiting(k, v)' <=> Waiting(k, v)
             /\ Handing(k, v)' <=> Handing(k, v)
             /\ OnWire(k, v)' <=> OnWire(k, v)
             /\ ~InHand(k, v)'
        /\ ~Sends /\ ~Sends'
    BY <1>1 DEF Waiting, Handing, OnWire, InHand, Sends
  <1>3. \A k \in Kinds : \A v \in Nat : Coming(k, v)' <=> Coming(k, v)
    BY <1>2 DEF Coming
  <1>4. Increasing(wire)' /\ Increasing(queue)'
    BY <1>1 DEF PanelInv, InOrder, Increasing
  <1>5. InOrder'
    BY <1>1, <1>2, <1>3, <1>4 DEF PanelInv, InOrder
  <1>6. Connected'
    BY <1>1 DEF PanelInv, Connected, Open
  <1>7. ServerCovered'
    <2>1. \A k \in Kinds : \A n \in Nat : \A v \in n + 1 .. state[k] : v \in Nat
      BY PanelConstants DEF PanelInv, PanelTypeOK
    <2>2. QED
      BY <1>1, <1>2, <2>1 DEF ServerCovered, PanelInv, Covered
  <1>8. QED
    BY <1>1, <1>3, <1>5, <1>6, <1>7, Carried

LEMMA DisconnectInv ==
  ASSUME PanelInv, PanelTypeOK', NEW c \in Sockets, Disconnect(c)
  PROVE  PanelInv'
  <1>1. /\ UNCHANGED <<state, ros, queue, sending, socket, wire, answers, page, gap, heard>>
        /\ connections' = connections \ {c} /\ (Open => c # socket.number)
    BY DEF Disconnect, Live, Open
  <1>2. /\ \A k \in Kinds : \A v \in Nat :
             /\ Waiting(k, v)' <=> Waiting(k, v)
             /\ Handing(k, v)' <=> Handing(k, v)
             /\ OnWire(k, v)' <=> OnWire(k, v)
             /\ InHand(k, v)' <=> InHand(k, v)
        /\ Sends' <=> Sends
    BY <1>1 DEF Waiting, Handing, OnWire, InHand, Sends
  <1>3. \A k \in Kinds : \A v \in Nat : Coming(k, v)' <=> Coming(k, v)
    BY <1>2 DEF Coming
  <1>4. Increasing(wire)' /\ Increasing(queue)'
    BY <1>1 DEF PanelInv, InOrder, Increasing
  <1>5. InOrder'
    BY <1>1, <1>2, <1>3, <1>4 DEF PanelInv, InOrder
  <1>6. Connected'
    BY <1>1 DEF PanelInv, Connected, Open
  <1>7. ServerCovered'
    <2>1. \A k \in Kinds : \A n \in Nat : \A v \in n + 1 .. state[k] : v \in Nat
      BY PanelConstants DEF PanelInv, PanelTypeOK
    <2>2. QED
      BY <1>1, <1>2, <2>1 DEF ServerCovered, PanelInv, Covered
  <1>8. QED
    BY <1>1, <1>3, <1>5, <1>6, <1>7, Carried

-----------------------------------------------------------------------------
(* A new change, and the page's socket.                                       *)

LEMMA ChangeInv ==
  ASSUME PanelInv, PanelTypeOK', NEW kind \in Kinds, NEW follows \in BOOLEAN,
         ros.message = None, Change(kind, follows)
  PROVE  PanelInv'
  <1>1. PICK m : m = [type |-> kind, n |-> state[kind] + 1]
    OBVIOUS
  <1>2. /\ ros'.message = m /\ m.type = kind /\ m.n = state[kind] + 1
        /\ UNCHANGED <<queue, sending, connections, socket, wire, answers, page, gap, heard>>
    BY <1>1 DEF Change
  <1>3. /\ \A k \in Kinds : state[k] \in Nat /\ state'[k] \in Nat /\ heard[k] \in Nat
        /\ state'[kind] = state[kind] + 1
        /\ \A k \in Kinds : k # kind => state'[k] = state[k]
    BY PanelConstants DEF Change, PanelInv, PanelTypeOK
  <1>4. m # None
    <2>1. state[kind] + 1 \in 1 .. MaxChanges
      BY <1>3, PanelConstants DEF PanelTypeOK
    <2>2. QED
      BY <1>1, <2>1, PanelConstants DEF Message
  <1>5. /\ \A k \in Kinds : \A v \in Nat :
             /\ Waiting(k, v)' <=> Waiting(k, v)
             /\ ~Handing(k, v) /\ (Handing(k, v)' <=> k = kind /\ v = state[kind] + 1)
             /\ OnWire(k, v)' <=> OnWire(k, v)
             /\ InHand(k, v)' <=> InHand(k, v)
        /\ Sends' <=> Sends
    BY <1>2, <1>4 DEF Waiting, Handing, OnWire, InHand, Sends, IsMessage
  <1>6. \A k \in Kinds : \A v \in Nat :
          Coming(k, v)' <=> Coming(k, v) \/ (k = kind /\ v = state[kind] + 1)
    BY <1>5 DEF Coming
  <1>7. Increasing(wire)' /\ Increasing(queue)'
    BY <1>2 DEF PanelInv, InOrder, Increasing
  <1>8. InOrder'
    <2>1. \A k \in Kinds : heard'[k] <= state'[k]
      BY <1>2, <1>3 DEF PanelInv, InOrder
    <2>2. ASSUME NEW k \in Kinds, NEW v \in Nat
          PROVE  /\ Coming(k, v)' \/ InHand(k, v)' => v <= state'[k]
                 /\ Coming(k, v)' => heard'[k] < v
                 /\ Handing(k, v)' => v = state'[k]
      BY <1>2, <1>3, <1>5, <1>6 DEF PanelInv, InOrder
    <2>3. ASSUME NEW k \in Kinds, NEW v \in Nat, NEW w \in Nat
          PROVE  /\ OnWire(k, v)' /\ InHand(k, w)' => v <= w /\ (Sends' => v < w)
                 /\ (OnWire(k, v) \/ InHand(k, v))' /\ Waiting(k, w)' => v < w
      BY <1>5 DEF PanelInv, InOrder
    <2>4. ASSUME NEW k \in Kinds, NEW v \in Nat, NEW w \in Nat,
                 (OnWire(k, v) \/ InHand(k, v) \/ Waiting(k, v))', Handing(k, w)'
          PROVE  v < w
      <3>1. (Coming(k, v) \/ InHand(k, v)) /\ w = state[k] + 1
        BY <1>5, <2>4 DEF Coming
      <3>2. QED
        BY <1>3, <3>1 DEF PanelInv, InOrder
    <2>5. QED
      BY <1>7, <2>1, <2>2, <2>3, <2>4 DEF InOrder
  <1>9. Connected'
    BY <1>2 DEF PanelInv, Connected, Open
  <1>10. \A k \in Kinds : \A v \in Nat :
           /\ Coming(k, v) => Coming(k, v)'
           /\ v \in state[k] + 1 .. state'[k] => Coming(k, v)'
    BY <1>3, <1>6
  <1>11. /\ AnswersCurrent' /\ PageCurrent'
         /\ \A k \in Kinds : \A n \in Nat : Open /\ Ahead(k, n) => Ahead(k, n)'
    BY <1>2, <1>3, <1>10, NothingLost
  <1>12. Covered'
    <2>1. \A k \in Kinds : \A n \in Nat : \A v \in n + 1 .. state'[k] : v \in Nat
      BY <1>3
    <2>2. ASSUME NEW k \in Kinds, NEW n \in Nat, Waiting(k, n)', NEW v \in n + 1 .. state'[k]
          PROVE  Waiting(k, v)' \/ Handing(k, v)'
      <3>1. Waiting(k, n)
        BY <1>5, <2>2
      <3>2. CASE v <= state[k]
        BY <1>3, <1>5, <2>1, <2>2, <3>1, <3>2 DEF PanelInv, Covered
      <3>3. CASE ~(v <= state[k])
        BY <1>3, <1>5, <2>1, <2>2, <3>3
      <3>4. QED
        BY <3>2, <3>3
    <2>3. ASSUME Open, NEW k \in Kinds, NEW n \in Nat, Coming(k, n)' \/ (heard'[k] = n /\ n # 0)
          PROVE  Ahead(k, n)'
      <3>1. CASE Coming(k, n) \/ (heard[k] = n /\ n # 0)
        BY <1>11, <2>3, <3>1 DEF PanelInv, Covered
      <3>2. CASE ~(Coming(k, n) \/ (heard[k] = n /\ n # 0))
        <4>1. k = kind /\ n = state[kind] + 1
          BY <1>2, <1>6, <2>3, <3>2
        <4>2. \A v \in n + 1 .. state'[k] : FALSE
          BY <1>3, <4>1
        <4>3. QED
          BY <4>2 DEF Ahead
      <3>3. QED
        BY <3>1, <3>2
    <2>4. Open' = Open
      BY <1>2 DEF Open
    <2>5. QED
      BY <2>2, <2>3, <2>4 DEF Covered
  <1>13. QED
    BY <1>8, <1>9, <1>11, <1>12 DEF PanelInv

LEMMA ConnectInv ==
  ASSUME PanelInv, PanelTypeOK', Connect
  PROVE  PanelInv'
  <1>1. /\ socket.status = "opening" /\ socket'.status = "open"
        /\ socket'.number = socket.number /\ connections' = connections \cup {socket.number}
        /\ UNCHANGED <<state, ros, queue, sending, wire, answers, page, gap, heard>>
    BY DEF Connect, PanelInv, PanelTypeOK
  <1>2. ~Open /\ Open' /\ wire = <<>> /\ heard = Nothing /\ ~Sends
    BY <1>1 DEF Open, PanelInv, Connected, Sends
  <1>3. /\ \A k \in Kinds : \A v \in Nat :
             /\ Waiting(k, v)' <=> Waiting(k, v)
             /\ Handing(k, v)' <=> Handing(k, v)
             /\ OnWire(k, v)' <=> OnWire(k, v)
             /\ ~OnWire(k, v)
             /\ InHand(k, v)' <=> InHand(k, v)
        /\ ~Sends'
    BY <1>1, <1>2 DEF Waiting, Handing, OnWire, InHand, Sends, Among
  <1>4. \A k \in Kinds : \A v \in Nat :
          /\ Coming(k, v)' <=> Coming(k, v)
          /\ Coming(k, v) <=> Waiting(k, v) \/ Handing(k, v)
    BY <1>2, <1>3 DEF Coming
  <1>5. Increasing(wire)' /\ Increasing(queue)'
    BY <1>1 DEF PanelInv, InOrder, Increasing
  <1>6. InOrder'
    BY <1>1, <1>3, <1>4, <1>5 DEF PanelInv, InOrder
  <1>7. Connected'
    BY <1>1, <1>2 DEF PanelInv, Connected, Open, PanelTypeOK
  <1>8. Covered'
    <2>1. /\ \A k \in Kinds : \A n \in Nat : \A v \in n + 1 .. state[k] : v \in Nat
          /\ \A k \in Kinds : heard[k] = 0 /\ state[k] \in Nat
      BY <1>2, PanelConstants DEF PanelInv, PanelTypeOK, Nothing
    <2>2. ServerCovered'
      BY <1>1, <1>3, <2>1 DEF ServerCovered, PanelInv, Covered
    <2>3. ASSUME NEW k \in Kinds, NEW n \in Nat, Handing(k, n)
          PROVE  \A v \in n + 1 .. state[k] : FALSE
      BY <2>1, <2>3 DEF PanelInv, InOrder
    <2>4. ASSUME NEW k \in Kinds, NEW n \in Nat, Waiting(k, n) \/ Handing(k, n) PROVE Ahead(k, n)'
      BY <1>1, <1>4, <2>1, <2>3, <2>4 DEF PanelInv, Covered, Ahead
    <2>5. QED
      BY <1>1, <1>4, <2>1, <2>2, <2>4 DEF Covered, ServerCovered
  <1>9. /\ ~gap => answers.state = None /\ answers.history = None /\ ~page.loaded
        /\ page.loaded => answers.state # None /\ answers.history # None
        /\ answers.history # None => Len(answers.history) <= Shown
    BY <1>2 DEF PanelInv, AnswersCurrent
  <1>10. AnswersCurrent' /\ PageCurrent'
    BY <1>1, <1>9 DEF AnswersCurrent, PageCurrent
  <1>11. QED
    BY <1>6, <1>7, <1>8, <1>10 DEF PanelInv

LEMMA OpenSocketInv ==
  ASSUME PanelInv, PanelTypeOK', OpenSocket
  PROVE  PanelInv'
  <1>1. /\ socket.status = "closed" /\ socket'.status = "opening"
        /\ socket'.number = socket.number + 1 /\ socket.number \in Nat
        /\ heard' = Nothing
        /\ UNCHANGED <<state, ros, queue, sending, connections, wire, answers, page, gap>>
    BY DEF OpenSocket, PanelInv, PanelTypeOK
  <1>2. ~Open /\ ~Open' /\ wire = <<>>
    BY <1>1 DEF Open, PanelInv, Connected
  <1>3. ~Sends'
    <2>1. sending # None => sending.todo \subseteq Sockets
      BY PanelTypes DEF PanelInv, Sending
    <2>2. sending # None => socket.number + 1 \notin sending.todo
      BY <1>1, <2>1 DEF PanelInv, Connected, Sockets
    <2>3. QED
      BY <1>1, <2>2 DEF Sends
  <1>4. \A k \in Kinds : \A v \in Nat :
          /\ Waiting(k, v)' <=> Waiting(k, v)
          /\ Handing(k, v)' <=> Handing(k, v)
          /\ OnWire(k, v)' <=> OnWire(k, v)
          /\ ~OnWire(k, v)
          /\ InHand(k, v)' <=> InHand(k, v)
    BY <1>1, <1>2 DEF Waiting, Handing, OnWire, InHand, Among
  <1>5. \A k \in Kinds : \A v \in Nat :
          /\ Coming(k, v)' => Coming(k, v)
          /\ Coming(k, v)' => v # 0
    <2>1. ASSUME NEW k \in Kinds, NEW v \in Nat, Coming(k, v) PROVE v # 0
      <3>1. heard[k] \in Nat /\ heard[k] < v
        BY <2>1, PanelTypes DEF PanelInv, InOrder
      <3>2. QED
        BY <3>1
    <2>2. QED
      BY <1>3, <1>4, <2>1 DEF Coming
  <1>6. Increasing(wire)' /\ Increasing(queue)'
    BY <1>1 DEF PanelInv, InOrder, Increasing
  <1>7. \A k \in Kinds : heard'[k] = 0 /\ state[k] \in Nat
    BY <1>1, PanelTypes DEF Nothing, PanelInv
  <1>8. InOrder'
    BY <1>1, <1>3, <1>4, <1>5, <1>6, <1>7 DEF PanelInv, InOrder
  <1>9. Connected'
    <2>1. /\ \A c \in connections : c \in Int /\ c <= socket.number + 1 /\ c # socket.number + 1
          /\ sending # None => \A c \in sending.todo \cup sending.failed :
               c \in Int /\ c <= socket.number + 1 /\ c # socket.number + 1
      <3>1. sending # None => sending.todo \subseteq Sockets /\ sending.failed \subseteq Sockets
        BY PanelTypes DEF PanelInv, Sending
      <3>2. connections \subseteq Sockets
        BY DEF PanelInv, PanelTypeOK
      <3>3. QED
        BY <1>1, <3>1, <3>2 DEF PanelInv, Connected, Sockets
    <2>2. QED
      BY <1>1, <1>2, <2>1 DEF Connected
  <1>10. Covered'
    <2>1. \A k \in Kinds : \A n \in Nat : \A v \in n + 1 .. state[k] : v \in Nat
      BY <1>7
    <2>2. QED
      BY <1>1, <1>2, <1>4, <2>1 DEF PanelInv, Covered
  <1>11. /\ ~gap => answers.state = None /\ answers.history = None /\ ~page.loaded
         /\ page.loaded => answers.state # None /\ answers.history # None
         /\ answers.history # None => Len(answers.history) <= Shown
    BY <1>2 DEF PanelInv, AnswersCurrent
  <1>12. AnswersCurrent' /\ PageCurrent'
    BY <1>1, <1>11 DEF AnswersCurrent, PageCurrent
  <1>13. QED
    BY <1>8, <1>9, <1>10, <1>12 DEF PanelInv

LEMMA BreakInv ==
  ASSUME PanelInv, PanelTypeOK', Break
  PROVE  PanelInv'
  <1>1. /\ socket'.status = "closed" /\ socket'.number = socket.number
        /\ wire' = <<>> /\ gap' = TRUE
        /\ UNCHANGED <<state, ros, queue, sending, connections, answers, page, heard>>
    BY DEF Break, PanelInv, PanelTypeOK
  <1>2. ~Open'
    BY <1>1 DEF Open
  <1>3. /\ \A k \in Kinds : \A v \in Nat :
             /\ Waiting(k, v)' <=> Waiting(k, v)
             /\ Handing(k, v)' <=> Handing(k, v)
             /\ ~OnWire(k, v)'
             /\ InHand(k, v)' <=> InHand(k, v)
        /\ Sends' <=> Sends
    BY <1>1 DEF Waiting, Handing, OnWire, InHand, Among, Sends
  <1>4. \A k \in Kinds : \A v \in Nat : Coming(k, v)' => Coming(k, v)
    BY <1>3 DEF Coming
  <1>5. Increasing(wire)' /\ Increasing(queue)'
    BY <1>1 DEF PanelInv, InOrder, Increasing
  <1>6. InOrder'
    BY <1>1, <1>3, <1>4, <1>5 DEF PanelInv, InOrder
  <1>7. Connected'
    BY <1>1, <1>2 DEF PanelInv, Connected, Open
  <1>8. Covered'
    <2>1. \A k \in Kinds : \A n \in Nat : \A v \in n + 1 .. state[k] : v \in Nat
      BY PanelConstants DEF PanelInv, PanelTypeOK
    <2>2. QED
      BY <1>1, <1>2, <1>3, <2>1 DEF PanelInv, Covered
  <1>9. AnswersCurrent' /\ PageCurrent'
    BY <1>1 DEF PanelInv, AnswersCurrent, PageCurrent
  <1>10. QED
    BY <1>6, <1>7, <1>8, <1>9 DEF PanelInv

-----------------------------------------------------------------------------
(* The answers to the page, and what it shows.                                *)

LEMMA WayUnchanged ==
  ASSUME PanelInv,
         UNCHANGED <<state, ros, queue, sending, connections, socket, wire, heard>>
  PROVE  /\ Connected' /\ InOrder' /\ Covered'
         /\ \A k \in Kinds : \A v \in Nat : Coming(k, v)' <=> Coming(k, v)
         /\ \A k \in Kinds : \A n \in Nat : Ahead(k, n) => Ahead(k, n)'
         /\ Open' = Open
  <1>1. /\ \A k \in Kinds : \A v \in Nat :
             /\ Waiting(k, v)' <=> Waiting(k, v)
             /\ Handing(k, v)' <=> Handing(k, v)
             /\ OnWire(k, v)' <=> OnWire(k, v)
             /\ InHand(k, v)' <=> InHand(k, v)
        /\ (Sends' <=> Sends) /\ Open' = Open
    BY DEF Waiting, Handing, OnWire, InHand, Sends, Open
  <1>2. \A k \in Kinds : \A v \in Nat : Coming(k, v)' <=> Coming(k, v)
    BY <1>1 DEF Coming
  <1>3. \A k \in Kinds : \A n \in Nat : \A v \in n + 1 .. state[k] : v \in Nat
    BY PanelConstants DEF PanelInv, PanelTypeOK
  <1>4. \A k \in Kinds : \A n \in Nat : Ahead(k, n) => Ahead(k, n)'
    BY <1>2, <1>3 DEF Ahead
  <1>5. InOrder'
    BY <1>1, <1>2 DEF PanelInv, InOrder, Increasing
  <1>6. Connected'
    BY DEF PanelInv, Connected, Open
  <1>7. Covered'
    BY <1>1, <1>2, <1>3, <1>4 DEF PanelInv, Covered
  <1>8. QED
    BY <1>1, <1>2, <1>4, <1>5, <1>6, <1>7

\* In the same state of the way to it, the page lacks what it lacked.
LEMMA StillCurrent ==
  ASSUME PanelInv,
         UNCHANGED <<state, ros, queue, sending, connections, socket, wire, heard>>
  PROVE  /\ \A robot, result \in Nat : Current(robot, result) => Current(robot, result)'
         /\ \A list \in Seq(1 .. MaxChanges) : Complete(list) => Complete(list)'
  <1>1. Kinds = {"event", "robot_state", "agent_result"}
    BY DEF Kinds
  <1>2. \A robot, result \in Nat : Current(robot, result) => Current(robot, result)'
    BY <1>1, WayUnchanged DEF Current
  <1>3. ASSUME NEW list \in Seq(1 .. MaxChanges), Complete(list) PROVE Complete(list)'
    <2>1. \A i \in DOMAIN list : \A v \in list[i] + 1 .. state["event"] : v \in Nat
      <3>1. \A i \in DOMAIN list : list[i] \in Nat
        BY PanelConstants
      <3>2. state["event"] \in Nat
        BY <1>1, PanelTypes DEF PanelInv
      <3>3. QED
        BY <3>1, <3>2
    <2>2. state' = state /\ \A v \in Nat : Coming("event", v) <=> Coming("event", v)'
      BY <1>1, WayUnchanged
    <2>3. QED
      BY <1>3, <2>1, <2>2 DEF Complete
  <1>4. QED
    BY <1>2, <1>3

\* Nothing is missing from an answer when it is given.
LEMMA JustAnswered ==
  ASSUME PanelInv
  PROVE  /\ Current(Snapshot.robot, Snapshot.result)
         /\ Complete(Timeline(state["event"]))
  <1>1. /\ Kinds = {"event", "robot_state", "agent_result"}
        /\ \A k \in Kinds : state[k] \in 0 .. MaxChanges /\ state[k] \in Nat
    BY PanelTypes DEF Kinds, PanelInv, PanelTypeOK
  <1>2. Snapshot.robot = state["robot_state"] /\ Snapshot.result = state["agent_result"]
    BY DEF Snapshot
  <1>3. Current(Snapshot.robot, Snapshot.result)
    BY <1>1, <1>2 DEF Current, Ahead
  <1>4. PICK n \in 0 .. MaxChanges : n = state["event"]
    BY <1>1
  <1>5. PICK t : t = Timeline(n)
    OBVIOUS
  <1>6. t \in Seq(1 .. MaxChanges) /\ (n > 0 => Len(t) > 0) /\ Len(t) \in Nat
    BY <1>5, TimelineIsTheEnd
  <1>7. PICK d \in Nat : n = Len(t) + d /\ \A i \in DOMAIN t : t[i] = i + d
    BY <1>5, TimelineIsTheEnd
  <1>8. DOMAIN t = 1 .. Len(t)
    BY <1>6
  <1>9. ASSUME NEW v \in Nat, v > d, v <= n PROVE v - d \in DOMAIN t /\ t[v - d] = v
    BY <1>6, <1>7, <1>8, <1>9
  <1>10. ASSUME NEW v \in Nat \ {0}, v = n PROVE \E i \in DOMAIN t : t[i] = v
    BY <1>6, <1>7, <1>9, <1>10
  <1>11. ASSUME NEW i \in DOMAIN t, NEW v \in t[i] + 1 .. n
         PROVE  \E j \in DOMAIN t : i < j /\ t[j] = v
    <2>1. t[i] = i + d /\ i \in Nat /\ i > 0 /\ n \in Nat
      BY <1>6, <1>7, <1>8
    <2>2. v \in Nat /\ v > d /\ v <= n /\ i < v - d
      BY <2>1
    <2>3. QED
      BY <1>9, <2>2
  <1>12. QED
    BY <1>3, <1>4, <1>5, <1>10, <1>11 DEF Complete

LEMMA AnswerStateInv ==
  ASSUME PanelInv, PanelTypeOK', AnswerState
  PROVE  PanelInv'
  <1>1. UNCHANGED <<state, ros, queue, sending, connections, socket, wire, page, heard>>
    BY DEF AnswerState
  <1>2. Connected' /\ InOrder' /\ Covered' /\ Open' = Open
    BY <1>1, WayUnchanged
  <1>3. PICK r : r = Snapshot
    OBVIOUS
  <1>4. PICK h : h = answers.history
    OBVIOUS
  <1>5. /\ answers'.state = r /\ answers'.history = h /\ answers.state = None
        /\ (~gap' => ~gap /\ Open)
    BY <1>3, <1>4 DEF AnswerState, Open, PanelInv, PanelTypeOK
  <1>6. Current(r.robot, r.result)
    BY <1>3, JustAnswered
  <1>7. r.robot \in Nat /\ r.result \in Nat
    BY <1>3, PanelTypes DEF Snapshot, PanelInv
  <1>8. Current(r.robot, r.result)'
    BY <1>1, <1>6, <1>7, StillCurrent
  <1>9. h # None => h \in Seq(1 .. MaxChanges)
    BY <1>4, PanelTypes DEF PanelInv
  <1>10. ~gap /\ ~page.loaded /\ h # None => Complete(h)'
    BY <1>1, <1>4, <1>9, StillCurrent DEF PanelInv, AnswersCurrent
  <1>11. Current(answers.state.robot, answers.state.result)' = Current(r.robot, r.result)'
    BY <1>5 DEF Current, Ahead
  <1>12. Complete(answers.history)' = Complete(h)'
    BY <1>5 DEF Complete
  <1>13. ~page.loaded
    BY <1>5 DEF PanelInv, AnswersCurrent
  <1>14. AnswersCurrent' /\ PageCurrent'
    BY <1>1, <1>2, <1>4, <1>5, <1>8, <1>10, <1>11, <1>12, <1>13
       DEF PanelInv, AnswersCurrent, PageCurrent
  <1>15. QED
    BY <1>2, <1>14 DEF PanelInv

LEMMA AnswerHistoryInv ==
  ASSUME PanelInv, PanelTypeOK', AnswerHistory
  PROVE  PanelInv'
  <1>1. UNCHANGED <<state, ros, queue, sending, connections, socket, wire, page, heard>>
    BY DEF AnswerHistory
  <1>2. Connected' /\ InOrder' /\ Covered' /\ Open' = Open
    BY <1>1, WayUnchanged
  <1>3. PICK n \in 0 .. MaxChanges : n = state["event"]
    BY DEF PanelInv, PanelTypeOK, Kinds
  <1>4. PICK h : h = Timeline(n)
    OBVIOUS
  <1>5. PICK s : s = answers.state
    OBVIOUS
  <1>6. h \in Seq(1 .. MaxChanges) /\ Len(h) <= Shown
        /\ SubSeq(h, 1, IF Len(h) < Shown THEN Len(h) ELSE Shown) = h
    BY <1>4, TimelineIsTheEnd
  <1>7. /\ answers'.history = h /\ answers'.state = s /\ answers.history = None
        /\ (~gap' => ~gap /\ Open)
    BY <1>3, <1>4, <1>5, <1>6 DEF AnswerHistory, Open, PanelInv, PanelTypeOK
  <1>8. Complete(h)'
    BY <1>1, <1>3, <1>4, <1>6, JustAnswered, StillCurrent
  <1>9. s # None => s.robot \in Nat /\ s.result \in Nat
    BY <1>5, PanelTypes, SnapshotTypes DEF PanelInv
  <1>10. ~gap /\ ~page.loaded /\ s # None => Current(s.robot, s.result)'
    BY <1>1, <1>5, <1>9, StillCurrent DEF PanelInv, AnswersCurrent
  <1>11. Current(answers.state.robot, answers.state.result)' = Current(s.robot, s.result)'
    BY <1>7 DEF Current, Ahead
  <1>12. Complete(answers.history)' = Complete(h)'
    BY <1>7 DEF Complete
  <1>13. ~page.loaded
    BY <1>7 DEF PanelInv, AnswersCurrent
  <1>14. AnswersCurrent' /\ PageCurrent'
    BY <1>1, <1>2, <1>5, <1>6, <1>7, <1>8, <1>10, <1>11, <1>12, <1>13
       DEF PanelInv, AnswersCurrent, PageCurrent
  <1>15. QED
    BY <1>2, <1>14 DEF PanelInv

LEMMA LoadInv ==
  ASSUME PanelInv, PanelTypeOK', Load
  PROVE  PanelInv'
  <1>1. /\ UNCHANGED <<state, ros, queue, sending, connections, socket, wire, heard>>
        /\ answers' = answers /\ gap' = gap
    BY DEF Load
  <1>2. Connected' /\ InOrder' /\ Covered' /\ Open' = Open
    BY <1>1, WayUnchanged
  <1>3. PICK s : s = answers.state
    OBVIOUS
  <1>4. PICK h : h = answers.history
    OBVIOUS
  <1>5. ~page.loaded /\ s # None /\ h # None /\ s \in SnapshotType /\ h \in Seq(1 .. MaxChanges)
    BY <1>3, <1>4, PanelTypes DEF Load, PanelInv
  <1>6. s.robot \in Nat /\ s.result \in Nat /\ Len(h) <= Shown
    BY <1>3, <1>4, <1>5, SnapshotTypes DEF PanelInv, AnswersCurrent
  <1>7. Cut(h, Shown) = h
    BY <1>6 DEF Cut
  <1>8. page' = [robot |-> s.robot, result |-> s.result, timeline |-> h, loaded |-> TRUE]
    BY <1>3, <1>4, <1>7 DEF Load
  <1>9. ~gap => Current(s.robot, s.result)' /\ Complete(h)'
    <2>1. ~gap => Current(s.robot, s.result) /\ Complete(h)
      BY <1>3, <1>4, <1>5 DEF PanelInv, AnswersCurrent
    <2>2. QED
      BY <1>1, <1>5, <1>6, <2>1, StillCurrent
  <1>10. Current(page.robot, page.result)' = Current(s.robot, s.result)'
    BY <1>8 DEF Current, Ahead
  <1>11. Complete(page.timeline)' = Complete(h)'
    BY <1>8 DEF Complete
  <1>12. page'.loaded
    BY <1>8
  <1>13. AnswersCurrent'
    BY <1>1, <1>2, <1>3, <1>4, <1>5, <1>12 DEF PanelInv, AnswersCurrent
  <1>14. PageCurrent'
    BY <1>1, <1>9, <1>10, <1>11 DEF PageCurrent
  <1>15. QED
    BY <1>2, <1>13, <1>14 DEF PanelInv

-----------------------------------------------------------------------------
(* The page takes a message: the oldest of its kind that was coming.          *)

LEMMA TakenFromTheWire ==
  ASSUME PanelInv, PanelTypeOK', Receive, NEW m, m = Head(wire)
  PROVE  /\ m \in Message /\ m.type \in Kinds /\ m.n \in Nat /\ m.n # 0 /\ Open
         /\ Coming(m.type, m.n) /\ m.n <= state[m.type]
         /\ \A k \in Kinds : \A v \in Nat :
              /\ Coming(k, v) <=> IsMessage(m, k, v) \/ Coming(k, v)'
              /\ Coming(k, v)' /\ k = m.type => m.n < v
         /\ Connected' /\ InOrder' /\ Covered'
         /\ Ahead(m.type, m.n)'
         /\ \A k \in Kinds : \A n \in Nat : k # m.type /\ Ahead(k, n) => Ahead(k, n)'
  <1>1. /\ wire \in Seq(Message) /\ wire # <<>> /\ wire' = Tail(wire)
        /\ UNCHANGED <<state, ros, queue, sending, connections, socket>>
        /\ m \in Message /\ m.type \in Kinds /\ m.n \in Nat /\ m.n # 0
    BY TakeMessage, MessageTypes DEF Receive, PanelInv, PanelTypeOK
  <1>2. Open /\ Open'
    BY <1>1 DEF PanelInv, Connected, Open
  <1>3. /\ heard'[m.type] = m.n
        /\ \A k \in Kinds : k # m.type => heard'[k] = heard[k]
        /\ \A k \in Kinds : state[k] \in Nat /\ heard[k] \in Nat
    BY <1>1, PanelTypes DEF Receive, PanelInv, PanelTypeOK
  <1>4. /\ \A k \in Kinds : \A v \in Nat :
             /\ Waiting(k, v)' <=> Waiting(k, v)
             /\ Handing(k, v)' <=> Handing(k, v)
             /\ OnWire(k, v) <=> IsMessage(m, k, v) \/ OnWire(k, v)'
             /\ InHand(k, v)' <=> InHand(k, v)
        /\ Sends' <=> Sends
    BY <1>1, TakeMessage DEF Waiting, Handing, OnWire, InHand, Sends
  <1>5. \A k \in Kinds : \A v \in Nat : IsMessage(m, k, v) <=> k = m.type /\ v = m.n
    BY DEF IsMessage
  <1>6. /\ Increasing(wire)' /\ Increasing(queue)'
        /\ \A v \in Nat : OnWire(m.type, v)' => m.n < v
    BY <1>1, TakeMessage DEF PanelInv, InOrder, Increasing, OnWire
  <1>7. OnWire(m.type, m.n) /\ Coming(m.type, m.n)
    BY <1>1, <1>4, <1>5 DEF Coming
  <1>8. m.n <= state[m.type]
    BY <1>1, <1>7 DEF PanelInv, InOrder
  <1>9. \A k \in Kinds : \A v \in Nat : Coming(k, v) <=> IsMessage(m, k, v) \/ Coming(k, v)'
    BY <1>4 DEF Coming
  <1>10. ASSUME NEW v \in Nat, Coming(m.type, v)' PROVE m.n < v
    <2>1. CASE OnWire(m.type, v)'
      BY <1>6, <2>1
    <2>2. CASE Sends /\ InHand(m.type, v)
      BY <1>1, <1>7, <2>2 DEF PanelInv, InOrder
    <2>3. CASE Waiting(m.type, v)
      BY <1>1, <1>7, <2>3 DEF PanelInv, InOrder
    <2>4. CASE Handing(m.type, v)
      BY <1>1, <1>7, <2>4 DEF PanelInv, InOrder
    <2>5. QED
      BY <1>1, <1>4, <1>10, <2>1, <2>2, <2>3, <2>4 DEF Coming
  <1>11. InOrder'
    <2>1. \A k \in Kinds : heard'[k] <= state'[k]
      BY <1>1, <1>3, <1>8 DEF PanelInv, InOrder
    <2>2. ASSUME NEW k \in Kinds, NEW v \in Nat
          PROVE  /\ Coming(k, v)' \/ InHand(k, v)' => v <= state'[k]
                 /\ Coming(k, v)' => heard'[k] < v
                 /\ Handing(k, v)' => v = state'[k]
      <3>1. Coming(k, v)' \/ InHand(k, v)' => v <= state'[k]
        BY <1>1, <1>4, <1>9 DEF PanelInv, InOrder
      <3>2. Coming(k, v)' => heard'[k] < v
        <4>1. CASE k = m.type
          BY <1>3, <1>10, <4>1
        <4>2. CASE k # m.type
          BY <1>3, <1>9, <4>2 DEF PanelInv, InOrder
        <4>3. QED
          BY <4>1, <4>2
      <3>3. Handing(k, v)' => v = state'[k]
        BY <1>1, <1>4 DEF PanelInv, InOrder
      <3>4. QED
        BY <3>1, <3>2, <3>3
    <2>3. ASSUME NEW k \in Kinds, NEW v \in Nat, NEW w \in Nat
          PROVE  /\ OnWire(k, v)' /\ InHand(k, w)' => v <= w /\ (Sends' => v < w)
                 /\ (OnWire(k, v) \/ InHand(k, v))' /\ Waiting(k, w)' => v < w
                 /\ (OnWire(k, v) \/ InHand(k, v) \/ Waiting(k, v))' /\ Handing(k, w)' => v < w
      BY <1>4 DEF PanelInv, InOrder
    <2>4. QED
      BY <1>6, <2>1, <2>2, <2>3 DEF InOrder
  <1>12. Connected'
    BY <1>1, <1>2 DEF PanelInv, Connected, Open
  <1>13. \A k \in Kinds : \A n \in Nat : \A v \in n + 1 .. state[k] : v \in Nat /\ n < v
    BY <1>3
  <1>14. ASSUME NEW k \in Kinds, NEW n \in Nat, Ahead(k, n), k = m.type => m.n <= n
         PROVE  Ahead(k, n)'
    <2> SUFFICES ASSUME NEW v \in n + 1 .. state[k] PROVE Coming(k, v)'
      BY <1>1 DEF Ahead
    <2>1. v \in Nat /\ n < v /\ Coming(k, v)
      BY <1>13, <1>14 DEF Ahead
    <2>2. ~IsMessage(m, k, v)
      BY <1>1, <1>5, <1>14, <2>1
    <2>3. QED
      BY <1>9, <2>1, <2>2
  <1>15. Ahead(m.type, m.n)'
    BY <1>1, <1>2, <1>7, <1>14 DEF PanelInv, Covered
  <1>16. Covered'
    <2>1. ServerCovered'
      BY <1>1, <1>4, <1>13 DEF PanelInv, Covered, ServerCovered
    <2>2. ASSUME NEW k \in Kinds, NEW n \in Nat, Coming(k, n)' \/ (heard'[k] = n /\ n # 0)
          PROVE  Ahead(k, n)'
      <3>1. CASE Coming(k, n)'
        BY <1>1, <1>2, <1>9, <1>10, <1>14, <3>1 DEF PanelInv, Covered
      <3>2. CASE heard'[k] = n /\ n # 0 /\ k = m.type
        BY <1>3, <1>15, <3>2
      <3>3. CASE heard'[k] = n /\ n # 0 /\ k # m.type
        BY <1>2, <1>3, <1>14, <3>3 DEF PanelInv, Covered
      <3>4. QED
        BY <2>2, <3>1, <3>2, <3>3
    <2>3. QED
      BY <2>1, <2>2 DEF Covered, ServerCovered
  <1>17. \A k \in Kinds : \A n \in Nat : k # m.type /\ Ahead(k, n) => Ahead(k, n)'
    BY <1>14
  <1>18. QED
    BY <1>1, <1>2, <1>7, <1>8, <1>9, <1>10, <1>11, <1>12, <1>15, <1>16, <1>17

\* The list with one more event lacks nothing but what is coming: what falls off
\* its front had no need to be there.
LEMMA LongerIsComplete ==
  ASSUME PanelInv, PanelTypeOK', Receive, NEW m, m = Head(wire), m.type = "event",
         NEW list \in Seq(1 .. MaxChanges), Complete(list),
         NEW q, q = Cut(Append(list, m.n), Shown)
  PROVE  Complete(q)'
  <1>1. /\ m \in Message /\ m.n \in Nat /\ m.n # 0 /\ m.n <= state["event"]
        /\ \A v \in Nat : Coming("event", v) => v = m.n \/ Coming("event", v)'
        /\ Ahead("event", m.n)' /\ state' = state
    BY TakenFromTheWire DEF IsMessage, Receive, Kinds
  <1>2. m.n \in 1 .. MaxChanges /\ state["event"] \in Nat
    BY <1>1, PanelTypes DEF Message, PanelInv
  <1>3. PICK a : a = Append(list, m.n)
    OBVIOUS
  <1>4. /\ a \in Seq(1 .. MaxChanges) /\ Len(a) = Len(list) + 1 /\ a[Len(a)] = m.n
        /\ \A i \in 1 .. Len(list) : a[i] = list[i]
    BY <1>2, <1>3
  <1>5. /\ DOMAIN list = 1 .. Len(list) /\ Len(list) \in Nat
        /\ \A i \in DOMAIN list : list[i] \in Nat
    BY PanelConstants
  <1>6. q \in Seq(1 .. MaxChanges) /\ IsEndOf(q, a) /\ Len(q) > 0
    <2>1. Shown \in Nat \ {0}
      BY PanelConstants
    <2>2. Len(a) > 0
      BY <1>4, <1>5
    <2>3. QED
      BY <1>3, <1>4, <2>1, <2>2, CutIsTheEnd
  <1>7. PICK d \in Nat : Len(a) = Len(q) + d /\ \A i \in DOMAIN q : q[i] = a[i + d]
    BY <1>6 DEF IsEndOf
  <1>8. DOMAIN q = 1 .. Len(q) /\ Len(q) \in Nat
    BY <1>6
  <1>9. Len(q) \in DOMAIN q /\ q[Len(q)] = m.n
    BY <1>4, <1>6, <1>7, <1>8
  <1>10. ASSUME NEW v \in m.n + 1 .. state["event"] PROVE Coming("event", v)'
    BY <1>1 DEF Ahead
  <1>11. ASSUME NEW v \in Nat \ {0}, v = state["event"]
         PROVE  Coming("event", v)' \/ \E i \in DOMAIN q : q[i] = v
    BY <1>1, <1>9, <1>10, <1>11
  <1>12. ASSUME NEW i \in DOMAIN q, NEW v \in q[i] + 1 .. state["event"]
         PROVE  Coming("event", v)' \/ \E j \in DOMAIN q : i < j /\ q[j] = v
    <2>1. CASE i = Len(q)
      BY <1>9, <1>10, <2>1
    <2>2. CASE i # Len(q)
      <3>1. /\ i \in Nat /\ i < Len(q) /\ i + d \in DOMAIN list /\ q[i] = list[i + d]
            /\ v \in Nat
        BY <1>2, <1>4, <1>5, <1>7, <1>8, <2>2
      <3>2. Coming("event", v) \/ \E j \in DOMAIN list : i + d < j /\ list[j] = v
        BY <3>1 DEF Complete
      <3>3. CASE Coming("event", v)
        BY <1>1, <1>9, <3>1, <3>3
      <3>4. ASSUME NEW j \in DOMAIN list, i + d < j, list[j] = v
            PROVE  \E l \in DOMAIN q : i < l /\ q[l] = v
        <4>1. PICK l : l = j - d
          OBVIOUS
        <4>2. j \in 1 .. Len(list) /\ a[j] = v /\ Len(list) + 1 = Len(q) + d
          BY <1>4, <1>5, <1>7, <3>4
        <4>3. l \in 1 .. Len(q) /\ i < l /\ l + d = j
          BY <1>5, <1>8, <3>1, <3>4, <4>1, <4>2
        <4>4. QED
          BY <1>7, <1>8, <4>2, <4>3
      <3>5. QED
        BY <3>2, <3>3, <3>4
    <2>3. QED
      BY <2>1, <2>2
  <1>13. QED
    BY <1>1, <1>11, <1>12 DEF Complete

LEMMA ReceiveInv ==
  ASSUME PanelInv, PanelTypeOK', Receive
  PROVE  PanelInv'
  <1>1. PICK m : m = Head(wire)
    OBVIOUS
  <1>2. /\ m \in Message /\ m.type \in Kinds /\ m.n \in Nat /\ Open
        /\ Connected' /\ InOrder' /\ Covered' /\ m.n <= state[m.type]
        /\ Ahead(m.type, m.n)'
        /\ \A k \in Kinds : \A n \in Nat : k # m.type /\ Ahead(k, n) => Ahead(k, n)'
        /\ \A k \in Kinds : \A v \in Nat : Coming(k, v) => IsMessage(m, k, v) \/ Coming(k, v)'
    BY <1>1, TakenFromTheWire
  <1>3. PICK p : p = page
    OBVIOUS
  <1>4. PICK p2 : p2 = page'
    OBVIOUS
  <1>5. /\ p2 = Reduce(m) /\ gap' = (gap \/ WipedOut(m))
        /\ UNCHANGED <<state, ros, queue, sending, connections, socket, answers>>
    BY <1>1, <1>4 DEF Receive
  <1>6. p \in [robot : 0 .. MaxChanges, result : 0 .. MaxChanges,
               timeline : Seq(1 .. MaxChanges), loaded : BOOLEAN]
    BY <1>3 DEF PanelInv, PanelTypeOK
  <1>7. p.robot \in Nat /\ p.result \in Nat /\ p.timeline \in Seq(1 .. MaxChanges)
    BY <1>6, PanelConstants
  <1>8. /\ p2.loaded = p.loaded
        /\ m.type = "event" =>
             /\ p2.robot = p.robot /\ p2.result = p.result
             /\ p2.timeline = Cut(Append(p.timeline, m.n), Shown)
        /\ m.type = "robot_state" =>
             p2.robot = m.n /\ p2.result = p.result /\ p2.timeline = p.timeline
        /\ m.type = "agent_result" =>
             p2.robot = p.robot /\ p2.result = m.n /\ p2.timeline = p.timeline
    BY <1>2, <1>3, <1>5, <1>6 DEF Reduce, Kinds
  <1>9. Kinds = {"event", "robot_state", "agent_result"}
    BY DEF Kinds
  <1>10. ASSUME m.type # "event", NEW list \in Seq(1 .. MaxChanges), Complete(list)
         PROVE  Complete(list)'
    <2>1. \A v \in Nat : Coming("event", v) => Coming("event", v)'
      BY <1>2, <1>9, <1>10 DEF IsMessage
    <2>2. state'["event"] = state["event"] /\ state["event"] \in Nat
      BY <1>5, <1>9, PanelTypes DEF PanelInv
    <2>3. \A v \in state["event"] + 1 .. state'["event"] : FALSE
      BY <2>2
    <2>4. QED
      BY <1>10, <2>1, <2>2, <2>3, CompleteKept DEF PanelInv
  <1>11. PICK a : a = answers
    OBVIOUS
  <1>12. answers' = a /\ Open' = Open
    BY <1>5, <1>11 DEF Open
  <1>13. /\ a.history # None => a.history \in Seq(1 .. MaxChanges)
         /\ a.state # None => a.state.robot \in Nat /\ a.state.result \in Nat
    BY <1>11, PanelTypes, SnapshotTypes DEF PanelInv
  <1>14. AnswersCurrent'
    <2>1. ASSUME ~gap', ~p.loaded, a.state # None
          PROVE  Current(a.state.robot, a.state.result)'
      <3>1. m.type = "event" /\ Current(a.state.robot, a.state.result)
        BY <1>3, <1>5, <1>11, <2>1 DEF WipedOut, PanelInv, AnswersCurrent
      <3>2. QED
        BY <1>2, <1>5, <1>9, <1>13, <2>1, <3>1 DEF Current
    <2>2. ASSUME ~gap', ~p.loaded, a.history # None
          PROVE  Complete(a.history)'
      <3>1. m.type # "event" /\ Complete(a.history)
        BY <1>3, <1>5, <1>11, <2>2 DEF WipedOut, PanelInv, AnswersCurrent
      <3>2. QED
        BY <1>10, <1>13, <2>2, <3>1
    <2>3. Current(answers.state.robot, answers.state.result)' = Current(a.state.robot, a.state.result)'
      BY <1>12 DEF Current, Ahead
    <2>4. Complete(answers.history)' = Complete(a.history)'
      BY <1>12 DEF Complete
    <2>5. ~gap' => ~gap
      BY <1>5
    <2>6. page'.loaded = p.loaded /\ page.loaded = p.loaded
      BY <1>3, <1>4, <1>8
    <2>7. QED
      BY <1>2, <1>11, <1>12, <2>1, <2>2, <2>3, <2>4, <2>5, <2>6 DEF PanelInv, AnswersCurrent
  <1>15. PageCurrent'
    <2>1. ASSUME ~gap', p2.loaded
          PROVE  Current(p2.robot, p2.result)' /\ Complete(p2.timeline)'
      <3>1. Current(p.robot, p.result) /\ Complete(p.timeline)
        BY <1>3, <1>5, <1>8, <2>1 DEF PanelInv, PageCurrent
      <3>2. CASE m.type = "event"
        <4>1. Complete(p2.timeline)'
          BY <1>1, <1>7, <1>8, <3>1, <3>2, LongerIsComplete
        <4>2. Current(p.robot, p.result)'
          BY <1>2, <1>5, <1>7, <1>9, <3>1, <3>2 DEF Current
        <4>3. Current(p2.robot, p2.result)'
          BY <1>8, <3>2, <4>2
        <4>4. QED
          BY <4>1, <4>3
      <3>3. CASE m.type = "robot_state"
        <4>1. Current(m.n, p.result)'
          BY <1>2, <1>5, <1>7, <1>9, <3>1, <3>3 DEF Current
        <4>2. Complete(p.timeline)'
          BY <1>7, <1>10, <3>1, <3>3
        <4>3. QED
          BY <1>8, <3>3, <4>1, <4>2
      <3>4. CASE m.type = "agent_result"
        <4>1. Current(p.robot, m.n)'
          BY <1>2, <1>5, <1>7, <1>9, <3>1, <3>4 DEF Current
        <4>2. Complete(p.timeline)'
          BY <1>7, <1>10, <3>1, <3>4
        <4>3. QED
          BY <1>8, <3>4, <4>1, <4>2
      <3>5. QED
        BY <1>2, <1>9, <3>2, <3>3, <3>4
    <2>2. Current(page.robot, page.result)' = Current(p2.robot, p2.result)'
      BY <1>4 DEF Current, Ahead
    <2>3. Complete(page.timeline)' = Complete(p2.timeline)'
      BY <1>4 DEF Complete
    <2>4. QED
      BY <1>4, <2>1, <2>2, <2>3 DEF PageCurrent
  <1>16. QED
    BY <1>2, <1>14, <1>15 DEF PanelInv

-----------------------------------------------------------------------------
(* Types, and the theorems.                                                   *)

LEMMA ChangeTypes ==
  ASSUME PanelTypeOK, NEW kind \in Kinds, NEW follows \in BOOLEAN, Change(kind, follows)
  PROVE  PanelTypeOK'
  <1>1. state[kind] + 1 \in 1 .. MaxChanges
    <2>1. state["event"] + state["robot_state"] + state["agent_result"] < MaxChanges
      BY DEF Change
    <2>2. /\ state["event"] \in Nat /\ state["robot_state"] \in Nat
          /\ state["agent_result"] \in Nat
      BY PanelTypes
    <2>3. kind \in {"event", "robot_state", "agent_result"}
      BY DEF Kinds
    <2>4. QED
      BY <2>1, <2>2, <2>3, PanelConstants
  <1>2. [type |-> kind, n |-> state[kind] + 1] \in Message
    BY <1>1 DEF Message
  <1>3. ros' \in [message : Message \cup {None}, result : BOOLEAN]
    BY <1>2 DEF Change
  <1>4. state' \in [Kinds -> 0 .. MaxChanges]
    <2>1. state \in [Kinds -> 0 .. MaxChanges] /\ state[kind] + 1 \in 0 .. MaxChanges
      BY <1>1, PanelConstants DEF PanelTypeOK
    <2>2. state' = [state EXCEPT ![kind] = state[kind] + 1]
      BY DEF Change
    <2>3. QED
      BY <2>1, <2>2
  <1>5. QED
    BY <1>3, <1>4 DEF Change, PanelTypeOK

LEMMA ServerTypes ==
  ASSUME PanelTypeOK, Notify \/ Broadcast \/ Broadcasted \/ \E c \in Sockets : SendTo(c)
  PROVE  PanelTypeOK'
  <1>1. CASE Notify
    <2>1. ros.message \in Message
      BY <1>1, PanelTypes DEF Notify
    <2>2. queue' \in Seq(Message)
      BY <1>1, <2>1 DEF Notify, PanelTypeOK
    <2>3. ros' \in [message : Message \cup {None}, result : BOOLEAN]
      BY <1>1 DEF Notify, PanelTypeOK
    <2>4. QED
      BY <1>1, <2>2, <2>3 DEF Notify, PanelTypeOK
  <1>2. CASE Broadcast
    <2>1. Head(queue) \in Message /\ queue' \in Seq(Message)
      BY <1>2, TakeMessage DEF Broadcast, PanelTypeOK
    <2>2. sending' \in Sending
      BY <1>2, <2>1 DEF Broadcast, PanelTypeOK, Sending
    <2>3. QED
      BY <1>2, <2>1, <2>2 DEF Broadcast, PanelTypeOK
  <1>3. CASE Broadcasted
    BY <1>3 DEF Broadcasted, PanelTypeOK
  <1>4. ASSUME NEW c \in Sockets, SendTo(c) PROVE PanelTypeOK'
    <2>1. sending \in Sending /\ sending.message \in Message
      BY <1>4, PanelTypes DEF SendTo
    <2>2. sending' \in Sending
      BY <1>4, <2>1 DEF SendTo, Sending
    <2>3. wire' \in Seq(Message)
      <3>1. PICK m \in Message : m = sending.message
        BY <2>1
      <3>2. wire \in Seq(Message) /\ (wire' = Append(wire, m) \/ wire' = wire)
        BY <1>4, <3>1 DEF SendTo, PanelTypeOK
      <3>3. QED
        BY <3>2
    <2>4. QED
      BY <1>4, <2>2, <2>3 DEF SendTo, PanelTypeOK
  <1>5. QED
    BY <1>1, <1>2, <1>3, <1>4

LEMMA SocketTypes ==
  ASSUME PanelTypeOK, Connected,
         Connect \/ OpenSocket \/ Break \/ \E c \in Sockets : Disconnect(c)
  PROVE  PanelTypeOK'
  <1>1. socket.number \in 0 .. MaxSockets /\ MaxSockets \in Nat
    BY PanelConstants DEF PanelTypeOK
  <1>2. CASE Connect
    <2>1. socket.number \in Sockets
      BY <1>1, <1>2 DEF Connect, Connected, Sockets
    <2>2. socket' \in [number : 0 .. MaxSockets, status : {"opening", "open", "closed"}]
      BY <1>2 DEF Connect, PanelTypeOK
    <2>3. QED
      BY <1>2, <2>1, <2>2 DEF Connect, PanelTypeOK
  <1>3. CASE OpenSocket
    <2>1. heard' \in [Kinds -> 0 .. MaxChanges]
      BY <1>3, PanelConstants DEF OpenSocket, Nothing
    <2>2. socket' \in [number : 0 .. MaxSockets, status : {"opening", "open", "closed"}]
      BY <1>1, <1>3 DEF OpenSocket
    <2>3. QED
      BY <1>3, <2>1, <2>2 DEF OpenSocket, PanelTypeOK
  <1>4. CASE Break
    <2>1. socket' \in [number : 0 .. MaxSockets, status : {"opening", "open", "closed"}]
      BY <1>4 DEF Break, PanelTypeOK
    <2>2. wire' \in Seq(Message) /\ gap' \in BOOLEAN
      BY <1>4, EmptySeq DEF Break
    <2>3. QED
      BY <1>4, <2>1, <2>2 DEF Break, PanelTypeOK
  <1>5. ASSUME NEW c \in Sockets, Disconnect(c) PROVE PanelTypeOK'
    BY <1>5 DEF Disconnect, PanelTypeOK
  <1>6. QED
    BY <1>2, <1>3, <1>4, <1>5

LEMMA PageTypes ==
  ASSUME PanelTypeOK, AnswerState \/ AnswerHistory \/ Receive \/ Load
  PROVE  PanelTypeOK'
  <1>1. CASE AnswerState
    <2>1. Snapshot \in SnapshotType
      BY DEF Snapshot, SnapshotType, PanelTypeOK, Kinds
    <2>2. QED
      BY <1>1, <2>1 DEF AnswerState, PanelTypeOK
  <1>2. CASE AnswerHistory
    <2>1. PICK n \in 0 .. MaxChanges : n = state["event"]
      BY DEF PanelTypeOK, Kinds
    <2>2. PICK h : h = Timeline(n)
      OBVIOUS
    <2>3. h \in Seq(1 .. MaxChanges)
          /\ SubSeq(h, 1, IF Len(h) < Shown THEN Len(h) ELSE Shown) = h
      BY <2>2, TimelineIsTheEnd
    <2>4. answers' = [answers EXCEPT !.history = h]
      BY <1>2, <2>1, <2>2, <2>3 DEF AnswerHistory
    <2>5. QED
      BY <1>2, <2>3, <2>4 DEF AnswerHistory, PanelTypeOK
  <1>3. CASE Receive
    <2>1. PICK m \in Message : m = Head(wire)
      BY <1>3, TakeMessage DEF Receive, PanelTypeOK
    <2>2. m.type \in Kinds /\ m.n \in 1 .. MaxChanges
      BY DEF Message
    <2>3. PICK t : t = Cut(Append(page.timeline, m.n), Shown)
      OBVIOUS
    <2>4. t \in Seq(1 .. MaxChanges) /\ Len(t) <= Shown
      <3>1. PICK a : a = Append(page.timeline, m.n)
        OBVIOUS
      <3>2. a \in Seq(1 .. MaxChanges)
        BY <2>2, <3>1, PanelTypes
      <3>3. Shown \in Nat \ {0}
        BY PanelConstants
      <3>4. QED
        BY <2>3, <3>1, <3>2, <3>3, CutIsTheEnd
    <2>5. /\ page' \in [robot : 0 .. MaxChanges, result : 0 .. MaxChanges,
                       timeline : Seq(1 .. MaxChanges), loaded : BOOLEAN]
          /\ Len(page'.timeline) <= Shown
      <3>1. page' = Reduce(m) /\ m.n \in 0 .. MaxChanges
        BY <1>3, <2>1, <2>2, PanelConstants DEF Receive
      <3>2. CASE m.type = "event"
        BY <2>3, <2>4, <3>1, <3>2 DEF Reduce, PanelTypeOK
      <3>3. CASE m.type = "robot_state"
        BY <3>1, <3>3 DEF Reduce, PanelTypeOK
      <3>4. CASE m.type = "agent_result"
        BY <3>1, <3>4 DEF Reduce, PanelTypeOK
      <3>5. QED
        BY <2>2, <3>2, <3>3, <3>4 DEF Kinds
    <2>6. wire' \in Seq(Message)
      BY <1>3, TakeMessage DEF Receive, PanelTypeOK
    <2>7. heard' \in [Kinds -> 0 .. MaxChanges]
      BY <1>3, <2>1, <2>2, PanelConstants DEF Receive, PanelTypeOK
    <2>8. gap' \in BOOLEAN
      BY <1>3 DEF Receive
    <2>9. QED
      BY <1>3, <2>5, <2>6, <2>7, <2>8 DEF Receive, PanelTypeOK
  <1>4. CASE Load
    <2>1. PICK s \in SnapshotType : s = answers.state
      BY <1>4, PanelTypes DEF Load
    <2>2. PICK h \in Seq(1 .. MaxChanges) : h = answers.history
      BY <1>4, PanelTypes DEF Load
    <2>3. PICK t : t = Cut(h, Shown)
      OBVIOUS
    <2>4. t \in Seq(1 .. MaxChanges) /\ Len(t) <= Shown
      <3>1. Shown \in Nat \ {0}
        BY PanelConstants
      <3>2. QED
        BY <2>3, <3>1, CutIsTheEnd
    <2>5. page' = [robot |-> s.robot, result |-> s.result, timeline |-> t, loaded |-> TRUE]
      BY <1>4, <2>1, <2>2, <2>3 DEF Load
    <2>6. /\ page' \in [robot : 0 .. MaxChanges, result : 0 .. MaxChanges,
                       timeline : Seq(1 .. MaxChanges), loaded : BOOLEAN]
          /\ Len(page'.timeline) <= Shown
      BY <2>1, <2>4, <2>5 DEF SnapshotType
    <2>7. QED
      BY <1>4, <2>6 DEF Load, PanelTypeOK
  <1>5. QED
    BY <1>1, <1>2, <1>3, <1>4

LEMMA InitPanelInv ==
  ASSUME PanelInit
  PROVE  PanelInv
  <1>1. PanelTypeOK
    <2>1. 0 \in 0 .. MaxChanges /\ 0 \in 0 .. MaxSockets
          /\ Nothing \in [Kinds -> 0 .. MaxChanges]
      BY PanelConstants DEF Nothing
    <2>2. <<>> \in Seq(Message) /\ <<>> \in Seq(1 .. MaxChanges) /\ Len(<<>>) <= Shown
      BY PanelConstants, EmptySeq
    <2>3. /\ page \in [robot : 0 .. MaxChanges, result : 0 .. MaxChanges,
                      timeline : Seq(1 .. MaxChanges), loaded : BOOLEAN]
          /\ Len(page.timeline) <= Shown
      BY <2>1, <2>2 DEF PanelInit
    <2>4. QED
      BY <2>1, <2>2, <2>3 DEF PanelInit, PanelTypeOK
  <1>2. /\ \A k \in Kinds : \A v \in Nat :
             /\ ~Waiting(k, v) /\ ~Handing(k, v) /\ ~OnWire(k, v) /\ ~InHand(k, v)
             /\ ~Coming(k, v)
        /\ ~Open
    BY DEF PanelInit, Waiting, Handing, OnWire, InHand, Among, Coming, Open
  <1>3. InOrder
    <2>1. Increasing(queue) /\ Increasing(wire)
      BY DEF PanelInit, Increasing
    <2>2. \A k \in Kinds : heard[k] <= state[k]
      BY DEF PanelInit, Nothing
    <2>3. QED
      BY <1>2, <2>1, <2>2 DEF InOrder
  <1>4. Connected
    BY DEF PanelInit, Connected, Open
  <1>5. Covered
    BY <1>2 DEF Covered
  <1>6. AnswersCurrent /\ PageCurrent
    BY DEF PanelInit, AnswersCurrent, PageCurrent
  <1>7. QED
    BY <1>1, <1>3, <1>4, <1>5, <1>6 DEF PanelInv

LEMMA NextPanelInv ==
  ASSUME PanelInv, [PanelNext]_panelVars
  PROVE  PanelInv'
  <1>1. ASSUME NEW kind \in Kinds, NEW follows \in BOOLEAN, ros.message = None,
               Change(kind, follows)
        PROVE  PanelInv'
    BY <1>1, ChangeTypes, ChangeInv DEF PanelInv
  <1>2. ASSUME NEW follows \in BOOLEAN, PushEvent(follows) PROVE PanelInv'
    BY <1>1, <1>2 DEF PushEvent, Idle, Kinds
  <1>3. CASE SetRobotState
    BY <1>1, <1>3 DEF SetRobotState, Idle, Kinds
  <1>4. CASE SetAgentResult
    BY <1>1, <1>4 DEF SetAgentResult, Kinds
  <1>5. CASE Notify
    BY <1>5, ServerTypes, NotifyInv DEF PanelInv
  <1>6. CASE Broadcast
    BY <1>6, ServerTypes, BroadcastInv DEF PanelInv
  <1>7. ASSUME NEW c \in Sockets, SendTo(c) PROVE PanelInv'
    BY <1>7, ServerTypes, SendToInv DEF PanelInv
  <1>8. CASE Broadcasted
    BY <1>8, ServerTypes, BroadcastedInv DEF PanelInv
  <1>9. CASE Connect
    BY <1>9, SocketTypes, ConnectInv DEF PanelInv
  <1>10. ASSUME NEW c \in Sockets, Disconnect(c) PROVE PanelInv'
    BY <1>10, SocketTypes, DisconnectInv DEF PanelInv
  <1>11. CASE AnswerState
    BY <1>11, PageTypes, AnswerStateInv DEF PanelInv
  <1>12. CASE AnswerHistory
    BY <1>12, PageTypes, AnswerHistoryInv DEF PanelInv
  <1>13. CASE OpenSocket
    BY <1>13, SocketTypes, OpenSocketInv DEF PanelInv
  <1>14. CASE Break
    BY <1>14, SocketTypes, BreakInv DEF PanelInv
  <1>15. CASE Receive
    BY <1>15, PageTypes, ReceiveInv DEF PanelInv
  <1>16. CASE Load
    BY <1>16, PageTypes, LoadInv DEF PanelInv
  <1>17. CASE UNCHANGED panelVars
    <2>1. UNCHANGED <<state, ros, queue, sending, connections, socket, wire, answers,
                      page, gap, heard>>
      BY <1>17 DEF panelVars
    <2>2. PanelTypeOK'
      BY <2>1 DEF PanelInv, PanelTypeOK
    <2>3. Connected' /\ InOrder' /\ Covered'
      BY <2>1, WayUnchanged
    <2>4. AnswersCurrent' /\ PageCurrent'
      <3>1. \A k \in Kinds : state[k] <= state'[k]
        BY <2>1, PanelTypes DEF PanelInv
      <3>2. \A k \in Kinds : \A v \in Nat : Coming(k, v)' <=> Coming(k, v)
        BY <2>1, WayUnchanged
      <3>3. \A k \in Kinds : \A v \in state[k] + 1 .. state'[k] : FALSE
        BY <2>1, PanelTypes DEF PanelInv
      <3>4. QED
        BY <2>1, <2>2, <3>1, <3>2, <3>3, NothingLost
    <2>5. QED
      BY <2>2, <2>3, <2>4 DEF PanelInv
  <1>18. QED
    BY <1>2, <1>3, <1>4, <1>5, <1>6, <1>7, <1>8, <1>9, <1>10, <1>11, <1>12, <1>13,
       <1>14, <1>15, <1>16, <1>17 DEF PanelNext

LEMMA PanelInvariant == PanelSpec => []PanelInv
  <1>1. PanelInit => PanelInv
    BY InitPanelInv
  <1>2. PanelInv /\ [PanelNext]_panelVars => PanelInv'
    BY NextPanelInv
  <1>3. QED
    BY <1>1, <1>2, PTL DEF PanelSpec

\* The parts of the panel keep to their types: in particular, the page's list is
\* never longer than it may be (App.tsx, reducer).
THEOREM PanelTypesOK == PanelSpec => []PanelTypeOK
  <1>1. PanelInv => PanelTypeOK
    BY DEF PanelInv
  <1>2. QED
    BY <1>1, PanelInvariant, PTL

\* A page that missed nothing and has nothing more on the way to it shows what
\* the server has, and no event is left out between those it shows
\* (ros_node.py, server.py, ws.py, App.tsx).
THEOREM PanelQuietMeansCurrent == PanelSpec => []QuietMeansCurrent
  <1>1. PanelInv => QuietMeansCurrent
    <2> SUFFICES ASSUME PanelInv, page.loaded, ~gap, ~OnTheWay
                 PROVE  /\ page.robot = state["robot_state"]
                        /\ page.result = state["agent_result"]
                        /\ LET shown == ToSet(page.timeline)
                           IN  /\ state["event"] > 0 => state["event"] \in shown
                               /\ \A d \in shown : d .. state["event"] \subseteq shown
      BY DEF QuietMeansCurrent
    <2>1. \A k \in Kinds : \A v \in Nat : ~Coming(k, v)
      BY DEF OnTheWay, Coming, OnWire, InHand, Waiting, Handing, Among
    <2>2. /\ Current(page.robot, page.result) /\ Complete(page.timeline)
          /\ page.robot \in Nat /\ page.result \in Nat
          /\ page.timeline \in Seq(1 .. MaxChanges)
          /\ Kinds = {"event", "robot_state", "agent_result"}
          /\ \A k \in Kinds : state[k] \in Nat
      BY PanelTypes DEF PanelInv, PageCurrent, Kinds
    <2>3. ASSUME NEW k \in Kinds, NEW n \in Nat, Ahead(k, n), n <= state[k]
          PROVE  n = state[k]
      <3>1. n + 1 \in Nat /\ (n # state[k] => n + 1 \in n + 1 .. state[k])
        BY <2>2, <2>3
      <3>2. QED
        BY <2>1, <2>3, <3>1 DEF Ahead
    <2>4. page.robot = state["robot_state"] /\ page.result = state["agent_result"]
      BY <2>2, <2>3 DEF Current
    <2>5. PICK t : t = page.timeline
      OBVIOUS
    <2>6. \A i \in DOMAIN t : t[i] \in Nat
      BY <2>2, <2>5, PanelConstants
    <2>7. PICK last \in Nat : last = state["event"]
      BY <2>2
    <2>8. /\ last > 0 => \E i \in DOMAIN t : t[i] = last
          /\ \A i \in DOMAIN t : \A v \in t[i] + 1 .. last : \E j \in DOMAIN t : t[j] = v
      BY <2>1, <2>2, <2>5, <2>6, <2>7 DEF Complete
    <2>9. ToSet(t) = {t[i] : i \in DOMAIN t}
      BY DEF ToSet
    <2>10. last > 0 => last \in ToSet(t)
      BY <2>8, <2>9
    <2>11. ASSUME NEW d \in ToSet(t) PROVE d .. last \subseteq ToSet(t)
      <3>1. PICK i \in DOMAIN t : t[i] = d
        BY <2>9, <2>11
      <3>2. ASSUME NEW v \in d .. last PROVE v \in ToSet(t)
        <4>1. v = d \/ v \in t[i] + 1 .. last
          BY <2>6, <3>1
        <4>2. QED
          BY <2>8, <2>9, <3>1, <4>1
      <3>3. QED
        BY <3>2
    <2>12. QED
      BY <2>4, <2>5, <2>7, <2>10, <2>11
  <1>2. QED
    BY <1>1, PanelInvariant, PTL

\* A socket delivers every change of a kind from some one on, once and in order
\* (server.py, ws.py).
THEOREM PanelSocketHasNoGap == PanelSpec => SocketHasNoGap
  <1>1. ASSUME PanelInv, PanelInv', Receive, NEW k \in Kinds,
               Head(wire).type = k, heard[k] # 0
        PROVE  heard'[k] = heard[k] + 1
    <2>1. PICK m : m = Head(wire)
      OBVIOUS
    <2>2. /\ m.type \in Kinds /\ m.n \in Nat /\ Open /\ Coming(m.type, m.n)
          /\ m.n <= state[m.type]
          /\ \A v \in Nat : Coming(m.type, v) => v = m.n \/ m.n < v
      BY <1>1, <2>1, TakenFromTheWire DEF PanelInv, IsMessage
    <2>3. k = m.type /\ heard'[k] = m.n
      BY <1>1, <2>1, <2>2 DEF Receive, PanelInv, PanelTypeOK
    <2>4. heard[k] \in Nat /\ state[k] \in Nat /\ heard[k] < m.n
      BY <1>1, <2>2, <2>3, PanelTypes DEF PanelInv, InOrder
    <2>5. heard[k] + 1 \in heard[k] + 1 .. state[k]
      BY <2>2, <2>3, <2>4
    <2>6. Coming(k, heard[k] + 1)
      BY <1>1, <2>2, <2>4, <2>5 DEF PanelInv, Covered, Ahead
    <2>7. QED
      BY <2>2, <2>3, <2>4, <2>6
  <1>2. PanelInv /\ PanelInv' /\ [PanelNext]_panelVars =>
          [\A k \in Kinds :
             Receive /\ Head(wire).type = k /\ heard[k] # 0
                => heard'[k] = heard[k] + 1]_panelVars
    BY <1>1
  <1>3. QED
    BY <1>2, PanelInvariant, PTL DEF PanelSpec, SocketHasNoGap
=============================================================================
