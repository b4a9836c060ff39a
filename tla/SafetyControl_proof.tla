------------------------ MODULE SafetyControl_proof ------------------------
(***************************************************************************)
(* What holds of SafetyControl for every value of its constants: its types,*)
(* the rate of the commands that pass, in real time and however the clock  *)
(* is set back, the step from the last command, and, on a host whose clock *)
(* is never set back, the freshness of the state a command passes on.      *)
(***************************************************************************)
EXTENDS SafetyControl, TLAPS

USE ConfigAssumption, IntentAssumption, ConditionAssumption, BoundAssumption,
    NoneAssumption DEF Accepted, Decide

(* The next-state relation with its actions named one by one.               *)
LEMMA NextCases ==
    ASSUME [Next]_vars
    PROVE  \/ \E created \in Stamps, v \in Velocities, d \in Durations :
                 PassLoco(created, v, d)
           \/ \E created \in Stamps, v \in Velocities, d \in Durations :
                 LimitLoco(created, v, d)
           \/ \E created \in Stamps, v \in Velocities, d \in Durations :
                 \E wellFormed \in BOOLEAN :
                    RejectLoco(created, v, d, wellFormed)
           \/ \E created \in Stamps \ {None} : PassStop(created)
           \/ RejectAction
           \/ HearReport
           \/ \E ok \in BOOLEAN : HearHealth(ok)
           \/ InterfaceMoves
           \/ InterfaceStops
           \/ \E c \in Conditions : InterfaceReports(c)
           \/ Tick
           \/ SetClockBack
           \/ UNCHANGED vars
  BY DEF Next

-----------------------------------------------------------------------------
(* The bucket keeps to its size, whatever the clock does.                   *)
BucketOK ==
    bucket \in [tokens : 0 .. Burst * TokenTicks,
                counted : Times \cup {None}, since : Nat]

LEMMA BucketKept ==
    ASSUME BucketOK, clock \in Times, elapsed \in Nat
    PROVE  /\ Refilled \in 0 .. Burst * TokenTicks
           /\ BucketAfter \in [tokens : 0 .. Burst * TokenTicks,
                               counted : Times \cup {None}, since : Nat]
<1> DEFINE B == Burst * TokenTicks
<1>1. B \in Nat
  OBVIOUS
<1>2. bucket.tokens \in 0 .. B /\ bucket.counted \in Times \cup {None}
  BY DEF BucketOK
<1> HIDE DEF B
<1>3. Refilled \in 0 .. B
  <2>1. CASE bucket.counted = None
    BY <1>1, <1>2, <2>1 DEF Refilled
  <2>2. CASE bucket.counted # None
    <3>1. Refilled = Least(B, bucket.tokens + Greatest(0, clock - bucket.counted))
      BY <2>2 DEF Refilled, B
    <3>2. bucket.counted \in Int /\ clock \in Int
      BY <1>2, <2>2 DEF Times
    <3>3. Greatest(0, clock - bucket.counted) \in Nat
      BY <3>2 DEF Greatest
    <3> QED
      BY <1>1, <1>2, <3>1, <3>3 DEF Least
  <2> QED
    BY <2>1, <2>2
<1>4. BucketAfter.tokens \in 0 .. B
  BY <1>1, <1>3 DEF BucketAfter, HasToken, Spent
<1> QED
  BY <1>3, <1>4 DEF BucketAfter, B, Times

LEMMA TypeInit ==
    ASSUME Init
    PROVE  TypeOK
<1>1. Still \in Velocities
  BY DEF Still, Velocities
<1>2. Burst * TokenTicks \in Nat
  OBVIOUS
<1>3. robot \in Robot
  BY <1>1 DEF Init, Robot
<1>4. bucket \in [tokens : 0 .. Burst * TokenTicks,
                  counted : Times \cup {None}, since : Nat]
  BY <1>2 DEF Init
<1>5. clock \in Times
  BY DEF Init, Times
<1>6. loco \in Seq(Velocities) /\ reports \in Seq(Report) /\ passed \in Seq(Passed)
  BY DEF Init
<1> QED
  BY <1>1, <1>3, <1>4, <1>5, <1>6 DEF Init, TypeOK

LEMMA TypeStep ==
    ASSUME TypeOK, [Next]_vars
    PROVE  TypeOK'
<1>0. Still \in Velocities
  BY DEF Still, Velocities
<1>1. ASSUME NEW created \in Stamps, NEW v \in Velocities, NEW d \in Durations,
             PassLoco(created, v, d)
      PROVE  TypeOK'
  <2>1. created \in Int /\ d \in 0 .. MaxDuration /\ clock \in Times
    BY <1>1 DEF PassLoco, LocoValid, IntentFresh, WithinLimits, Stamps, TypeOK,
                Times
  <2>2. clock + d \in 0 .. MaxTime + MaxDuration
    BY <2>1 DEF Times
  <2>3. robot' \in Robot
    <3>1. Len(passed) + 1 \in Nat
      BY DEF TypeOK
    <3>2. robot' = [robot EXCEPT !.velocity = v, !.until = clock + d,
                                 !.own = Len(passed) + 1]
      BY <1>1 DEF PassLoco, RecordLoco
    <3> QED
      BY <2>2, <3>1, <3>2 DEF TypeOK, Robot
  <2>4. passed' \in Seq(Passed)
    BY <1>1, <2>1, <2>2 DEF PassLoco, TypeOK, Passed
  <2>5. bucket' \in [tokens : 0 .. Burst * TokenTicks,
                     counted : Times \cup {None}, since : Nat]
    BY <1>1, BucketKept DEF PassLoco, TypeOK, BucketOK
  <2> QED
    BY <1>1, <2>3, <2>4, <2>5 DEF PassLoco, TypeOK
<1>2. ASSUME NEW created \in Stamps, NEW v \in Velocities, NEW d \in Durations,
             LimitLoco(created, v, d)
      PROVE  TypeOK'
  <2>1. bucket' \in [tokens : 0 .. Burst * TokenTicks,
                     counted : Times \cup {None}, since : Nat]
    BY <1>2, BucketKept DEF LimitLoco, TypeOK, BucketOK
  <2> QED
    BY <1>2, <2>1 DEF LimitLoco, TypeOK
<1>3. ASSUME NEW created \in Stamps, NEW v \in Velocities, NEW d \in Durations,
             NEW wellFormed \in BOOLEAN, RejectLoco(created, v, d, wellFormed)
      PROVE  TypeOK'
  BY <1>3 DEF RejectLoco, TypeOK
<1>4. ASSUME NEW created \in Stamps \ {None}, PassStop(created)
      PROVE  TypeOK'
  <2>1. created \in Int /\ clock \in 0 .. MaxTime + MaxDuration
    BY DEF Stamps, TypeOK, Times
  <2>2. robot' \in Robot
    BY <1>4, <1>0, <2>1 DEF PassStop, RecordStop, TypeOK, Robot
  <2> QED
    BY <1>4, <2>2 DEF PassStop, TypeOK
<1>5. ASSUME RejectAction PROVE TypeOK'
  BY <1>5 DEF RejectAction, TypeOK
<1>6. ASSUME HearReport PROVE TypeOK'
  <2>1. Head(reports) \in Report /\ Tail(reports) \in Seq(Report)
    BY <1>6 DEF HearReport, TypeOK
  <2>2. robot' \in Robot
    <3> DEFINE r == Head(reports)
               m == IF r.mode = None THEN robot.mode ELSE r.mode
    <3>1. robot' = [robot EXCEPT !.lowstate = r.stamp, !.sent = r.sent,
                                 !.mode = m, !.sound = r.sound,
                                 !.velocity = r.velocity, !.until = 0,
                                 !.own = None]
      BY <1>6 DEF HearReport, Heard
    <3>2. /\ r.stamp \in Times /\ r.sent \in Nat /\ r.sound \in BOOLEAN
          /\ r.velocity \in Velocities
      BY <2>1 DEF Report
    <3>3. m \in Modes \cup {None}
      BY <2>1 DEF Report, TypeOK, Robot
    <3>4. 0 \in 0 .. MaxTime + MaxDuration
      OBVIOUS
    <3> HIDE DEF r, m
    <3> QED
      BY <3>1, <3>2, <3>3, <3>4 DEF TypeOK, Robot
  <2> QED
    BY <1>6, <2>1, <2>2 DEF HearReport, TypeOK
<1>7. ASSUME NEW ok \in BOOLEAN, HearHealth(ok) PROVE TypeOK'
  <2>1. robot' \in Robot
    BY <1>7 DEF HearHealth, TypeOK, Robot
  <2> QED
    BY <1>7, <2>1 DEF HearHealth, TypeOK
<1>8. ASSUME InterfaceMoves PROVE TypeOK'
  BY <1>8 DEF InterfaceMoves, TypeOK
<1>9. ASSUME InterfaceStops PROVE TypeOK'
  <2>1. Greatest(0, stop - 1) \in Nat
    BY DEF TypeOK, Greatest
  <2> QED
    BY <1>9, <1>0, <2>1 DEF InterfaceStops, TypeOK
<1>10. ASSUME NEW c \in Conditions, InterfaceReports(c) PROVE TypeOK'
  <2>1. c \in [mode : Modes \cup {None}, sound : BOOLEAN]
    OBVIOUS
  <2>2. [stamp |-> clock, sent |-> elapsed, mode |-> c.mode,
         sound |-> c.sound, velocity |-> commanded] \in Report
    BY <2>1 DEF TypeOK, Report
  <2> QED
    BY <1>10, <2>2 DEF InterfaceReports, TypeOK
<1>11. ASSUME Tick PROVE TypeOK'
  BY <1>11 DEF Tick, TypeOK, Times
<1>12. ASSUME SetClockBack PROVE TypeOK'
  BY <1>12 DEF SetClockBack, TypeOK, Times
<1>13. ASSUME UNCHANGED vars PROVE TypeOK'
  BY <1>13 DEF vars, TypeOK
<1> QED
  BY <1>1, <1>2, <1>3, <1>4, <1>5, <1>6, <1>7, <1>8, <1>9, <1>10, <1>11,
     <1>12, <1>13, NextCases

(* Every reachable state is of its type.                                    *)
THEOREM SafetyTypeOK == Spec => []TypeOK
<1>1. Init => TypeOK
  BY TypeInit
<1>2. TypeOK /\ [Next]_vars => TypeOK'
  BY TypeStep
<1> QED
  BY <1>1, <1>2, PTL DEF Spec

-----------------------------------------------------------------------------
(* The rate.  Between the count of the bucket and now the clock gained no   *)
(* more than time really passed, so a refill never pays for time that did   *)
(* not pass; and what the commands since any earlier one took, with what is *)
(* left, is no more than a full bucket and the time from that one on.       *)
BucketHonest ==
    /\ bucket.since <= elapsed
    /\ bucket.counted # None =>
          clock - bucket.counted <= elapsed - bucket.since

TakenSince(i) == (Len(passed) - i + 1) * TokenTicks

Windows ==
    \A i \in DOMAIN passed :
        bucket.tokens + TakenSince(i) <=
            Burst * TokenTicks + bucket.since - passed[i].at

RateInv == TypeOK /\ BucketHonest /\ Windows /\ RateBounded

(* One call of RateLimiter.allow pays out no more than the time since the   *)
(* last, and leaves an honest bucket.                                       *)
LEMMA RefillEarned ==
    ASSUME TypeOK, BucketHonest
    PROVE  Refilled <= bucket.tokens + elapsed - bucket.since
<1> DEFINE B == Burst * TokenTicks
<1>1. B \in Nat
  OBVIOUS
<1>2. /\ bucket.tokens \in 0 .. B /\ bucket.counted \in Times \cup {None}
      /\ bucket.since \in Nat /\ elapsed \in Nat /\ clock \in Times
  BY DEF TypeOK
<1> HIDE DEF B
<1>3. CASE bucket.counted = None
  BY <1>1, <1>2, <1>3 DEF Refilled, BucketHonest
<1>4. CASE bucket.counted # None
  <2>1. Refilled = Least(B, bucket.tokens + Greatest(0, clock - bucket.counted))
    BY <1>4 DEF Refilled, B
  <2>2. bucket.counted \in Int /\ clock \in Int
    BY <1>2, <1>4 DEF Times
  <2>3. /\ Greatest(0, clock - bucket.counted) <= elapsed - bucket.since
        /\ Greatest(0, clock - bucket.counted) \in Nat
    BY <1>2, <1>4, <2>2 DEF Greatest, BucketHonest
  <2> QED
    BY <1>1, <1>2, <2>1, <2>3 DEF Least
<1> QED
  BY <1>3, <1>4

LEMMA Sums ==
    ASSUME NEW b \in Int, NEW t \in Int, NEW left \in Int, NEW taken \in Int,
           NEW since \in Int, NEW at \in Int, NEW now \in Int, NEW r \in Int,
           r <= left + now - since, left + taken <= b + since - at
    PROVE  r - t + (taken + t) <= b + now - at
OBVIOUS

LEMMA RateStep ==
    ASSUME RateInv, [Next]_vars
    PROVE  RateInv'
<1> DEFINE B == Burst * TokenTicks
           T == TokenTicks
           n == Len(passed)
<1>t. TypeOK'
  BY TypeStep DEF RateInv
<1>1. B \in Nat /\ T \in Nat
  OBVIOUS
<1>2. /\ bucket.tokens \in 0 .. B /\ bucket.since \in Nat /\ elapsed \in Nat
      /\ clock \in Int /\ bucket.counted \in Times \cup {None}
  BY DEF RateInv, TypeOK, Times
<1>3. n \in Nat /\ DOMAIN passed = 1 .. n /\ passed \in Seq(Passed)
  BY DEF RateInv, TypeOK
<1>4. \A i \in DOMAIN passed : passed[i].at \in Nat
  <2> SUFFICES ASSUME NEW i \in DOMAIN passed PROVE passed[i].at \in Nat
    OBVIOUS
  <2>1. passed[i] \in Passed
    BY <1>3
  <2> QED
    BY <2>1 DEF Passed
<1>5. /\ Refilled \in 0 .. B
      /\ Refilled <= bucket.tokens + elapsed - bucket.since
  BY BucketKept, RefillEarned DEF RateInv, TypeOK, BucketOK
<1>6. \A i \in DOMAIN passed :
          bucket.tokens + TakenSince(i) <= B + bucket.since - passed[i].at
  BY DEF RateInv, Windows
<1>7. \A i \in DOMAIN passed : TakenSince(i) \in Int
  BY <1>3 DEF TakenSince
<1>8. ASSUME NEW created \in Stamps, NEW v \in Velocities, NEW d \in Durations,
             PassLoco(created, v, d)
      PROVE  RateInv'
  <2> DEFINE p == [at |-> elapsed, created |-> created, velocity |-> v,
                   until |-> clock + d]
  <2>1. /\ passed' = Append(passed, p) /\ elapsed' = elapsed /\ clock' = clock
        /\ Refilled >= T
    BY <1>8 DEF PassLoco, HasToken
  <2>2. /\ bucket'.tokens = Refilled - T /\ bucket'.since = elapsed
        /\ bucket'.counted = clock
    BY <1>8 DEF PassLoco, BucketAfter, HasToken, Spent
  <2>3. /\ Len(passed') = n + 1 /\ DOMAIN passed' = 1 .. n + 1
        /\ \A i \in 1 .. n : passed'[i] = passed[i]
        /\ passed'[n + 1].at = elapsed
    BY <1>3, <2>1
  <2>4. \A i \in 1 .. n : TakenSince(i)' = TakenSince(i) + T
    BY <1>1, <1>3, <2>3 DEF TakenSince
  <2>5. \A i \in {n + 1} : TakenSince(i)' = T
    BY <1>1, <1>3, <2>3 DEF TakenSince
  <2>6. BucketHonest'
    BY <1>2, <2>1, <2>2 DEF BucketHonest
  <2>7. Windows'
    <3> SUFFICES ASSUME NEW i \in 1 .. n + 1
                 PROVE  bucket'.tokens + TakenSince(i)' <=
                            B + bucket'.since - passed'[i].at
      BY <2>3 DEF Windows
    <3> HIDE DEF B, T
    <3>1. CASE i = n + 1
      BY <1>1, <1>2, <1>3, <1>5, <2>2, <2>3, <2>5, <3>1
    <3>2. CASE i \in 1 .. n
      <4>1. /\ passed[i].at \in Nat /\ TakenSince(i) \in Int
            /\ bucket.tokens + TakenSince(i) <= B + bucket.since - passed[i].at
            /\ TakenSince(i)' = TakenSince(i) + T /\ passed'[i] = passed[i]
        BY <1>3, <1>4, <1>6, <1>7, <2>3, <2>4, <3>2
      <4>2. Refilled - T + (TakenSince(i) + T) <= B + elapsed - passed[i].at
        <5>1. /\ Refilled \in Int /\ bucket.tokens \in Int
              /\ Refilled <= bucket.tokens + elapsed - bucket.since
          BY <1>1, <1>2, <1>5
        <5>2. /\ passed[i].at \in Int /\ TakenSince(i) \in Int
              /\ bucket.tokens + TakenSince(i) <= B + bucket.since - passed[i].at
              /\ bucket.since \in Int /\ elapsed \in Int /\ B \in Int /\ T \in Int
          BY <1>1, <1>2, <4>1
        <5> QED
          BY <5>1, <5>2, Sums
      <4>3. passed'[i].at = passed[i].at
        BY <4>1
      <4> QED
        BY <2>2, <4>1, <4>2, <4>3
    <3> QED
      BY <1>3, <3>1, <3>2
  <2>8. RateBounded'
    <3> SUFFICES ASSUME NEW i \in 1 .. n + 1, NEW j \in 1 .. n + 1, i <= j
                 PROVE  (j - i + 1) * T <= B + passed'[j].at - passed'[i].at
      BY <2>3 DEF RateBounded
    <3>1. CASE j = n + 1
      <4>1. bucket'.tokens + TakenSince(i)' <= B + bucket'.since - passed'[i].at
        BY <2>3, <2>7 DEF Windows
      <4>2. TakenSince(i)' = (j - i + 1) * T
        BY <2>3, <3>1 DEF TakenSince
      <4>3. passed'[i].at \in Nat /\ TakenSince(i)' \in Int
        <5>1. CASE i = n + 1
          BY <1>1, <1>2, <2>3, <2>5, <5>1
        <5>2. CASE i \in 1 .. n
          <6>1. TakenSince(i) \in Int /\ passed[i].at \in Nat
            BY <1>3, <1>4, <1>7, <5>2
          <6> HIDE DEF T
          <6>2. TakenSince(i) + T \in Int
            BY <1>1, <6>1
          <6> QED
            BY <2>3, <2>4, <5>2, <6>1, <6>2
        <5> QED
          BY <1>3, <5>1, <5>2
      <4> HIDE DEF B, T
      <4>4. TakenSince(i)' <= B + passed'[j].at - passed'[i].at
        BY <1>1, <1>2, <1>5, <2>1, <2>2, <2>3, <3>1, <4>1, <4>3, SMTT(30)
      <4> QED
        BY <4>2, <4>4
    <3>2. CASE j \in 1 .. n
      <4>1. i \in 1 .. n /\ passed'[i] = passed[i] /\ passed'[j] = passed[j]
        BY <1>3, <2>3, <3>2
      <4> QED
        BY <1>3, <3>2, <4>1 DEF RateInv, RateBounded
    <3> QED
      BY <1>3, <3>1, <3>2
  <2> QED
    BY <1>t, <2>6, <2>7, <2>8 DEF RateInv
<1>9. ASSUME NEW created \in Stamps, NEW v \in Velocities, NEW d \in Durations,
             LimitLoco(created, v, d)
      PROVE  RateInv'
  <2>1. passed' = passed /\ elapsed' = elapsed /\ clock' = clock
    BY <1>9 DEF LimitLoco
  <2>2. /\ bucket'.tokens = Refilled /\ bucket'.since = elapsed
        /\ bucket'.counted = clock
    BY <1>9 DEF LimitLoco, BucketAfter, HasToken
  <2>3. BucketHonest'
    BY <1>2, <2>1, <2>2 DEF BucketHonest
  <2>4. Windows'
    <3> SUFFICES ASSUME NEW i \in DOMAIN passed
                 PROVE  bucket'.tokens + TakenSince(i) <=
                            B + bucket'.since - passed[i].at
      BY <2>1 DEF Windows, TakenSince
    <3>1. /\ passed[i].at \in Nat /\ TakenSince(i) \in Int
          /\ bucket.tokens + TakenSince(i) <= B + bucket.since - passed[i].at
      BY <1>4, <1>6, <1>7
    <3> HIDE DEF B
    <3> QED
      BY <1>1, <1>2, <1>5, <2>2, <3>1
  <2> QED
    BY <1>t, <2>1, <2>3, <2>4 DEF RateInv, RateBounded
<1>10. ASSUME bucket' = bucket, passed' = passed,
              \/ elapsed' = elapsed /\ clock' = clock
              \/ elapsed' = elapsed + 1 /\ clock' = clock + 1
              \/ elapsed' = elapsed /\ clock' \in 1 .. clock - 1
       PROVE  RateInv'
  <2>1. BucketHonest'
    <3>1. bucket.counted # None => bucket.counted \in Int
      BY <1>2 DEF Times
    <3> QED
      BY <1>2, <1>10, <3>1 DEF RateInv, BucketHonest
  <2>2. Windows' /\ RateBounded'
    BY <1>10 DEF RateInv, Windows, TakenSince, RateBounded
  <2> QED
    BY <1>t, <2>1, <2>2 DEF RateInv
<1>11. CASE \/ \E created \in Stamps, v \in Velocities, d \in Durations :
                  \E wellFormed \in BOOLEAN :
                     RejectLoco(created, v, d, wellFormed)
            \/ \E created \in Stamps \ {None} : PassStop(created)
            \/ RejectAction
            \/ HearReport
            \/ \E ok \in BOOLEAN : HearHealth(ok)
            \/ InterfaceMoves
            \/ InterfaceStops
            \/ \E c \in Conditions : InterfaceReports(c)
            \/ UNCHANGED vars
  BY <1>10, <1>11 DEF RejectLoco, PassStop, RejectAction, HearReport, HearHealth,
                      InterfaceMoves, InterfaceStops, InterfaceReports, vars
<1>12. CASE Tick \/ SetClockBack
  BY <1>10, <1>12 DEF Tick, SetClockBack
<1> QED
  BY <1>8, <1>9, <1>11, <1>12, NextCases

(* For any number of clock steps, at most Burst commands and what the time  *)
(* really passed buys get through (RateBounded).                            *)
THEOREM SafetyRateBounded == Spec => []RateBounded
<1>1. Init => RateInv
  BY TypeInit DEF Init, RateInv, BucketHonest, Windows, RateBounded
<1>2. RateInv /\ [Next]_vars => RateInv'
  BY RateStep
<1>3. RateInv => RateBounded
  BY DEF RateInv
<1> QED
  BY <1>1, <1>2, <1>3, PTL DEF Spec

-----------------------------------------------------------------------------
(* The step.  What the node recorded of its own last command is that        *)
(* command, the last that passed.                                           *)
OwnIsLast ==
    robot.own # None =>
        /\ robot.own = Len(passed) /\ passed # <<>>
        /\ robot.velocity = passed[Len(passed)].velocity
        /\ robot.until = passed[Len(passed)].until

LEMMA OwnStep ==
    ASSUME TypeOK, OwnIsLast, [Next]_vars
    PROVE  OwnIsLast'
<1>1. ASSUME NEW created \in Stamps, NEW v \in Velocities, NEW d \in Durations,
             PassLoco(created, v, d)
      PROVE  OwnIsLast'
  <2> DEFINE p == [at |-> elapsed, created |-> created, velocity |-> v,
                   until |-> clock + d]
  <2>1. passed' = Append(passed, p) /\ passed \in Seq(Passed)
    BY <1>1 DEF PassLoco, TypeOK
  <2>2. Len(passed') = Len(passed) + 1 /\ passed'[Len(passed) + 1] = p
        /\ Len(passed) \in Nat /\ passed' # <<>>
    BY <2>1
  <2>3. /\ robot'.own = Len(passed) + 1 /\ robot'.velocity = v
        /\ robot'.until = clock + d
    BY <1>1 DEF PassLoco, RecordLoco, TypeOK, Robot
  <2> QED
    BY <2>2, <2>3 DEF OwnIsLast
<1>2. ASSUME NEW created \in Stamps \ {None}, PassStop(created)
      PROVE  OwnIsLast'
  BY <1>2 DEF PassStop, RecordStop, TypeOK, Robot, OwnIsLast
<1>3. ASSUME HearReport PROVE OwnIsLast'
  BY <1>3 DEF HearReport, Heard, TypeOK, Robot, OwnIsLast
<1>4. ASSUME NEW ok \in BOOLEAN, HearHealth(ok) PROVE OwnIsLast'
  <2>1. /\ robot'.own = robot.own /\ robot'.velocity = robot.velocity
        /\ robot'.until = robot.until /\ passed' = passed
    BY <1>4 DEF HearHealth, TypeOK, Robot
  <2> QED
    BY <2>1 DEF OwnIsLast
<1>5. CASE robot' = robot /\ passed' = passed
  BY <1>5 DEF OwnIsLast
<1> QED
  BY <1>1, <1>2, <1>3, <1>4, <1>5, NextCases
     DEF LimitLoco, RejectLoco, RejectAction, InterfaceMoves, InterfaceStops,
         InterfaceReports, Tick, SetClockBack, vars

(* Only PassLoco lets a command pass.                                       *)
LEMMA PassedByCheck ==
    ASSUME [Next]_vars, passed' # passed
    PROVE  \E created \in Stamps, v \in Velocities, d \in Durations :
               PassLoco(created, v, d)
BY NextCases DEF LimitLoco, RejectLoco, PassStop, RejectAction, HearReport,
       HearHealth, InterfaceMoves, InterfaceStops, InterfaceReports, Tick,
       SetClockBack, vars

(* The next command is within the step limit of the last while that one     *)
(* runs and is the last thing the node heard (StepsFromLastCommand).        *)
THEOREM SafetySteps == Spec => StepsFromLastCommand
<1>1. Init => OwnIsLast
  BY DEF Init, OwnIsLast
<1>2. TypeOK /\ OwnIsLast /\ [Next]_vars => OwnIsLast'
  BY OwnStep
<1>3. ASSUME TypeOK, OwnIsLast, [Next]_vars
      PROVE  [passed' # passed /\ robot.own # None =>
                /\ robot.own = Len(passed)
                /\ clock < passed[Len(passed)].until =>
                      Near(passed'[Len(passed')].velocity,
                           passed[Len(passed)].velocity)]_vars
  <2>0. SUFFICES ASSUME passed' # passed, robot.own # None
               PROVE  /\ robot.own = Len(passed)
                      /\ clock < passed[Len(passed)].until =>
                            Near(passed'[Len(passed')].velocity,
                                 passed[Len(passed)].velocity)
    OBVIOUS
  <2>1. PICK created \in Stamps, v \in Velocities, d \in Durations :
            PassLoco(created, v, d)
    BY <1>3, <2>0, PassedByCheck
  <2>2. passed'[Len(passed')].velocity = v
    BY <1>3, <2>1 DEF PassLoco, TypeOK
  <2>3. clock < passed[Len(passed)].until =>
            CurrentVelocity = passed[Len(passed)].velocity
    <3>1. robot.until \in Int /\ clock \in Int
      BY <1>3 DEF TypeOK, Robot, Times
    <3> QED
      BY <1>3, <2>0, <3>1 DEF CurrentVelocity, OwnIsLast
  <2>4. Near(v, CurrentVelocity)
    BY <2>1 DEF PassLoco, LocoValid
  <2> QED
    BY <1>3, <2>0, <2>2, <2>3, <2>4 DEF OwnIsLast
<1> QED
  BY <1>1, <1>2, <1>3, SafetyTypeOK, PTL DEF Spec, StepsFromLastCommand

-----------------------------------------------------------------------------
(* Freshness: while the clock has never been set back, every stamp is the   *)
(* time that passed, one tick apart.                                        *)
Steady ==
    setBack = 0 =>
        /\ clock = elapsed + 1
        /\ \A i \in DOMAIN reports : reports[i].stamp = reports[i].sent + 1
        /\ robot.lowstate # None => robot.lowstate = robot.sent + 1

LEMMA SteadyStep ==
    ASSUME TypeOK, Steady, [Next]_vars
    PROVE  Steady'
<1>1. ASSUME NEW created \in Stamps, NEW v \in Velocities, NEW d \in Durations,
             PassLoco(created, v, d)
      PROVE  Steady'
  <2>1. robot'.lowstate = robot.lowstate /\ robot'.sent = robot.sent
    BY <1>1 DEF PassLoco, RecordLoco, TypeOK, Robot
  <2> QED
    BY <1>1, <2>1 DEF PassLoco, Steady
<1>2. ASSUME NEW created \in Stamps \ {None}, PassStop(created)
      PROVE  Steady'
  <2>1. robot'.lowstate = robot.lowstate /\ robot'.sent = robot.sent
    BY <1>2 DEF PassStop, RecordStop, TypeOK, Robot
  <2> QED
    BY <1>2, <2>1 DEF PassStop, Steady
<1>3. ASSUME NEW ok \in BOOLEAN, HearHealth(ok) PROVE Steady'
  <2>1. robot'.lowstate = robot.lowstate /\ robot'.sent = robot.sent
    BY <1>3 DEF HearHealth, TypeOK, Robot
  <2> QED
    BY <1>3, <2>1 DEF HearHealth, Steady
<1>4. ASSUME HearReport PROVE Steady'
  <2>1. /\ robot'.lowstate = Head(reports).stamp
        /\ robot'.sent = Head(reports).sent
    BY <1>4 DEF HearReport, Heard, TypeOK, Robot
  <2>2. /\ Head(reports) = reports[1] /\ 1 \in DOMAIN reports
        /\ \A i \in DOMAIN reports' : reports'[i] = reports[i + 1]
                                      /\ i + 1 \in DOMAIN reports
    BY <1>4 DEF HearReport, TypeOK
  <2>3. clock' = clock /\ elapsed' = elapsed /\ setBack' = setBack
    BY <1>4 DEF HearReport
  <2> QED
    BY <2>1, <2>2, <2>3 DEF Steady
<1>5. ASSUME NEW c \in Conditions, InterfaceReports(c) PROVE Steady'
  <2> DEFINE r == [stamp |-> clock, sent |-> elapsed, mode |-> c.mode,
                   sound |-> c.sound, velocity |-> commanded]
  <2>1. /\ DOMAIN reports' = DOMAIN reports \cup {Len(reports) + 1}
        /\ \A i \in DOMAIN reports : reports'[i] = reports[i]
        /\ reports'[Len(reports) + 1] = r
    BY <1>5 DEF InterfaceReports, TypeOK
  <2>2. /\ clock' = clock /\ elapsed' = elapsed /\ setBack' = setBack
        /\ robot' = robot
    BY <1>5 DEF InterfaceReports
  <2> QED
    BY <2>1, <2>2 DEF Steady
<1>6. ASSUME Tick PROVE Steady'
  BY <1>6 DEF Tick, Steady, TypeOK, Times
<1>7. ASSUME SetClockBack PROVE Steady'
  BY <1>7 DEF SetClockBack, Steady, TypeOK
<1>8. CASE /\ clock' = clock /\ elapsed' = elapsed /\ setBack' = setBack
           /\ robot' = robot /\ reports' = reports
  BY <1>8 DEF Steady
<1> QED
  BY <1>1, <1>2, <1>3, <1>4, <1>5, <1>6, <1>7, <1>8, NextCases
     DEF LimitLoco, RejectLoco, RejectAction, InterfaceMoves, InterfaceStops,
         vars

(* Until the clock is set back a command passes only on a summary that left *)
(* g1_interface at most MaxLowstateAge ticks ago (LocoOnFreshState).        *)
THEOREM SafetyFreshState == Spec => LocoOnFreshState
<1>1. Init => Steady
  BY DEF Init, Steady
<1>2. TypeOK /\ Steady /\ [Next]_vars => Steady'
  BY SteadyStep
<1>3. ASSUME TypeOK, Steady, [Next]_vars
      PROVE  [passed' # passed /\ setBack = 0 =>
                elapsed - robot.sent <= MaxLowstateAge]_vars
  <2>0. SUFFICES ASSUME passed' # passed, setBack = 0
               PROVE  elapsed - robot.sent <= MaxLowstateAge
    OBVIOUS
  <2>1. LowstateFresh
    BY <1>3, <2>0, PassedByCheck DEF PassLoco, LocoValid, RobotReady
  <2> QED
    BY <1>3, <2>0, <2>1 DEF LowstateFresh, Steady, TypeOK, Robot
<1> QED
  BY <1>1, <1>2, <1>3, SafetyTypeOK, PTL DEF Spec, LocoOnFreshState
=============================================================================
