--------------------------- MODULE LocoChain_proof ---------------------------
(***************************************************************************)
(* First g1_interface alone: its safety properties for every choice of     *)
(* limits, any set of request ids and any number of requests in flight.    *)
(* Then the chain: the robot moves only under supervision, with any number *)
(* of requests on the wire, and a wire that may lose any of them.          *)
(***************************************************************************)
EXTENDS LocoChain, FiniteSetTheorems, SequenceTheorems, TLAPS

USE ConfigAssumption DEF Accepted

(* What the callbacks keep true of the command record.  Ids identify the    *)
(* requests in flight; only the followed velocity request shares its id     *)
(* with the ack, and while it is in flight the ack is pending; a motion is  *)
(* active exactly while the followed request is a motion that has not       *)
(* failed; there is an id left for the stop that would end it; and finitely *)
(* many requests are in flight.                                             *)

UniqueIds(c) == \A r, s \in c.pending : r.id = s.id => r = s

AckRequest(c) ==
  c.ack # None =>
    \A r \in c.pending : r.id = c.ack.id => r.action = "set_velocity" /\ c.ack.state = "pending"

MotionIsAck(c) ==
  /\ c.motion # None =>
       /\ c.ack # None /\ c.ack.id = c.motion.id
       /\ c.ack.kind = "motion" /\ c.ack.state \in {"pending", "acknowledged"}
  /\ c.ack # None /\ c.ack.kind = "motion" /\ c.ack.state = "pending" => c.motion # None

Room(c) == c.motion # None => Free(c) # {}

CommandOK(c) ==
  /\ c \in Command
  /\ IsFiniteSet(c.pending)
  /\ UniqueIds(c)
  /\ AckRequest(c)
  /\ MotionIsAck(c)
  /\ Room(c)

\* The watched conditions, and where the mode comes from.
Supervised ==
  /\ cmd.motion # None => running
  /\ cmd.motion # None /\ ~due => LowstateFresh /\ SafetyFresh /\ cmd.motion.left > 0

ModeKnown == ModeFresh => mode = "sport_api_loco"

Scalars ==
  /\ running \in BOOLEAN /\ due \in BOOLEAN /\ apiFailed \in BOOLEAN
  /\ lowstateAge \in 0..(StateTimeout + 1)
  /\ safetyAge \in 0..(SafetyTimeout + 1)
  /\ modeAge \in 0..(ModeTimeout + 1)
  /\ mode \in {"sport_api_loco", None}

IInv == Scalars /\ CommandOK(cmd) /\ Supervised /\ ModeKnown

----------------------------------------------------------------------------
(* Lemmas about the helpers.                                                *)

LEMMA FreshIsFree ==
  ASSUME NEW c, Free(c) # {} PROVE FreshId(c) \in Free(c)
BY DEF FreshId

\* The fields of a command after _publish_velocity_command.
LEMMA PublishFields ==
  ASSUME NEW c \in Command, NEW kind, NEW d, NEW p, p = PublishVelocity(c, kind, d)
  PROVE  /\ p = [ack |-> [id |-> FreshId(c), state |-> "pending", kind |-> kind, age |-> 0],
                 motion |-> IF kind = "motion" THEN [id |-> FreshId(c), left |-> d] ELSE None,
                 pending |-> c.pending \cup {[id |-> FreshId(c), action |-> "set_velocity", age |-> 0]},
                 timeouts |-> c.timeouts]
BY DEF PublishVelocity, Build, Command

\* The same for the removal of requests, and for the fate of an ack.
LEMMA DropFields ==
  ASSUME NEW c \in Command, NEW R, NEW n \in 0..UnhealthyCount
  PROVE  Forget(c, R, n)
           = [ack |-> c.ack, motion |-> c.motion, pending |-> c.pending \ R, timeouts |-> n]
<1> DEFINE P == c.pending \ R
           d == [c EXCEPT !.pending = P]
<1>1. P \in SUBSET Request /\ n \in Int
  BY InterfaceAssumption DEF Command
<1>2. Forget(c, R, n) = [d EXCEPT !.timeouts = n]
  BY DEF Forget
<1> HIDE DEF P
<1>3. d = [ack |-> c.ack, motion |-> c.motion, pending |-> P, timeouts |-> c.timeouts]
  BY <1>1 DEF Command
<1> HIDE DEF d
<1>4. [d EXCEPT !.timeouts = n]
        = [ack |-> c.ack, motion |-> c.motion, pending |-> P, timeouts |-> n]
  BY <1>1, <1>3
<1>5. QED
  BY <1>2, <1>4 DEF P

LEMMA ResolvedAck ==
  ASSUME NEW a \in Ack, NEW s \in {"pending", "acknowledged", "rejected", "timed_out"}
  PROVE  /\ [a EXCEPT !.state = s, !.age = 0] \in Ack
         /\ [a EXCEPT !.state = s, !.age = 0].id = a.id
         /\ [a EXCEPT !.state = s, !.age = 0].kind = a.kind
         /\ [a EXCEPT !.state = s, !.age = 0].state = s
<1>1. 0 \in 0..(ResponseTimeout + 1)
  BY InterfaceAssumption
<1>2. QED
  BY <1>1 DEF Ack

\* Sending a stop leaves a well-formed command without motion.
LEMMA PublishStopOK ==
  ASSUME NEW c \in Command, IsFiniteSet(c.pending), UniqueIds(c), Free(c) # {},
         NEW p, p = PublishVelocity(c, "stop", 0)
  PROVE  CommandOK(p) /\ p.motion = None
<1> DEFINE id == FreshId(c)
           new == [id |-> id, action |-> "set_velocity", age |-> 0]
<1>1. /\ p = [ack |-> [id |-> id, state |-> "pending", kind |-> "stop", age |-> 0],
              motion |-> None,
              pending |-> c.pending \cup {new},
              timeouts |-> c.timeouts]
  BY PublishFields
<1>2. id \in Ids /\ \A r \in c.pending : r.id # id
  BY FreshIsFree DEF Free, Used
<1> HIDE DEF id
<1>3. new \in Request
  BY <1>2, InterfaceAssumption DEF Request
<1>4. p \in Command
  BY <1>1, <1>2, <1>3, InterfaceAssumption DEF Command, Ack
<1>5. UniqueIds(p)
  BY <1>1, <1>2 DEF UniqueIds
<1>6. AckRequest(p)
  BY <1>1, <1>2 DEF AckRequest
<1>7. MotionIsAck(p) /\ Room(p)
  BY <1>1 DEF MotionIsAck, Room
<1>8. IsFiniteSet(p.pending)
  <2>1. IsFiniteSet(c.pending \cup {new})
    BY FS_AddElement
  <2>2. QED
    BY <1>1, <2>1
<1>9. QED
  BY <1>1, <1>4, <1>5, <1>6, <1>7, <1>8 DEF CommandOK

\* A new motion keeps an id free when there were two.
LEMMA PublishMotionOK ==
  ASSUME NEW c \in Command, IsFiniteSet(c.pending), UniqueIds(c), NEW i \in Free(c), NEW j \in Free(c), i # j,
         NEW d \in 0..MaxDuration, NEW p, p = PublishVelocity(c, "motion", d)
  PROVE  CommandOK(p) /\ p.motion = [id |-> FreshId(c), left |-> d]
<1> DEFINE id == FreshId(c)
           new == [id |-> id, action |-> "set_velocity", age |-> 0]
<1>1. /\ p = [ack |-> [id |-> id, state |-> "pending", kind |-> "motion", age |-> 0],
              motion |-> [id |-> id, left |-> d],
              pending |-> c.pending \cup {new},
              timeouts |-> c.timeouts]
  BY PublishFields
<1>2. id \in Free(c) /\ id \in Ids /\ \A r \in c.pending : r.id # id
  BY FreshIsFree DEF Free, Used
<1>3. PICK k \in Free(c) : k # id
  OBVIOUS
<1> HIDE DEF id
<1>4. new \in Request
  BY <1>2, InterfaceAssumption DEF Request
<1>5. p \in Command
  <2>1. p.ack \in Ack
    BY <1>1, <1>2, InterfaceAssumption DEF Ack
  <2>2. p.motion \in Motion
    BY <1>1, <1>2 DEF Motion
  <2>3. QED
    BY <1>1, <1>4, <2>1, <2>2 DEF Command
<1>6. UniqueIds(p)
  BY <1>1, <1>2 DEF UniqueIds
<1>7. AckRequest(p) /\ MotionIsAck(p)
  <2>1. p.ack # None
    BY <1>1, <1>2, InterfaceAssumption DEF Ack
  <2>2. AckRequest(p)
    BY <1>1, <1>2 DEF AckRequest
  <2>3. p.motion # None
    BY <1>1, <1>2, InterfaceAssumption DEF Motion
  <2>5. MotionIsAck(p)
    BY <1>1, <2>1, <2>3 DEF MotionIsAck
  <2>4. QED
    BY <2>2, <2>5
<1>8. k \in Free(p)
  <2>1. k \in Ids /\ \A r \in c.pending : r.id # k
    BY <1>3 DEF Free, Used
  <2>2. k \notin Used(p)
    BY <1>1, <1>3, <2>1 DEF Used
  <2>3. QED
    BY <2>1, <2>2 DEF Free
<1>9. IsFiniteSet(p.pending)
  <2>1. IsFiniteSet(c.pending \cup {new})
    BY FS_AddElement
  <2>2. QED
    BY <1>1, <2>1
<1>10. QED
  BY <1>1, <1>5, <1>6, <1>7, <1>8, <1>9 DEF CommandOK, Room, id

----------------------------------------------------------------------------
\* The saturated timeout count stays in range.
LEMMA CountInRange ==
  ASSUME NEW c \in Command, IsFiniteSet(c.pending)
  PROVE  CountTimeouts(c) \in 0..UnhealthyCount
<1>1. Cardinality(Expired(c)) \in Nat
  BY FS_Subset, FS_CardinalityType DEF Expired
<1>2. c.timeouts \in 0..UnhealthyCount
  BY DEF Command
<1>3. QED
  BY <1>1, <1>2, InterfaceAssumption DEF CountTimeouts

(* Resolving the ack while its request is removed: what _expire_api_requests *)
(* and _update_command_ack_from_response have in common.                    *)
Resolved(c, t, s) ==
  /\ t \in Command /\ IsFiniteSet(t.pending) /\ UniqueIds(t)
  /\ Free(c) \subseteq Free(t)
  /\ t.ack # None /\ t.ack.id = c.ack.id /\ t.ack.kind = c.ack.kind
  /\ t.ack.state = s /\ t.motion = c.motion
  /\ \A q \in t.pending : q.id # t.ack.id
  /\ c.ack.state = "pending"

LEMMA ResolveOK ==
  ASSUME NEW c, CommandOK(c), NEW R \in SUBSET c.pending, NEW n \in 0..UnhealthyCount,
         NEW s \in {"pending", "acknowledged", "rejected", "timed_out"}, c.ack # None,
         \E r \in R : r.id = c.ack.id
  PROVE  Resolved(c, Resolve(Forget(c, R, n), s), s)
<1> DEFINE t == Resolve(Forget(c, R, n), s)
<1>1. c \in Command /\ IsFiniteSet(c.pending) /\ UniqueIds(c) /\ AckRequest(c)
  BY DEF CommandOK
<1> DEFINE d == Forget(c, R, n)
<1>2. d = [ack |-> c.ack, motion |-> c.motion, pending |-> c.pending \ R, timeouts |-> n]
  BY <1>1, DropFields
<1>3. c.ack \in Ack /\ c.ack.state = "pending"
  BY <1>1 DEF Command, AckRequest
<1>4. t = [d EXCEPT !.ack = [c.ack EXCEPT !.state = s, !.age = 0]]
  BY <1>2 DEF Resolve
<1> HIDE DEF t
<1>5. /\ [c.ack EXCEPT !.state = s, !.age = 0] \in Ack
      /\ [c.ack EXCEPT !.state = s, !.age = 0].id = c.ack.id
      /\ [c.ack EXCEPT !.state = s, !.age = 0].kind = c.ack.kind
      /\ [c.ack EXCEPT !.state = s, !.age = 0].state = s
  BY <1>3, ResolvedAck
<1> DEFINE a == [c.ack EXCEPT !.state = s, !.age = 0]
<1> HIDE DEF a
<1>6. t = [ack |-> a, motion |-> c.motion, pending |-> c.pending \ R, timeouts |-> n]
  BY <1>2, <1>4 DEF a
<1>7. a \in Ack /\ a.id = c.ack.id /\ a.kind = c.ack.kind /\ a.state = s /\ a # None
  BY <1>5, InterfaceAssumption DEF a
<1>8. t \in Command
  BY <1>1, <1>6, <1>7 DEF Command
<1>9. IsFiniteSet(t.pending)
  <2>1. IsFiniteSet(c.pending \ R)
    BY <1>1, FS_Subset
  <2>2. QED
    BY <1>6, <2>1
<1>10. UniqueIds(t)
  BY <1>1, <1>6 DEF UniqueIds
<1>11. \A q \in t.pending : q.id # t.ack.id
  BY <1>1, <1>6, <1>7 DEF UniqueIds
<1>12. Free(c) \subseteq Free(t)
  <2>1. Used(t) \subseteq Used(c)
    BY <1>6, <1>7 DEF Used
  <2>2. QED
    BY <2>1 DEF Free
<1>13. t.ack = a /\ t.motion = c.motion
  BY <1>6
<1>14. QED
  BY <1>3, <1>7, <1>8, <1>9, <1>10, <1>11, <1>12, <1>13 DEF Resolved, t

\* Dropping requests alone keeps a command well formed.
LEMMA DropOK ==
  ASSUME NEW c, CommandOK(c), NEW R, NEW n \in 0..UnhealthyCount,
         NEW d, d = Forget(c, R, n)
  PROVE  /\ CommandOK(d) /\ d.motion = c.motion
         /\ d.ack = c.ack /\ d.pending = c.pending \ R
<1>1. c \in Command /\ IsFiniteSet(c.pending) /\ UniqueIds(c) /\ AckRequest(c) /\ MotionIsAck(c) /\ Room(c)
  BY DEF CommandOK
<1>2. d = [ack |-> c.ack, motion |-> c.motion, pending |-> c.pending \ R, timeouts |-> n]
  BY <1>1, DropFields
<1>3. d \in Command
  BY <1>1, <1>2 DEF Command
<1>4. Free(c) \subseteq Free(d)
  <2>1. Used(d) \subseteq Used(c)
    BY <1>2 DEF Used
  <2>2. QED
    BY <2>1 DEF Free
<1>5. IsFiniteSet(d.pending)
  <2>1. IsFiniteSet(c.pending \ R)
    BY <1>1, FS_Subset
  <2>2. QED
    BY <1>2, <2>1
<1>6. UniqueIds(d) /\ AckRequest(d) /\ MotionIsAck(d) /\ Room(d)
  BY <1>1, <1>2, <1>4 DEF UniqueIds, AckRequest, MotionIsAck, Room
<1>7. QED
  BY <1>2, <1>3, <1>5, <1>6 DEF CommandOK

\* A resolved ack whose request is gone, over a command without motion or
\* with one that was acknowledged.
LEMMA SettledOK ==
  ASSUME NEW t \in Command, IsFiniteSet(t.pending), UniqueIds(t),
         t.ack # None, t.ack.state # "pending",
         \A q \in t.pending : q.id # t.ack.id,
         t.motion # None => t.ack.id = t.motion.id /\ t.ack.kind = "motion"
                            /\ t.ack.state = "acknowledged" /\ Free(t) # {}
  PROVE  CommandOK(t)
BY DEF CommandOK, AckRequest, MotionIsAck, Room

(* _expire_api_requests leaves a well-formed command, and a motion only if  *)
(* it is the one that was running.                                          *)
LEMMA ExpireOK ==
  ASSUME NEW c, CommandOK(c), NEW p, p = Expire(c)
  PROVE  CommandOK(p) /\ p.motion \in {c.motion, None}
<1> DEFINE n == CountTimeouts(c)
           forgotten == Forget(c, Expired(c), n)
           timedOut == Resolve(forgotten, "timed_out")
<1>1. n \in 0..UnhealthyCount
  BY CountInRange DEF CommandOK
<1>2. CommandOK(forgotten) /\ forgotten.motion = c.motion
  BY <1>1, DropOK
<1>3. CASE ~AckExpires(c)
  BY <1>2, <1>3 DEF Expire
<1>4. CASE AckExpires(c)
  <2>1. PICK r \in Expired(c) : r.id = c.ack.id
    BY <1>4 DEF AckExpires
  <2>2. c.ack # None /\ Expired(c) \subseteq c.pending
    BY <1>4 DEF AckExpires, AckState, Expired
  <2>3. /\ timedOut \in Command /\ IsFiniteSet(timedOut.pending) /\ UniqueIds(timedOut)
        /\ Free(c) \subseteq Free(timedOut)
        /\ timedOut.ack # None /\ timedOut.ack.id = c.ack.id
        /\ timedOut.ack.kind = c.ack.kind
        /\ timedOut.ack.state = "timed_out" /\ timedOut.motion = c.motion
        /\ \A q \in timedOut.pending : q.id # timedOut.ack.id
    <3>1. Expired(c) \in SUBSET c.pending
      BY <2>2
    <3>2. "timed_out" \in {"pending", "acknowledged", "rejected", "timed_out"}
      OBVIOUS
    <3>3. \E q \in Expired(c) : q.id = c.ack.id
      BY <2>1
    <3> HIDE DEF n
    <3>4. Resolved(c, timedOut, "timed_out")
      BY <1>1, <2>2, <3>1, <3>2, <3>3, ResolveOK
    <3>5. QED
      BY <3>4 DEF Resolved
  <2>4. MotionIsAck(c) /\ Room(c)
    BY DEF CommandOK
  <2>5. CASE c.ack.kind = "motion" /\ c.motion # None /\ c.motion.id = c.ack.id
    <3>1. p = PublishStop(timedOut)
      BY <1>4, <2>5 DEF Expire
    <3> HIDE DEF timedOut
    <3>2. ~StopPending(timedOut)
      BY <2>3 DEF StopPending, AckState
    <3>3. p = PublishVelocity(timedOut, "stop", 0)
      BY <3>1, <3>2 DEF PublishStop
    <3>4. Free(timedOut) # {}
      BY <2>3, <2>4, <2>5 DEF Room
    <3>5. QED
      BY <2>3, <3>3, <3>4, PublishStopOK
  <2>6. CASE ~(c.ack.kind = "motion" /\ c.motion # None /\ c.motion.id = c.ack.id)
    <3>1. p = timedOut
      BY <1>4, <2>6 DEF Expire
    <3> HIDE DEF timedOut
    <3>2. c.motion = None
      BY <2>2, <2>4, <2>6 DEF MotionIsAck
    <3>3. CommandOK(timedOut)
      BY <2>3, <3>2, SettledOK
    <3>4. QED
      BY <2>3, <3>1, <3>3
  <2>7. QED
    BY <2>5, <2>6
<1>5. QED
  BY <1>3, <1>4

(* A matched response leaves a well-formed command, a motion only if it was *)
(* running, and an id for the last stop if the answer was to a state query. *)
LEMMA AnsweredOK ==
  ASSUME NEW c, CommandOK(c), NEW r \in c.pending, NEW code \in {0, 1},
         NEW p, p = Answered(c, r, code)
  PROVE  /\ CommandOK(p) /\ p.motion \in {c.motion, None}
         /\ r.action # "set_velocity" => Free(p) # {}
<1> DEFINE s == Fate(code)
           done == Forget(c, {r}, 0)
           resolved == Resolve(done, s)
<1>1. 0 \in 0..UnhealthyCount
  BY InterfaceAssumption
<1>2. /\ CommandOK(done) /\ done.motion = c.motion
      /\ done.ack = c.ack /\ done.pending = c.pending \ {r}
  BY <1>1, DropOK
<1>3. CASE c.ack = None \/ c.ack.id # r.id
  <2>1. p = done
    BY <1>3 DEF Answered
  <2>2. r.id \in Ids
    BY DEF CommandOK, Command, Request
  <2>3. r.id \notin Used(done)
    BY <1>2, <1>3 DEF Used, CommandOK, UniqueIds
  <2>4. QED
    BY <1>2, <2>1, <2>2, <2>3 DEF Free
<1>4. CASE c.ack # None /\ c.ack.id = r.id
  <2>1. r.action = "set_velocity"
    BY <1>4 DEF CommandOK, AckRequest
  <2>2. /\ resolved \in Command /\ IsFiniteSet(resolved.pending) /\ UniqueIds(resolved)
        /\ Free(c) \subseteq Free(resolved)
        /\ resolved.ack # None /\ resolved.ack.id = c.ack.id
        /\ resolved.ack.kind = c.ack.kind
        /\ resolved.ack.state = s /\ resolved.motion = c.motion
        /\ \A q \in resolved.pending : q.id # resolved.ack.id
        /\ c.ack.state = "pending"
    <3>1. {r} \in SUBSET c.pending /\ (\E q \in {r} : q.id = c.ack.id)
      BY <1>4
    <3>2. s \in {"pending", "acknowledged", "rejected", "timed_out"}
      BY DEF Fate
    <3>3. Resolved(c, resolved, s)
      BY <1>1, <1>4, <3>1, <3>2, ResolveOK
    <3>4. QED
      BY <3>3 DEF Resolved
  <2>3. MotionIsAck(c) /\ Room(c)
    BY DEF CommandOK
  <2>4. CASE code # 0 /\ c.ack.kind = "motion"
    <3>1. p = PublishStop(resolved)
      BY <1>4, <2>4 DEF Answered
    <3> HIDE DEF resolved
    <3>2. ~StopPending(resolved)
      BY <2>2, <2>4 DEF StopPending, AckState, Fate
    <3>3. p = PublishVelocity(resolved, "stop", 0)
      BY <3>1, <3>2 DEF PublishStop
    <3>4. Free(resolved) # {}
      BY <1>4, <2>2, <2>3, <2>4 DEF Room, MotionIsAck
    <3>5. QED
      BY <2>1, <2>2, <3>3, <3>4, PublishStopOK
  <2>5. CASE ~(code # 0 /\ c.ack.kind = "motion")
    <3>1. p = resolved
      BY <1>4, <2>5 DEF Answered
    <3> HIDE DEF resolved
    <3>2. resolved.motion # None => /\ resolved.ack.id = resolved.motion.id
                                    /\ resolved.ack.kind = "motion"
                                    /\ resolved.ack.state = "acknowledged"
                                    /\ Free(resolved) # {}
      BY <2>2, <2>3, <2>5 DEF MotionIsAck, Room, Fate
    <3>3. resolved.ack.state # "pending"
      BY <2>2 DEF Fate
    <3>4. CommandOK(resolved)
      BY <2>2, <3>2, <3>3, SettledOK
    <3>5. QED
      BY <2>1, <2>2, <3>1, <3>4
  <2>6. QED
    BY <2>4, <2>5
<1>5. QED
  BY <1>3, <1>4

----------------------------------------------------------------------------
\* Time.

LEMMA OlderInRange ==
  ASSUME NEW limit \in Nat, NEW age \in 0..(limit + 1)
  PROVE  Older(age, limit) \in 0..(limit + 1)
BY DEF Older

LEMMA AgedRequest ==
  ASSUME NEW r \in Request
  PROVE  /\ [r EXCEPT !.age = Older(@, ResponseTimeout)] \in Request
         /\ [r EXCEPT !.age = Older(@, ResponseTimeout)].id = r.id
         /\ [r EXCEPT !.age = Older(@, ResponseTimeout)].action = r.action
<1>1. Older(r.age, ResponseTimeout) \in 0..(ResponseTimeout + 1)
  BY OlderInRange, InterfaceAssumption DEF Request
<1>2. QED
  BY <1>1 DEF Request

LEMMA AgedAck ==
  ASSUME NEW a \in Ack
  PROVE  /\ [a EXCEPT !.age = Older(@, ResponseTimeout)] \in Ack
         /\ [a EXCEPT !.age = Older(@, ResponseTimeout)].id = a.id
         /\ [a EXCEPT !.age = Older(@, ResponseTimeout)].kind = a.kind
         /\ [a EXCEPT !.age = Older(@, ResponseTimeout)].state = a.state
<1>1. Older(a.age, ResponseTimeout) \in 0..(ResponseTimeout + 1)
  BY OlderInRange, InterfaceAssumption DEF Ack
<1>2. QED
  BY <1>1 DEF Ack

LEMMA AgedMotion ==
  ASSUME NEW m \in Motion
  PROVE  /\ [m EXCEPT !.left = IF @ = 0 THEN 0 ELSE @ - 1] \in Motion
         /\ [m EXCEPT !.left = IF @ = 0 THEN 0 ELSE @ - 1].id = m.id
<1>1. (IF m.left = 0 THEN 0 ELSE m.left - 1) \in 0..MaxDuration
  BY InterfaceAssumption DEF Motion
<1>2. QED
  BY <1>1 DEF Motion

\* A tick ages a well-formed command into one.
LEMMA AgedOK ==
  ASSUME NEW c, CommandOK(c)
  PROVE  CommandOK(Aged(c)) /\ (Aged(c).motion # None => c.motion # None)
<1> DEFINE older(r) == [r EXCEPT !.age = Older(@, ResponseTimeout)]
           p == Aged(c)
<1>1. c \in Command /\ IsFiniteSet(c.pending) /\ UniqueIds(c) /\ AckRequest(c) /\ MotionIsAck(c) /\ Room(c)
  BY DEF CommandOK
<1>2. p.pending = {older(r) : r \in c.pending} /\ p.timeouts = c.timeouts
  BY DEF Aged
<1>3. \A r \in c.pending : older(r) \in Request /\ older(r).id = r.id /\ older(r).action = r.action
  BY <1>1, AgedRequest DEF Command
<1>4. /\ c.ack = None => p.ack = None
      /\ c.ack # None => /\ p.ack \in Ack /\ p.ack.id = c.ack.id
                         /\ p.ack.kind = c.ack.kind /\ p.ack.state = c.ack.state
  <2>1. c.ack \in Ack \cup {None}
    BY <1>1 DEF Command
  <2>2. QED
    BY <2>1, AgedAck DEF Aged
<1>5. /\ c.motion = None => p.motion = None
      /\ c.motion # None => p.motion \in Motion /\ p.motion.id = c.motion.id
  <2>1. c.motion \in Motion \cup {None}
    BY <1>1 DEF Command
  <2>2. QED
    BY <2>1, AgedMotion DEF Aged
<1>6. p = [ack |-> p.ack, motion |-> p.motion, pending |-> p.pending, timeouts |-> p.timeouts]
  BY DEF Aged
<1>7. IsFiniteSet(p.pending)
  <2> DEFINE f == [r \in c.pending |-> older(r)]
  <2>1. f \in Surjection(c.pending, p.pending)
    BY <1>2 DEF Surjection
  <2>2. QED
    BY <1>1, <2>1, FS_Surjection
<1> HIDE DEF p, older
<1>8. p.pending \subseteq Request
  BY <1>2, <1>3
<1>9. p \in Command
  <2>1. p.ack \in Ack \cup {None} /\ p.motion \in Motion \cup {None} /\ p.timeouts \in 0..UnhealthyCount
    BY <1>1, <1>2, <1>4, <1>5 DEF Command
  <2>2. QED
    BY <1>6, <1>8, <2>1 DEF Command
<1>10. UniqueIds(p)
  BY <1>1, <1>2, <1>3 DEF UniqueIds
<1>11. p.ack # None <=> c.ack # None
  BY <1>4, InterfaceAssumption
<1>12. p.motion # None <=> c.motion # None
  BY <1>5, InterfaceAssumption
<1>13. AckRequest(p)
  BY <1>1, <1>2, <1>3, <1>4, <1>11 DEF AckRequest
<1>14. MotionIsAck(p)
  BY <1>1, <1>4, <1>5, <1>11, <1>12 DEF MotionIsAck
<1>15. Room(p)
  <2>1. {r.id : r \in p.pending} = {r.id : r \in c.pending}
    BY <1>2, <1>3
  <2>2. Used(p) = Used(c)
    BY <1>4, <1>11, <2>1 DEF Used
  <2>3. QED
    BY <1>1, <1>12, <2>2 DEF Room, Free
<1>16. QED
  BY <1>7, <1>9, <1>10, <1>12, <1>13, <1>14, <1>15 DEF CommandOK, p

\* A state query uses one id and leaves the followed command alone.
LEMMA BuildOK ==
  ASSUME NEW c, CommandOK(c), NEW action \in Queries,
         NEW i \in Free(c), NEW j \in Free(c), i # j
  PROVE  /\ CommandOK(Build(c, action)) /\ Build(c, action).motion = c.motion
         /\ Free(Build(c, action)) = Free(c) \ {FreshId(c)}
<1> DEFINE id == FreshId(c)
           new == [id |-> id, action |-> action, age |-> 0]
           p == Build(c, action)
<1>1. c \in Command /\ IsFiniteSet(c.pending) /\ UniqueIds(c) /\ AckRequest(c) /\ MotionIsAck(c) /\ Room(c)
  BY DEF CommandOK
<1>2. id \in Free(c) /\ id \in Ids /\ \A r \in c.pending : r.id # id
  BY FreshIsFree DEF Free, Used
<1>3. c.ack # None => c.ack.id # id
  BY <1>2 DEF Free, Used
<1>4. p = [ack |-> c.ack, motion |-> c.motion, pending |-> c.pending \cup {new},
           timeouts |-> c.timeouts]
  BY <1>1 DEF Build, Command
<1> HIDE DEF id, p
<1>5. new \in Request
  BY <1>2, InterfaceAssumption DEF Request
<1>6. p \in Command
  BY <1>1, <1>4, <1>5 DEF Command
<1>7. UniqueIds(p) /\ AckRequest(p)
  BY <1>1, <1>2, <1>3, <1>4 DEF UniqueIds, AckRequest
<1>8. MotionIsAck(p)
  BY <1>1, <1>4 DEF MotionIsAck
<1>9. Free(p) = Free(c) \ {id}
  <2>1. {r.id : r \in p.pending} = {r.id : r \in c.pending} \cup {id}
    <3>1. p.pending = c.pending \cup {new} /\ new.id = id
      BY <1>4
    <3> HIDE DEF new
    <3>2. QED
      BY <3>1
  <2>2. Used(p) = Used(c) \cup {id}
    BY <1>4, <2>1 DEF Used
  <2>3. QED
    BY <2>2 DEF Free
<1>10. Room(p)
  BY <1>9 DEF Room
<1>11. IsFiniteSet(p.pending)
  <2>1. IsFiniteSet(c.pending \cup {new})
    BY <1>1, FS_AddElement
  <2>2. QED
    BY <1>4, <2>1
<1>12. QED
  BY <1>4, <1>6, <1>7, <1>8, <1>9, <1>10, <1>11, SMTT(30) DEF CommandOK, id, p

----------------------------------------------------------------------------
\* The invariant.

LEMMA InitIInv == Init => IInv
<1> SUFFICES ASSUME Init PROVE IInv
  OBVIOUS
<1>1. Scalars
  <2>1. running \in BOOLEAN /\ due \in BOOLEAN /\ apiFailed \in BOOLEAN
    BY Zenon DEF Init
  <2>2. mode \in {"sport_api_loco", None}
    BY DEF Init
  <2>3. QED
    BY <2>1, <2>2, InterfaceAssumption DEF Init, Scalars
<1>2. CommandOK(cmd)
  <2>1. IsFiniteSet(cmd.pending)
    BY FS_EmptySet DEF Init
  <2>2. cmd \in Command
    BY InterfaceAssumption DEF Init, Command
  <2>3. QED
    BY <2>1, <2>2 DEF Init, CommandOK, UniqueIds, AckRequest, MotionIsAck, Room
<1>3. Supervised
  BY DEF Init, Supervised
<1>4. ModeKnown
  BY InterfaceAssumption DEF Init, ModeKnown, ModeFresh
<1>5. QED
  BY <1>1, <1>2, <1>3, <1>4 DEF IInv

\* The stop that a stop request sends, if it sends one.
LEMMA StopOK ==
  ASSUME NEW c, CommandOK(c), c.motion # None
  PROVE  CommandOK(PublishStop(c)) /\ PublishStop(c).motion = None
<1>1. c.ack.kind = "motion" /\ Free(c) # {}
  BY DEF CommandOK, MotionIsAck, Room
<1>2. PublishStop(c) = PublishVelocity(c, "stop", 0)
  BY <1>1 DEF PublishStop, StopPending
<1>3. QED
  BY <1>1, <1>2, PublishStopOK DEF CommandOK

LEMMA StepIInv == IInv /\ [Next]_vars => IInv'
<1> SUFFICES ASSUME IInv, [Next]_vars PROVE IInv'
  OBVIOUS
<1> USE DEF IInv
<1>1. CASE UNCHANGED vars
  BY <1>1 DEF vars, Scalars, CommandOK, UniqueIds, AckRequest, MotionIsAck, Room,
              Free, Used, Supervised, ModeKnown, LowstateFresh, SafetyFresh, ModeFresh
<1>2. CASE OnLowstate
  <2>1. Scalars'
    BY <1>2, InterfaceAssumption DEF OnLowstate, Scalars
  <2>2. LowstateFresh'
    BY <1>2, InterfaceAssumption DEF OnLowstate, LowstateFresh
  <2>3. Supervised' /\ ModeKnown' /\ CommandOK(cmd')
    BY <1>2, <2>2 DEF OnLowstate, Supervised, ModeKnown, SafetyFresh, ModeFresh
  <2>4. QED
    BY <2>1, <2>3 DEF CommandOK, UniqueIds, AckRequest, MotionIsAck, Room, Free, Used
<1>3. CASE OnSafetyState
  <2>1. Scalars'
    BY <1>3, InterfaceAssumption DEF OnSafetyState, Scalars
  <2>2. SafetyFresh'
    BY <1>3, InterfaceAssumption DEF OnSafetyState, SafetyFresh
  <2>3. Supervised' /\ ModeKnown' /\ CommandOK(cmd')
    BY <1>3, <2>2 DEF OnSafetyState, Supervised, ModeKnown, LowstateFresh, ModeFresh
  <2>4. QED
    BY <2>1, <2>3 DEF CommandOK, UniqueIds, AckRequest, MotionIsAck, Room, Free, Used
<1>4. ASSUME NEW kind \in {"motion", "stop"}, NEW d \in 0..(MaxDuration + 1), OnSafeLoco(kind, d)
      PROVE  IInv'
  <2>1. LowstateFresh /\ SafetyFresh /\ running /\ d \in 0..MaxDuration /\ d > 0
    BY <1>4, InterfaceAssumption DEF OnSafeLoco, LocoAllowed, DurationValid
  <2>2. PICK i \in Free(cmd), j \in Free(cmd) : i # j
    BY <1>4 DEF OnSafeLoco
  <2>3. cmd \in Command /\ IsFiniteSet(cmd.pending) /\ UniqueIds(cmd)
    BY DEF CommandOK
  <2>4. cmd' = PublishVelocity(cmd, kind, d)
    BY <1>4 DEF OnSafeLoco
  <2>5. CommandOK(cmd') /\ (cmd'.motion # None => cmd'.motion.left > 0)
    <3>1. CASE kind = "motion"
      <4>1. cmd' = PublishVelocity(cmd, "motion", d)
        BY <2>4, <3>1
      <4>2. CommandOK(cmd') /\ cmd'.motion = [id |-> FreshId(cmd), left |-> d]
        BY <2>1, <2>2, <2>3, <4>1, PublishMotionOK
      <4>3. QED
        BY <2>1, <4>2
    <3>2. CASE kind = "stop"
      <4>1. cmd' = PublishVelocity(cmd, "stop", 0)
        BY <2>4, <3>2 DEF PublishVelocity
      <4>2. QED
        BY <2>2, <2>3, <4>1, PublishStopOK
    <3>3. QED
      BY <3>1, <3>2
  <2>6. Scalars' /\ ModeKnown'
    BY <1>4 DEF OnSafeLoco, Scalars, ModeKnown, ModeFresh
  <2>7. Supervised'
    BY <1>4, <2>1, <2>5 DEF OnSafeLoco, Supervised, LowstateFresh, SafetyFresh
  <2>8. QED
    BY <2>5, <2>6, <2>7 DEF CommandOK, UniqueIds, AckRequest, MotionIsAck, Room, Free, Used
<1>5. CASE OnSafeStop
  <2>1. CommandOK(cmd') /\ cmd'.motion = None
    BY <1>5, PublishStopOK DEF OnSafeStop, CommandOK
  <2>2. Scalars' /\ ModeKnown' /\ Supervised'
    BY <1>5, <2>1 DEF OnSafeStop, Scalars, ModeKnown, ModeFresh, Supervised
  <2>3. QED
    BY <2>1, <2>2 DEF CommandOK, UniqueIds, AckRequest, MotionIsAck, Room, Free, Used
<1>6. CASE QuerySportMode
  <2> DEFINE asked == IF "get_fsm_mode" \in Queries THEN Build(cmd, "get_fsm_mode") ELSE cmd
  <2>1. PICK i \in Free(cmd), j \in Free(cmd), k \in Free(cmd) : i # j /\ j # k /\ i # k
    BY <1>6 DEF QuerySportMode
  <2>2. /\ CommandOK(asked) /\ asked.motion = cmd.motion
        /\ \E x, y \in Free(asked) : x # y
    <3>1. CASE "get_fsm_mode" \in Queries
      <4>1. /\ CommandOK(asked) /\ asked.motion = cmd.motion
            /\ Free(asked) = Free(cmd) \ {FreshId(cmd)}
        BY <2>1, <3>1, BuildOK
      <4>2. QED
        BY <2>1, <4>1
    <3>2. CASE "get_fsm_mode" \notin Queries
      BY <2>1, <3>2
    <3>3. QED
      BY <3>1, <3>2
  <2>3. cmd' = IF "get_fsm_id" \in Queries THEN Build(asked, "get_fsm_id") ELSE asked
    BY <1>6 DEF QuerySportMode
  <2> HIDE DEF asked
  <2>4. CommandOK(cmd') /\ cmd'.motion = cmd.motion
    BY <2>2, <2>3, BuildOK
  <2>5. Scalars' /\ ModeKnown' /\ Supervised'
    BY <1>6, <2>4 DEF QuerySportMode, Scalars, ModeKnown, ModeFresh, Supervised,
                      LowstateFresh, SafetyFresh
  <2>6. QED
    BY <2>4, <2>5 DEF CommandOK, UniqueIds, AckRequest, MotionIsAck, Room, Free, Used
<1>7. CASE OnUnmatchedResponse
  BY <1>7 DEF OnUnmatchedResponse, Scalars, CommandOK, UniqueIds, AckRequest, MotionIsAck,
              Room, Free, Used, Supervised, ModeKnown, LowstateFresh, SafetyFresh, ModeFresh
<1>8. ASSUME NEW r \in cmd.pending, OnMalformedResponse(r) PROVE IInv'
  <2>1. cmd.timeouts \in 0..UnhealthyCount
    BY DEF CommandOK, Command
  <2>2. cmd' = Forget(cmd, {r}, cmd.timeouts)
    BY <1>8 DEF OnMalformedResponse
  <2>3. CommandOK(cmd') /\ cmd'.motion = cmd.motion
    BY <2>1, <2>2, DropOK
  <2>4. Scalars' /\ ModeKnown' /\ Supervised'
    BY <1>8, <2>3 DEF OnMalformedResponse, Scalars, ModeKnown, ModeFresh, Supervised,
                      LowstateFresh, SafetyFresh
  <2>5. QED
    BY <2>3, <2>4 DEF CommandOK, UniqueIds, AckRequest, MotionIsAck, Room, Free, Used
<1>9. ASSUME NEW r \in cmd.pending, NEW code \in {0, 1}, NEW p \in Payloads \ {"malformed"},
             OnSportResponse(r, code, p)
      PROVE  IInv'
  <2> DEFINE a == Answered(cmd, r, code)
  <2>1. /\ CommandOK(a) /\ a.motion \in {cmd.motion, None}
        /\ r.action # "set_velocity" => Free(a) # {}
    BY AnsweredOK
  <2>2. /\ running /\ running' = ~Crashes(r, code, p)
        /\ cmd' = IF Crashes(r, code, p) THEN PublishVelocity(a, "stop", 0) ELSE a
        /\ UNCHANGED <<due, lowstateAge, safetyAge>>
    BY <1>9 DEF OnSportResponse
  <2> HIDE DEF a
  <2>3. /\ CommandOK(cmd')
        /\ running' = FALSE => cmd'.motion = None
        /\ cmd'.motion \in {cmd.motion, None}
    <3>1. CASE Crashes(r, code, p)
      <4>1. Free(a) # {}
        BY <2>1, <3>1 DEF Crashes
      <4>2. QED
        BY <2>1, <2>2, <3>1, <4>1, PublishStopOK DEF CommandOK
    <3>2. CASE ~Crashes(r, code, p)
      BY <2>1, <2>2, <3>2
    <3>3. QED
      BY <3>1, <3>2
  <2>4. mode' \in {"sport_api_loco", None} /\ modeAge' \in 0..(ModeTimeout + 1) /\ ModeKnown'
    BY <1>9, InterfaceAssumption DEF OnSportResponse, Scalars, ModeKnown, ModeFresh
  <2>5. Scalars'
    <3>1. running' \in BOOLEAN
      BY <2>2, ZenonT(20) DEF Crashes
    <3>2. apiFailed' \in BOOLEAN
      BY <1>9 DEF OnSportResponse
    <3>3. QED
      BY <2>2, <2>4, <3>1, <3>2 DEF Scalars
  <2>6. Supervised'
    BY <2>2, <2>3, <2>5 DEF Supervised, LowstateFresh, SafetyFresh, Scalars
  <2>7. QED
    BY <2>3, <2>4, <2>5, <2>6 DEF CommandOK, UniqueIds, AckRequest, MotionIsAck, Room, Free, Used
<1>10. CASE WatchdogTick
  <2> DEFINE c == Expire(cmd)
  <2>1. CommandOK(c) /\ c.motion \in {cmd.motion, None}
    BY ExpireOK
  <2>2. cmd' = IF c.motion # None /\ WatchdogFires(c) THEN PublishStop(c) ELSE c
    BY <1>10 DEF WatchdogTick
  <2> HIDE DEF c
  <2>3. CommandOK(cmd') /\ (cmd'.motion # None => cmd' = c /\ ~WatchdogFires(c))
    BY <2>1, <2>2, StopOK
  <2>4. cmd'.motion # None => LowstateFresh /\ SafetyFresh /\ cmd'.motion.left > 0
    <3>1. SUFFICES ASSUME cmd'.motion # None
                   PROVE  LowstateFresh /\ SafetyFresh /\ cmd'.motion.left > 0
      OBVIOUS
    <3>2. cmd'.motion \in Motion
      BY <2>3, <3>1 DEF CommandOK, Command
    <3>3. cmd'.motion.left \in 0..MaxDuration
      BY <3>2 DEF Motion
    <3>4. LowstateFresh /\ SafetyFresh /\ cmd'.motion.left # 0
      BY <2>3, <3>1 DEF WatchdogFires
    <3>5. QED
      BY <3>3, <3>4, InterfaceAssumption
  <2>5. Scalars' /\ ModeKnown' /\ Supervised'
    BY <1>10, <2>1, <2>3, <2>4 DEF WatchdogTick, Scalars, ModeKnown, ModeFresh, Supervised,
                                   LowstateFresh, SafetyFresh
  <2>6. QED
    BY <2>3, <2>5 DEF CommandOK, UniqueIds, AckRequest, MotionIsAck, Room, Free, Used
<1>11. CASE PublishHealth
  <2>1. CommandOK(cmd') /\ cmd'.motion \in {cmd.motion, None}
    BY <1>11, ExpireOK DEF PublishHealth
  <2>2. Scalars' /\ ModeKnown' /\ Supervised'
    BY <1>11, <2>1 DEF PublishHealth, Scalars, ModeKnown, ModeFresh, Supervised,
                       LowstateFresh, SafetyFresh
  <2>3. QED
    BY <2>1, <2>2 DEF CommandOK, UniqueIds, AckRequest, MotionIsAck, Room, Free, Used
<1>12. CASE Shutdown
  <2>1. CommandOK(cmd') /\ cmd'.motion = None
    BY <1>12, PublishStopOK DEF Shutdown, CommandOK
  <2>2. running' \in BOOLEAN
    BY <1>12, Zenon DEF Shutdown
  <2>3. Scalars' /\ ModeKnown' /\ Supervised'
    BY <1>12, <2>1, <2>2 DEF Shutdown, Scalars, ModeKnown, ModeFresh, Supervised
  <2>4. QED
    BY <2>1, <2>3 DEF CommandOK, UniqueIds, AckRequest, MotionIsAck, Room, Free, Used
<1>13. CASE Tick
  <2>1. CommandOK(cmd') /\ (cmd'.motion # None => cmd.motion # None)
    BY <1>13, AgedOK DEF Tick
  <2>2. /\ lowstateAge' \in 0..(StateTimeout + 1)
        /\ safetyAge' \in 0..(SafetyTimeout + 1)
        /\ modeAge' \in 0..(ModeTimeout + 1)
    BY <1>13, OlderInRange, InterfaceAssumption DEF Tick, Scalars
  <2>3. due' \in BOOLEAN
    BY <1>13, Zenon DEF Tick
  <2>4. Scalars'
    BY <1>13, <2>2, <2>3 DEF Tick, Scalars
  <2>5. ModeKnown'
    BY <1>13, InterfaceAssumption DEF Tick, Scalars, ModeKnown, ModeFresh, Older
  <2>6. Supervised'
    BY <1>13, <2>1 DEF Tick, Supervised
  <2>7. QED
    BY <2>1, <2>4, <2>5, <2>6 DEF CommandOK, UniqueIds, AckRequest, MotionIsAck, Room, Free, Used
<1>14. QED
  BY <1>1, <1>2, <1>3, <1>4, <1>5, <1>6, <1>7, <1>8, <1>9, <1>10, <1>11, <1>12, <1>13 DEF Next, Callback

LEMMA InterfaceInv == Spec => []IInv
BY InitIInv, StepIInv, PTL DEF Spec

----------------------------------------------------------------------------
(* The state of g1_interface always has its type: no request table, motion  *)
(* or acknowledgement goes outside the ranges the limits give.              *)
THEOREM InterfaceTypeOK == Spec => []TypeOK
<1>1. IInv => TypeOK
  BY DEF IInv, Scalars, CommandOK, TypeOK
<1>2. QED
  BY <1>1, InterfaceInv, PTL

(* The running motion is the last command sent and has not failed, for any  *)
(* number of requests in flight.                                            *)
THEOREM InterfaceMotionIsLastCommand == Spec => []MotionIsLastCommand
<1>1. IInv => MotionIsLastCommand
  BY DEF IInv, CommandOK, MotionIsAck, MotionIsLastCommand
<1>2. QED
  BY <1>1, InterfaceInv, PTL

(* After the watchdog of a tick a motion is running only while every        *)
(* condition it supervises holds, for all timeouts.                         *)
THEOREM InterfaceMotionSupervised == Spec => []MotionSupervised
<1>1. IInv => MotionSupervised
  BY DEF IInv, Supervised, MotionSupervised
<1>2. QED
  BY <1>1, InterfaceInv, PTL

(* A health report of "ok" means that the gate of on_safe_loco is open.     *)
THEOREM InterfaceHealthyMeansAllowed == Spec => []HealthyMeansAllowed
<1>1. IInv => HealthyMeansAllowed
  BY DEF IInv, ModeKnown, HealthyMeansAllowed, Health, LocoAllowed
<1>2. QED
  BY <1>1, InterfaceInv, PTL

-----------------------------------------------------------------------------
(* The chain.                                                               *)

HIDE ConfigAssumption DEF Accepted

(* What was said last: the speed of the last request on the wire or, when   *)
(* there is none, of the robot, which has taken them all.                   *)
LastSpeed ==
  IF wire = <<>> THEN IF Sim!HasVelocity(robot) THEN 1 ELSE 0
  ELSE wire[Len(wire)].speed

\* A robot without supervision was told to stop, if what was said last arrives.
LastSaid == lost \/ cmd.motion # None \/ LastSpeed = 0

ChainTyped == wire \in Seq(Velocity) /\ robot \in Sim!Motion /\ lost \in BOOLEAN

ChainInv == IInv /\ ChainTyped /\ LastSaid

-----------------------------------------------------------------------------
(* The interface never ends a motion without a new request.                 *)

EndsAloud(c, d) ==
  c.motion # None /\ d.motion = None => d.ack # None /\ d.ack.id # c.ack.id

LEMMA PublishIsNew ==
  ASSUME NEW c \in Command, Free(c) # {}, NEW kind \in {"motion", "stop"},
         NEW d, NEW p, p = PublishVelocity(c, kind, d)
  PROVE  /\ p.ack # None
         /\ c.ack # None => p.ack.id # c.ack.id
<1> DEFINE a == [id |-> FreshId(c), state |-> "pending", kind |-> kind, age |-> 0]
<1>1. p.ack = a
  BY PublishFields
<1>2. FreshId(c) \in Ids /\ FreshId(c) \notin Used(c)
  BY FreshIsFree DEF Free
<1>3. a \in Ack
  BY <1>2, InterfaceAssumption, ConfigAssumption DEF Accepted, Ack
<1>4. a # None /\ a.id = FreshId(c)
  BY <1>3, InterfaceAssumption, ConfigAssumption DEF Accepted
<1>5. c.ack # None => c.ack.id \in Used(c)
  BY DEF Used
<1>6. QED
  BY <1>1, <1>2, <1>4, <1>5

LEMMA StopEndsAloud ==
  ASSUME NEW c, CommandOK(c), c.motion # None, NEW p, p = PublishStop(c)
  PROVE  EndsAloud(c, p)
<1>1. c.ack # None /\ c.ack.kind = "motion" /\ Free(c) # {} /\ c \in Command
  BY DEF CommandOK, MotionIsAck, Room
<1>2. p = PublishVelocity(c, "stop", 0)
  BY <1>1 DEF PublishStop, StopPending
<1>3. QED
  BY <1>1, <1>2, PublishIsNew DEF EndsAloud

\* A command whose request met its fate, with the stop that follows it.
LEMMA ResolvedEndsAloud ==
  ASSUME NEW c, CommandOK(c), NEW R \in SUBSET c.pending, NEW n \in 0..UnhealthyCount,
         NEW s \in {"rejected", "timed_out"}, c.ack # None,
         \E r \in R : r.id = c.ack.id,
         NEW t, t = Resolve(Forget(c, R, n), s)
  PROVE  EndsAloud(c, t) /\ EndsAloud(c, PublishStop(t))
<1>1. Resolved(c, t, s)
  BY ResolveOK
<1>2. /\ t \in Command /\ Free(c) \subseteq Free(t)
      /\ t.ack # None /\ t.ack.id = c.ack.id
      /\ t.ack.state = s /\ t.motion = c.motion
  BY <1>1 DEF Resolved
<1>3. PublishStop(t) = PublishVelocity(t, "stop", 0)
  BY <1>2 DEF PublishStop, StopPending, AckState
<1>4. c.motion # None => Free(t) # {}
  BY <1>2 DEF CommandOK, Room
<1>5. QED
  BY <1>2, <1>3, <1>4, PublishIsNew DEF EndsAloud

LEMMA ExpireEndsAloud ==
  ASSUME NEW c, CommandOK(c)
  PROVE  EndsAloud(c, Expire(c))
<1> DEFINE n == CountTimeouts(c)
           forgotten == Forget(c, Expired(c), n)
           timedOut == Resolve(forgotten, "timed_out")
<1>1. n \in 0..UnhealthyCount
  BY CountInRange DEF CommandOK
<1>2. forgotten.motion = c.motion
  BY <1>1, DropOK
<1>3. CASE ~AckExpires(c)
  <2>1. Expire(c) = forgotten
    BY <1>3 DEF Expire
  <2>2. QED
    BY <1>2, <2>1 DEF EndsAloud
<1>4. CASE AckExpires(c)
  <2>1. /\ c.ack # None /\ Expired(c) \in SUBSET c.pending
        /\ \E r \in Expired(c) : r.id = c.ack.id
    BY <1>4 DEF AckExpires, AckState, Expired
  <2>2. EndsAloud(c, timedOut) /\ EndsAloud(c, PublishStop(timedOut))
    <3> HIDE DEF n
    <3>1. QED
      BY <1>1, <2>1, ResolvedEndsAloud
  <2>3. Expire(c) \in {timedOut, PublishStop(timedOut)}
    BY <1>4 DEF Expire
  <2>4. QED
    BY <2>2, <2>3
<1>5. QED
  BY <1>3, <1>4

LEMMA AnsweredEndsAloud ==
  ASSUME NEW c, CommandOK(c), NEW r \in c.pending, NEW code \in {0, 1}
  PROVE  EndsAloud(c, Answered(c, r, code))
<1> DEFINE done == Forget(c, {r}, 0)
           resolved == Resolve(done, Fate(code))
<1>1. 0 \in 0..UnhealthyCount
  BY InterfaceAssumption, ConfigAssumption DEF Accepted
<1>2. done.motion = c.motion
  BY <1>1, DropOK
<1>3. CASE c.ack = None \/ c.ack.id # r.id
  <2>1. Answered(c, r, code) = done
    BY <1>3 DEF Answered
  <2>2. QED
    BY <1>2, <2>1 DEF EndsAloud
<1>4. CASE c.ack # None /\ c.ack.id = r.id /\ code = 0
  <2>1. Answered(c, r, code) = resolved
    BY <1>4 DEF Answered
  <2>2. Resolved(c, resolved, "acknowledged")
    BY <1>1, <1>4, ResolveOK DEF Fate
  <2>3. resolved.motion = c.motion
    BY <2>2 DEF Resolved
  <2>4. QED
    BY <2>1, <2>3 DEF EndsAloud
<1>5. CASE c.ack # None /\ c.ack.id = r.id /\ code # 0
  <2>1. EndsAloud(c, resolved) /\ EndsAloud(c, PublishStop(resolved))
    BY <1>1, <1>5, ResolvedEndsAloud DEF Fate
  <2>2. Answered(c, r, code) \in {resolved, PublishStop(resolved)}
    BY <1>5 DEF Answered
  <2>3. QED
    BY <2>1, <2>2
<1>6. QED
  BY <1>3, <1>4, <1>5

\* A callback sends a new request or leaves a motion that runs running.
LEMMA CallbackEndsAloud ==
  ASSUME IInv, Callback
  PROVE  EndsAloud(cmd, cmd')
<1>1. CommandOK(cmd) /\ cmd \in Command /\ (cmd.motion # None => cmd.ack # None)
  BY DEF IInv, CommandOK, MotionIsAck
<1>2. CASE UNCHANGED cmd
  BY <1>2 DEF EndsAloud
<1>3. ASSUME NEW kind \in {"motion", "stop"}, NEW d \in Int, Free(cmd) # {},
             cmd' = PublishVelocity(cmd, kind, d)
      PROVE  EndsAloud(cmd, cmd')
  BY <1>1, <1>3, PublishIsNew DEF EndsAloud
<1>4. ASSUME NEW kind \in {"motion", "stop"}, NEW d \in 0..(MaxDuration + 1),
             OnSafeLoco(kind, d)
      PROVE  EndsAloud(cmd, cmd')
  BY <1>3, <1>4, InterfaceAssumption, ConfigAssumption DEF Accepted, OnSafeLoco
<1>5. CASE OnSafeStop \/ Shutdown
  BY <1>3, <1>5 DEF OnSafeStop, Shutdown
<1>6. CASE QuerySportMode
  <2>1. cmd'.motion = cmd.motion
    BY <1>1, <1>6 DEF QuerySportMode, Build, Command
  <2>2. QED
    BY <2>1 DEF EndsAloud
<1>7. ASSUME NEW r \in cmd.pending, OnMalformedResponse(r) PROVE EndsAloud(cmd, cmd')
  <2>1. cmd.timeouts \in 0..UnhealthyCount /\ cmd' = Forget(cmd, {r}, cmd.timeouts)
    BY <1>1, <1>7 DEF OnMalformedResponse, Command
  <2>2. cmd'.motion = cmd.motion
    BY <1>1, <2>1, DropOK
  <2>3. QED
    BY <2>2 DEF EndsAloud
<1>8. ASSUME NEW r \in cmd.pending, NEW code \in {0, 1}, NEW p \in Payloads \ {"malformed"},
             OnSportResponse(r, code, p)
      PROVE  EndsAloud(cmd, cmd')
  <2> DEFINE a == Answered(cmd, r, code)
  <2>1. EndsAloud(cmd, a)
    BY <1>1, AnsweredEndsAloud
  <2>2. CASE ~Crashes(r, code, p)
    BY <1>8, <2>1, <2>2 DEF OnSportResponse
  <2>3. CASE Crashes(r, code, p)
    <3>1. cmd' = PublishVelocity(a, "stop", 0)
      BY <1>8, <2>3 DEF OnSportResponse
    <3>2. a.ack = cmd.ack
      <4>1. r.action # "set_velocity"
        BY <2>3 DEF Crashes
      <4>2. cmd.ack = None \/ cmd.ack.id # r.id
        BY <1>1, <4>1 DEF CommandOK, AckRequest
      <4>3. a = Forget(cmd, {r}, 0)
        BY <4>2 DEF Answered
      <4>4. QED
        BY <1>1, <4>3, DropOK, InterfaceAssumption, ConfigAssumption DEF Accepted
    <3>3. CommandOK(a) /\ Free(a) # {}
      BY <1>1, <2>3, AnsweredOK DEF Crashes
    <3> HIDE DEF a
    <3>4. QED
      BY <1>1, <3>1, <3>2, <3>3, PublishIsNew DEF EndsAloud, CommandOK
  <2>4. QED
    BY <2>2, <2>3
<1>9. CASE WatchdogTick
  <2> DEFINE e == Expire(cmd)
  <2>1. EndsAloud(cmd, e) /\ CommandOK(e) /\ e.motion \in {cmd.motion, None}
    BY <1>1, ExpireEndsAloud, ExpireOK
  <2>2. cmd' = IF e.motion # None /\ WatchdogFires(e) THEN PublishStop(e) ELSE e
    BY <1>9 DEF WatchdogTick
  <2> HIDE DEF e
  <2>3. CASE e.motion = None
    BY <2>1, <2>2, <2>3
  <2>4. CASE e.motion # None
    <3>1. e.motion = cmd.motion /\ e.ack.id = cmd.ack.id
      BY <1>1, <2>1, <2>4 DEF CommandOK, MotionIsAck
    <3>2. EndsAloud(e, PublishStop(e))
      BY <2>1, <2>4, StopEndsAloud
    <3>3. QED
      BY <2>2, <2>4, <3>1, <3>2 DEF EndsAloud
  <2>5. QED
    BY <2>3, <2>4
<1>10. CASE PublishHealth
  BY <1>1, <1>10, ExpireEndsAloud DEF PublishHealth
<1>11. CASE OnLowstate \/ OnSafetyState \/ OnUnmatchedResponse
  BY <1>2, <1>11 DEF OnLowstate, OnSafetyState, OnUnmatchedResponse
<1>12. QED
  BY <1>4, <1>5, <1>6, <1>7, <1>8, <1>9, <1>10, <1>11 DEF Callback

-----------------------------------------------------------------------------
(* The robot.                                                               *)

\* The robot takes the speed of a request, and keeps or loses it otherwise.
LEMMA RobotMotion ==
  ASSUME NEW m \in Sim!Motion
  PROVE  /\ Sim!Integrate(m) \in Sim!Motion
         /\ Sim!HasVelocity(Sim!Integrate(m)) => Sim!HasVelocity(m)
         /\ Sim!Passes(m, 1, -1) \in Sim!Motion
         /\ Sim!HasVelocity(Sim!Passes(m, 1, -1)) <=> Sim!HasVelocity(m)
         /\ \A speed \in {0, 1}, d \in Int :
              /\ Sim!SetVelocity(m, speed, 0, d) \in Sim!Motion
              /\ Sim!HasVelocity(Sim!SetVelocity(m, speed, 0, d)) <=> speed = 1
<1>1. /\ m.vx \in {0, 1} /\ m.turn \in {0, 1} /\ m.left \in Int
      /\ m.since \in Int \cup {None} /\ 0 \in Int \cup {None}
  BY DEF Sim!Motion
<1> DEFINE i == Sim!Integrate(m)
<1>2. i \in Sim!Motion /\ (Sim!HasVelocity(i) => Sim!HasVelocity(m))
  <2>1. CASE m.since = None
    BY <1>1, <2>1 DEF Sim!Integrate, Sim!Motion, Sim!HasVelocity
  <2>2. CASE m.since # None /\ m.left > 0
    BY <1>1, <2>2 DEF Sim!Integrate, Sim!Motion, Sim!HasVelocity
  <2>3. CASE m.since # None /\ ~(m.left > 0)
    <3> DEFINE v == IF m.left <= 0 THEN 0 ELSE m.vx
               w == IF m.left <= 0 THEN 0 ELSE m.turn
    <3>1. i = [m EXCEPT !.since = 0, !.vx = v, !.turn = w]
      BY <2>3 DEF Sim!Integrate
    <3>2. v = 0 /\ w = 0
      BY <1>1, <2>3
    <3> HIDE DEF i, v, w
    <3>3. i \in Sim!Motion
      BY <1>1, <3>1, <3>2 DEF Sim!Motion
    <3>4. i.vx = 0 /\ i.turn = 0
      BY <3>1, <3>2 DEF Sim!Motion
    <3>5. QED
      BY <3>3, <3>4 DEF Sim!HasVelocity
  <2>4. QED
    BY <1>1, <2>1, <2>2, <2>3
<1> DEFINE left == IF m.left - 1 < -1 THEN -1 ELSE m.left - 1
           since == IF m.since = None THEN None ELSE m.since + 1
           n == Sim!Passes(m, 1, -1)
<1>3. n \in Sim!Motion /\ (Sim!HasVelocity(n) <=> Sim!HasVelocity(m))
  <2>1. n = [m EXCEPT !.left = left, !.since = since]
    BY DEF Sim!Passes
  <2>2. left \in Int /\ since \in Int \cup {None}
    BY <1>1
  <2> HIDE DEF n, left, since
  <2>3. n \in Sim!Motion
    BY <2>1, <2>2 DEF Sim!Motion
  <2>4. n.vx = m.vx /\ n.turn = m.turn
    BY <2>1 DEF Sim!Motion
  <2>5. QED
    BY <2>3, <2>4 DEF Sim!HasVelocity
<1> HIDE DEF i
<1>4. ASSUME NEW speed \in {0, 1}, NEW d \in Int
      PROVE  /\ Sim!SetVelocity(m, speed, 0, d) \in Sim!Motion
             /\ Sim!HasVelocity(Sim!SetVelocity(m, speed, 0, d)) <=> speed = 1
  <2> DEFINE l == IF d > 0 THEN d ELSE 0
             s == Sim!SetVelocity(m, speed, 0, d)
  <2>1. s = [i EXCEPT !.vx = speed, !.turn = 0, !.left = l]
    BY DEF Sim!SetVelocity, i
  <2>2. l \in Int
    OBVIOUS
  <2> HIDE DEF l, s
  <2>3. s \in Sim!Motion
    BY <1>2, <2>1, <2>2 DEF Sim!Motion
  <2>4. s.vx = speed /\ s.turn = 0
    BY <1>2, <2>1 DEF Sim!Motion
  <2>5. QED
    BY <2>3, <2>4 DEF Sim!HasVelocity, s
<1>5. QED
  BY <1>2, <1>3, <1>4 DEF i

-----------------------------------------------------------------------------
(* The wire.                                                                *)

\* A request that is lost, other than the last, leaves the last.
LEMMA LosingKeepsLast ==
  ASSUME NEW S, NEW w \in Seq(S), NEW k \in DOMAIN w, NEW v, v = RemoveAt(w, k)
  PROVE  /\ v \in Seq(S)
         /\ k # Len(w) => v # <<>> /\ v[Len(v)] = w[Len(w)]
<1> DEFINE a == SubSeq(w, 1, k - 1)
           b == SubSeq(w, k + 1, Len(w))
<1>1. k \in 1..Len(w) /\ Len(w) \in Nat
  OBVIOUS
<1>2. a \in Seq(S) /\ Len(a) = k - 1
  BY <1>1
<1>3. /\ b \in Seq(S) /\ Len(b) = Len(w) - k
      /\ \A j \in 1..(Len(w) - k) : b[j] = w[k + j]
  BY <1>1
<1>4. v = a \o b
  BY DEF RemoveAt
<1> HIDE DEF a, b
<1>5. /\ v \in Seq(S) /\ Len(v) = Len(w) - 1
      /\ \A j \in 1..Len(v) : v[j] = IF j <= Len(a) THEN a[j] ELSE b[j - Len(a)]
  <2>1. /\ a \o b \in Seq(S) /\ Len(a \o b) = Len(a) + Len(b)
        /\ \A j \in 1..(Len(a) + Len(b)) :
             (a \o b)[j] = IF j <= Len(a) THEN a[j] ELSE b[j - Len(a)]
    BY ONLY <1>2, <1>3, ConcatProperties, Zenon
  <2>2. Len(v) = Len(a) + Len(b) /\ v \in Seq(S)
    BY ONLY <1>4, <2>1, Zenon
  <2>3. Len(a) + Len(b) = Len(w) - 1
    BY ONLY <1>1, <1>2, <1>3
  <2>4. QED
    BY ONLY <1>4, <2>1, <2>2, <2>3, Zenon
<1>6. ASSUME k # Len(w) PROVE v # <<>> /\ v[Len(v)] = w[Len(w)]
  <2>1. Len(v) > Len(a) /\ Len(v) - Len(a) = Len(w) - k /\ Len(w) - k \in 1..(Len(w) - k)
    BY <1>1, <1>2, <1>5, <1>6
  <2>2. v[Len(v)] = b[Len(w) - k]
    <3>1. Len(v) \in 1..Len(v) /\ ~(Len(v) <= Len(a))
      BY <1>1, <1>2, <1>5, <2>1
    <3>2. v[Len(v)] = b[Len(v) - Len(a)]
      BY <1>5, <3>1
    <3>3. QED
      BY <2>1, <3>2
  <2>3. QED
    BY <1>1, <1>2, <1>3, <1>5, <2>1, <2>2
<1>7. QED
  BY <1>5, <1>6

-----------------------------------------------------------------------------
(* The invariant.                                                           *)

LEMMA InitChainInv == ChainInit => ChainInv
<1> SUFFICES ASSUME ChainInit PROVE ChainInv
  OBVIOUS
<1>1. IInv
  BY InitIInv DEF ChainInit
<1>2. ChainTyped /\ LastSaid
  <2>1. robot = Sim!Standing /\ wire = <<>> /\ lost = FALSE
    BY DEF ChainInit
  <2>2. Sim!Standing \in Sim!Motion /\ ~Sim!HasVelocity(Sim!Standing)
    BY DEF Sim!Standing, Sim!Motion, Sim!HasVelocity
  <2>3. LastSpeed = 0 /\ wire \in Seq(Velocity)
    BY <2>1, <2>2 DEF LastSpeed
  <2>4. QED
    BY <2>1, <2>2, <2>3 DEF ChainTyped, LastSaid
<1>3. QED
  BY <1>1, <1>2 DEF ChainInv

LEMMA IInvUnchanged == IInv /\ UNCHANGED vars => IInv'
BY StepIInv

\* What the interface sent is typed, and is what was said last.
LEMMA InterfaceStepOK ==
  ASSUME ChainInv, InterfaceStep
  PROVE  ChainInv'
<1>1. IInv'
  BY StepIInv DEF ChainInv, InterfaceStep, Next
<1>2. EndsAloud(cmd, cmd')
  BY CallbackEndsAloud DEF ChainInv, InterfaceStep
<1>3. VelocityRequest \in Velocity
  <2>1. cmd'.motion # None => cmd'.motion.left \in 0..MaxDuration
    BY <1>1 DEF IInv, CommandOK, Command, Motion
  <2>2. 0 \in 0..MaxDuration
    BY InterfaceAssumption, ConfigAssumption DEF Accepted
  <2>3. QED
    BY <2>1, <2>2 DEF VelocityRequest, Velocity
<1>4. CASE Sent
  <2>1. wire' = Append(wire, VelocityRequest) /\ lost' = FALSE /\ robot' = robot
    BY <1>4 DEF InterfaceStep, Send
  <2>2. /\ wire' \in Seq(Velocity) /\ wire' # <<>>
        /\ wire'[Len(wire')] = VelocityRequest
    <3> DEFINE q == VelocityRequest
    <3>1. wire \in Seq(Velocity) /\ q \in Velocity
      BY <1>3 DEF ChainInv, ChainTyped
    <3> HIDE DEF q
    <3>2. /\ Append(wire, q) \in Seq(Velocity) /\ Append(wire, q) # <<>>
          /\ Append(wire, q)[Len(Append(wire, q))] = q
      BY <3>1
    <3>3. QED
      BY <2>1, <3>2 DEF q
  <2>3. cmd'.motion = None => VelocityRequest.speed = 0
    BY DEF VelocityRequest
  <2>4. LastSaid'
    BY <2>2, <2>3 DEF LastSaid, LastSpeed
  <2>5. lost' \in BOOLEAN
    BY <2>1, Zenon
  <2>6. QED
    BY <1>1, <2>1, <2>2, <2>4, <2>5 DEF ChainInv, ChainTyped
<1>5. CASE ~Sent
  <2>1. UNCHANGED <<wire, lost, robot>>
    BY <1>5 DEF InterfaceStep, Send
  <2>2. cmd'.motion = None => cmd.motion = None
    <3>1. cmd.motion # None => cmd.ack # None
      BY DEF ChainInv, IInv, CommandOK, MotionIsAck
    <3>2. QED
      BY <1>2, <1>5, <3>1 DEF EndsAloud, Sent
  <2>3. LastSaid'
    BY <2>1, <2>2 DEF ChainInv, LastSaid, LastSpeed
  <2>4. QED
    BY <1>1, <2>1, <2>3 DEF ChainInv, ChainTyped
<1>6. QED
  BY <1>4, <1>5

LEMMA KillOK ==
  ASSUME ChainInv, Kill
  PROVE  ChainInv'
<1>1. /\ running' = FALSE /\ cmd' = NoCommand /\ lost' = TRUE
      /\ UNCHANGED <<due, lowstateAge, safetyAge, modeAge, mode, apiFailed, wire, robot>>
  BY DEF Kill
<1>2. CommandOK(cmd')
  <2>1. NoCommand \in Command
    BY InterfaceAssumption, ConfigAssumption DEF Accepted, NoCommand, Command
  <2>2. IsFiniteSet({})
    BY FS_EmptySet
  <2>3. QED
    BY <1>1, <2>1, <2>2
    DEF NoCommand, CommandOK, UniqueIds, AckRequest, MotionIsAck, Room
<1>3. running' \in BOOLEAN /\ lost' \in BOOLEAN
  BY <1>1, Zenon
<1>4. Scalars' /\ ModeKnown' /\ Supervised'
  BY <1>1, <1>3 DEF ChainInv, IInv, Scalars, ModeKnown, ModeFresh, Supervised, NoCommand
<1>5. CommandOK(cmd)'
  BY <1>2 DEF CommandOK, UniqueIds, AckRequest, MotionIsAck, Room, Free, Used
<1>6. LastSaid' /\ ChainTyped'
  BY <1>1, <1>3 DEF ChainInv, ChainTyped, LastSaid
<1>7. QED
  BY <1>4, <1>5, <1>6 DEF ChainInv, IInv

LEMMA RobotTakesOK ==
  ASSUME ChainInv, RobotTakes
  PROVE  ChainInv'
<1>1. /\ wire \in Seq(Velocity) /\ wire # <<>> /\ robot \in Sim!Motion
      /\ wire' = Tail(wire) /\ UNCHANGED <<vars, lost>>
      /\ robot' = Sim!SetVelocity(robot, Head(wire).speed, 0, Head(wire).duration)
  BY DEF ChainInv, ChainTyped, RobotTakes
<1>2. Head(wire).speed \in {0, 1} /\ Head(wire).duration \in Int
  <2>1. Head(wire) \in Velocity
    BY <1>1
  <2>2. QED
    BY <2>1, InterfaceAssumption, ConfigAssumption DEF Accepted, Velocity
<1>3. /\ robot' \in Sim!Motion
      /\ Sim!HasVelocity(robot') <=> Head(wire).speed = 1
  BY <1>1, <1>2, RobotMotion
<1>4. /\ wire' \in Seq(Velocity)
      /\ wire' = <<>> => wire[Len(wire)] = Head(wire)
      /\ wire' # <<>> => wire'[Len(wire')] = wire[Len(wire)]
  <2>1. /\ Tail(wire) \in Seq(Velocity) /\ Len(Tail(wire)) = Len(wire) - 1
        /\ \A k \in 1..Len(Tail(wire)) : Tail(wire)[k] = wire[k + 1]
    BY <1>1, HeadTailProperties
  <2>2. Len(wire) \in Nat \ {0} /\ Head(wire) = wire[1]
    BY <1>1, EmptySeq
  <2>3. Tail(wire) = <<>> => Len(wire) = 1
    <3>1. Tail(wire) = <<>> => Len(Tail(wire)) = 0
      BY EmptySeq
    <3>2. QED
      BY <2>1, <2>2, <3>1
  <2>4. Tail(wire) # <<>> => Len(Tail(wire)) \in 1..Len(Tail(wire))
    BY <2>1, EmptySeq
  <2>5. QED
    BY <1>1, <2>1, <2>2, <2>3, <2>4
<1>5. LastSpeed' = LastSpeed
  BY <1>1, <1>2, <1>3, <1>4 DEF LastSpeed, Sim!HasVelocity
<1>6. IInv'
  BY <1>1, IInvUnchanged DEF ChainInv
<1>7. QED
  BY <1>1, <1>3, <1>4, <1>5, <1>6 DEF ChainInv, ChainTyped, LastSaid, vars

LEMMA LoseRequestOK ==
  ASSUME ChainInv, LoseRequest
  PROVE  ChainInv'
<1>1. PICK k \in DOMAIN wire : wire' = RemoveAt(wire, k) /\ lost' = (lost \/ k = Len(wire))
  BY DEF LoseRequest
<1>2. wire \in Seq(Velocity) /\ UNCHANGED <<vars, robot>>
  BY DEF ChainInv, ChainTyped, LoseRequest
<1>3. /\ wire' \in Seq(Velocity)
      /\ k # Len(wire) => wire' # <<>> /\ wire'[Len(wire')] = wire[Len(wire)]
  BY <1>1, <1>2, LosingKeepsLast
<1>4. wire # <<>>
  BY <1>1
<1>5. LastSaid'
  BY <1>1, <1>2, <1>3, <1>4 DEF ChainInv, LastSaid, LastSpeed, vars
<1>6. lost' \in BOOLEAN
  BY <1>1 DEF ChainInv, ChainTyped
<1>7. IInv'
  BY <1>2, IInvUnchanged DEF ChainInv
<1>8. QED
  BY <1>2, <1>3, <1>5, <1>6, <1>7 DEF ChainInv, ChainTyped

LEMMA RobotPublishesOK ==
  ASSUME ChainInv, RobotPublishes
  PROVE  ChainInv'
<1>1. robot \in Sim!Motion /\ robot' = Sim!Integrate(robot) /\ UNCHANGED <<vars, wire, lost>>
  BY DEF ChainInv, ChainTyped, RobotPublishes
<1>2. robot' \in Sim!Motion /\ (Sim!HasVelocity(robot') => Sim!HasVelocity(robot))
  BY <1>1, RobotMotion
<1>3. LastSpeed = 0 => LastSpeed' = 0
  BY <1>1, <1>2 DEF LastSpeed, Sim!HasVelocity
<1>4. IInv'
  BY <1>1, IInvUnchanged DEF ChainInv
<1>5. QED
  BY <1>1, <1>2, <1>3, <1>4 DEF ChainInv, ChainTyped, LastSaid, vars

LEMMA ChainTickOK ==
  ASSUME ChainInv, ChainTick
  PROVE  ChainInv'
<1>1. /\ robot \in Sim!Motion /\ robot' = Sim!Passes(robot, 1, -1)
      /\ UNCHANGED <<wire, lost>>
      /\ Tick \/ UNCHANGED vars
  BY DEF ChainInv, ChainTyped, ChainTick
<1>2. IInv'
  BY <1>1, StepIInv DEF ChainInv, Next
<1>3. cmd'.motion = None => cmd.motion = None
  <2>1. CASE UNCHANGED vars
    BY <2>1 DEF vars
  <2>2. CASE Tick
    <3>1. cmd' = Aged(cmd) /\ cmd.motion \in Motion \cup {None}
      BY <2>2 DEF Tick, ChainInv, IInv, CommandOK, Command
    <3>2. cmd.motion # None => cmd'.motion \in Motion
      BY <3>1, AgedMotion DEF Aged
    <3>3. QED
      BY <3>2, InterfaceAssumption, ConfigAssumption DEF Accepted
  <2>3. QED
    BY <1>1, <2>1, <2>2
<1>4. robot' \in Sim!Motion /\ (Sim!HasVelocity(robot') <=> Sim!HasVelocity(robot))
  BY <1>1, RobotMotion
<1>5. LastSpeed' = LastSpeed
  BY <1>1, <1>4 DEF LastSpeed, Sim!HasVelocity
<1>6. QED
  BY <1>1, <1>2, <1>3, <1>4, <1>5 DEF ChainInv, ChainTyped, LastSaid

LEMMA StepChainInv == ChainInv /\ [ChainNext]_chainVars => ChainInv'
<1> SUFFICES ASSUME ChainInv, [ChainNext]_chainVars PROVE ChainInv'
  OBVIOUS
<1>1. CASE UNCHANGED chainVars
  <2>1. UNCHANGED vars /\ UNCHANGED <<wire, robot, lost>>
    BY <1>1 DEF chainVars
  <2>2. IInv'
    BY <2>1, IInvUnchanged DEF ChainInv
  <2>3. QED
    BY <2>1, <2>2
    DEF ChainInv, ChainTyped, LastSaid, LastSpeed, Sim!HasVelocity, vars
<1>2. QED
  BY <1>1, InterfaceStepOK, KillOK, RobotTakesOK, LoseRequestOK, RobotPublishesOK,
     ChainTickOK DEF ChainNext

LEMMA ChainInvAlways == ChainSpec => []ChainInv
BY InitChainInv, StepChainInv, PTL DEF ChainSpec

-----------------------------------------------------------------------------
(* Interface, wire and robot keep their types, whatever is lost or killed.  *)
THEOREM ChainTypesOK == ChainSpec => []ChainTypeOK
<1>1. ChainInv => ChainTypeOK
  BY DEF ChainInv, ChainTyped, ChainTypeOK, IInv, Scalars, CommandOK, TypeOK
<1>2. QED
  BY <1>1, ChainInvAlways, PTL

(* The robot moves only while the interface supervises a motion, a stop is  *)
(* on its way, or the last request was lost: on_safe_loco, the watchdog,    *)
(* every answer and the shutdown put what ends a motion on the same topic,  *)
(* behind the request that began it.                                        *)
THEOREM ChainMovesOnlySupervised == ChainSpec => []MovesOnlySupervised
<1>1. ChainInv => MovesOnlySupervised
  <2> SUFFICES ASSUME ChainInv, Sim!HasVelocity(robot), cmd.motion = None, ~lost
               PROVE  StopOnTheWay
    BY DEF MovesOnlySupervised
  <2>1. LastSpeed = 0
    BY DEF ChainInv, LastSaid
  <2>2. wire # <<>> /\ wire[Len(wire)].speed = 0
    BY <2>1 DEF LastSpeed
  <2>3. wire \in Seq(Velocity)
    BY DEF ChainInv, ChainTyped
  <2>4. Len(wire) \in DOMAIN wire
    BY <2>2, <2>3
  <2>5. QED
    BY <2>2, <2>4 DEF StopOnTheWay
<1>2. QED
  BY <1>1, ChainInvAlways, PTL

(* A process that may be killed at any time, and a wire that loses requests,*)
(* change nothing of what the watchdog promises (watchdog_tick).            *)
THEOREM ChainMotionSupervised == ChainSpec => []MotionSupervised
<1>1. ChainInv => MotionSupervised
  BY DEF ChainInv, IInv, Supervised, MotionSupervised
<1>2. QED
  BY <1>1, ChainInvAlways, PTL
=============================================================================
