------------------------ MODULE LowLevelGuard_proof ------------------------
(***************************************************************************)
(* The safety properties of low_level_guard, for any number of leases,     *)
(* requests and positions and any limits.                                  *)
(***************************************************************************)
EXTENDS LowLevelGuard, TLAPS

LEMMA GuardInitTypeOK == Init => TypeOK
<1> SUFFICES ASSUME Init PROVE TypeOK
  OBVIOUS
<1>1. now \in Nat /\ grant \in Nat
  BY DEF Init
<1>2. publishing \in BOOLEAN
  BY Zenon DEF Init
<1>3. QED
  BY Zenon, <1>1, <1>2 DEF Init, TypeOK

\* Type correctness of the guard: every callback leaves its fields well typed.
THEOREM GuardTypeOK == Spec => []TypeOK
<1>1. Init => TypeOK
  BY GuardInitTypeOK
<1>2. TypeOK /\ [Next]_vars => TypeOK'
  <2> SUFFICES ASSUME TypeOK, [Next]_vars PROVE TypeOK'
    OBVIOUS
  <2> USE GuardAssumption DEF TypeOK
  <2>1. ASSUME NEW m \in LeaseMsg, RevokeLease(m) PROVE TypeOK'
    BY <2>1 DEF RevokeLease
  <2>2. ASSUME NEW m \in LeaseMsg, GrantLease(m) PROVE TypeOK'
    <3>1. lease' \in Lease
      BY <2>2 DEF GrantLease, LeaseMsg, Lease
    <3>2. grant' \in Nat
      BY <2>2 DEF GrantLease
    <3>3. QED
      BY <2>2, <3>1, <3>2 DEF GrantLease
  <2>3. CASE UpdateLowstate
    BY <2>3 DEF UpdateLowstate, Lowstate
  <2>4. ASSUME NEW c \in CandidateMsg, AcceptCandidate(c) PROVE TypeOK'
    <3>1. candidate' \in Accepted
      BY <2>4 DEF AcceptCandidate, ValuesValid, CandidateMsg, Accepted
    <3>2. lastSequence' \in 1..MaxSequence
      BY <2>4 DEF AcceptCandidate, CandidateMsg
    <3>3. QED
      BY <2>4, <3>1, <3>2 DEF AcceptCandidate
  <2>5. CASE PublishCommand
    BY <2>5 DEF PublishCommand, MayPublish, LeaseActive, CandidateFresh,
                LowstateFresh, Lease, LowCmd
  <2>6. CASE Tick
    BY <2>6 DEF Tick
  <2>7. CASE UNCHANGED vars
    BY <2>7 DEF vars
  <2>8. QED
    BY <2>1, <2>2, <2>3, <2>4, <2>5, <2>6, <2>7 DEF Next
<1>3. QED
  BY <1>1, <1>2, PTL DEF Spec

----------------------------------------------------------------------------
(* The inductive invariant.  A held candidate belongs to the session that   *)
(* is running, expires MaxValid ticks after it was accepted, and is no      *)
(* farther from the joint than the check allowed plus the ticks since the   *)
(* report it was checked against; what was published in this tick has the   *)
(* same qualities.                                                          *)

Held ==
  candidate # None =>
    /\ candidate.grant = grant
    /\ candidate.acceptedAt <= now
    /\ candidate.deadline <= candidate.acceptedAt + MaxValid

Reported ==
  lowstate # None =>
    /\ lowstate.at <= now
    /\ Distance(lowstate.q, joint) <= now - lowstate.at

Near ==
  candidate # None =>
    Distance(candidate.q, joint)
      <= MaxError + LowstateTimeout + (now - candidate.acceptedAt)

Sent ==
  lowcmd # None =>
    /\ lowcmd.source.grant = lowcmd.grant
    /\ now < lowcmd.source.acceptedAt + MaxValid
    /\ Distance(lowcmd.source.q, joint)
         <= MaxError + LowstateTimeout + (now - lowcmd.source.acceptedAt)

GuardInv == TypeOK /\ Held /\ Reported /\ Near /\ Sent

\* Distance is a natural number and satisfies the triangle inequality.
LEMMA DistanceTriangle ==
  ASSUME NEW p \in Int, NEW q \in Int, NEW r \in Int
  PROVE  /\ Distance(p, q) \in Nat
         /\ Distance(p, r) <= Distance(p, q) + Distance(q, r)
         /\ Distance(p, q) = Distance(q, p)
BY DEF Distance

LEMMA GuardInvInit == Init => GuardInv
BY Zenon, GuardInitTypeOK DEF Init, GuardInv, Held, Reported, Near, Sent

\* Every callback of the guard preserves the invariant.
LEMMA GuardInvStep == GuardInv /\ TypeOK' /\ [Next]_vars => GuardInv'
<1> SUFFICES ASSUME GuardInv, TypeOK', [Next]_vars PROVE GuardInv'
  OBVIOUS
<1> USE GuardAssumption DEF GuardInv
<1>1. ASSUME NEW m \in LeaseMsg, RevokeLease(m) PROVE GuardInv'
  BY <1>1 DEF RevokeLease, Held, Reported, Near, Sent
<1>2. ASSUME NEW m \in LeaseMsg, GrantLease(m) PROVE GuardInv'
  <2>1. Held'
    <3>1. CASE NewLease(m)
      BY <1>2, <3>1 DEF GrantLease, Held
    <3>2. CASE ~NewLease(m)
      BY <1>2, <3>2 DEF GrantLease, NewLease, SessionStarts, Held
    <3>3. QED
      BY <3>1, <3>2
  <2>2. Reported' /\ Sent'
    BY <1>2 DEF GrantLease, Reported, Sent
  <2>3. Near'
    BY <1>2 DEF GrantLease, Near
  <2>4. QED
    BY <2>1, <2>2, <2>3
<1>3. CASE UpdateLowstate
  <2>1. Reported'
    BY <1>3 DEF UpdateLowstate, Reported, TypeOK, Distance
  <2>2. QED
    BY <1>3, <2>1 DEF UpdateLowstate, Held, Near, Sent
<1>4. ASSUME NEW c \in CandidateMsg, AcceptCandidate(c) PROVE GuardInv'
  <2>1. lease # None /\ lowstate # None /\ now - lowstate.at <= LowstateTimeout
    BY <1>4 DEF AcceptCandidate, LeaseActive, LowstateFresh
  <2>2. c.q \in Int /\ lowstate.q \in Int /\ lowstate.at \in Int /\ joint \in Int /\ now \in Int
    BY <2>1 DEF TypeOK, Lowstate, CandidateMsg
  <2>3. Distance(c.q, joint) <= Distance(c.q, lowstate.q) + Distance(lowstate.q, joint)
    BY <2>2, DistanceTriangle
  <2>4. Distance(c.q, joint) <= MaxError + LowstateTimeout
    <3>1. Distance(c.q, lowstate.q) <= MaxError
      BY <1>4 DEF AcceptCandidate, ValuesValid
    <3>2. /\ Distance(c.q, lowstate.q) \in Nat /\ Distance(lowstate.q, joint) \in Nat
          /\ Distance(c.q, joint) \in Nat
      BY <2>2, DistanceTriangle
    <3>3. Distance(lowstate.q, joint) <= LowstateTimeout
      BY <2>1, <2>2, <3>2 DEF Reported
    <3>4. QED
      BY <2>3, <3>1, <3>2, <3>3
  <2>5. Held'
    BY <1>4, <2>1 DEF AcceptCandidate, ValuesValid, Held, TypeOK, CandidateMsg
  <2>6. Near'
    BY <1>4, <2>4, <2>2 DEF AcceptCandidate, Near
  <2>7. Reported' /\ Sent'
    BY <1>4 DEF AcceptCandidate, Reported, Sent
  <2>8. QED
    BY <2>5, <2>6, <2>7
<1>5. CASE PublishCommand
  <2>1. Held' /\ Reported' /\ Near'
    BY <1>5 DEF PublishCommand, Held, Reported, Near
  <2>2. Sent'
    <3>1. CASE MayPublish
      <4>1. candidate # None /\ now < candidate.deadline
        BY <3>1 DEF MayPublish, CandidateFresh
      <4>2. candidate.acceptedAt \in Nat /\ candidate.deadline \in Nat /\ now \in Nat
        BY <4>1 DEF TypeOK, Accepted
      <4>3. now < candidate.acceptedAt + MaxValid
        BY <4>1, <4>2 DEF Held
      <4>4. lowcmd' = [source |-> candidate, request |-> lease.request, grant |-> grant]
        BY <1>5, <3>1 DEF PublishCommand
      <4>5. UNCHANGED <<now, joint>>
        BY <1>5 DEF PublishCommand
      <4>6. QED
        BY <4>1, <4>3, <4>4, <4>5 DEF Held, Near, Sent
    <3>2. CASE ~MayPublish
      BY <1>5, <3>2 DEF PublishCommand, Sent
    <3>3. QED
      BY <3>1, <3>2
  <2>3. QED
    BY <2>1, <2>2
<1>6. CASE Tick
  <2>1. now' = now + 1 /\ now \in Nat /\ Distance(joint', joint) <= 1
    BY <1>6 DEF Tick, TypeOK
  <2>2. joint \in Int /\ joint' \in Int
    BY DEF TypeOK
  <2>3. ASSUME NEW q \in Int PROVE Distance(q, joint') <= Distance(q, joint) + 1
    <3>1. Distance(q, joint') <= Distance(q, joint) + Distance(joint, joint')
      BY <2>2, DistanceTriangle
    <3>2. Distance(joint, joint') <= 1 /\ Distance(joint, joint') \in Nat
      BY <2>1, <2>2, DistanceTriangle
    <3>3. Distance(q, joint) \in Nat /\ Distance(q, joint') \in Nat
      BY <2>2, DistanceTriangle
    <3>4. QED
      BY <3>1, <3>2, <3>3
  <2>4. Held'
    BY <1>6, <2>1 DEF Tick, Held, TypeOK, Accepted
  <2>5. Reported'
    <3>1. SUFFICES ASSUME lowstate # None
                   PROVE  lowstate.at <= now' /\ Distance(lowstate.q, joint') <= now' - lowstate.at
      BY <1>6, <2>1 DEF Tick, Reported
    <3>2. lowstate.q \in Int /\ lowstate.at \in Nat
      BY <3>1 DEF TypeOK, Lowstate
    <3>3. Distance(lowstate.q, joint') <= Distance(lowstate.q, joint) + 1
      BY <2>3, <3>2
    <3>4. Distance(lowstate.q, joint) \in Nat /\ Distance(lowstate.q, joint') \in Nat
      BY <2>2, <3>2, DistanceTriangle
    <3>5. QED
      BY <2>1, <3>1, <3>2, <3>3, <3>4 DEF Reported
  <2>6. Near'
    <3>1. SUFFICES ASSUME candidate # None
                   PROVE  Distance(candidate.q, joint')
                            <= MaxError + LowstateTimeout + (now' - candidate.acceptedAt)
      BY <1>6, <2>1 DEF Tick, Near
    <3>2. candidate.q \in Int /\ candidate.acceptedAt \in Nat
      BY <3>1 DEF TypeOK, Accepted
    <3>3. Distance(candidate.q, joint') <= Distance(candidate.q, joint) + 1
      BY <2>3, <3>2
    <3>4. Distance(candidate.q, joint) \in Nat /\ Distance(candidate.q, joint') \in Nat
      BY <2>2, <3>2, DistanceTriangle
    <3>5. QED
      BY <2>1, <3>1, <3>2, <3>3, <3>4 DEF Near
  <2>7. Sent'
    BY <1>6 DEF Tick, Sent
  <2>8. QED
    BY <2>4, <2>5, <2>6, <2>7
<1>7. CASE UNCHANGED vars
  BY <1>7 DEF vars, Held, Reported, Near, Sent
<1>8. QED
  BY <1>1, <1>2, <1>3, <1>4, <1>5, <1>6, <1>7 DEF Next

LEMMA GuardInvariant == Spec => []GuardInv
<1>1. Init => GuardInv
  BY GuardInvInit
<1>2. GuardInv /\ TypeOK' /\ [Next]_vars => GuardInv'
  BY GuardInvStep
<1>3. QED
  BY <1>1, <1>2, GuardTypeOK, PTL DEF Spec

----------------------------------------------------------------------------
(* No command of an earlier session is ever published: update_lease clears  *)
(* the candidate whenever control changes hands.                            *)
THEOREM GuardPublishesItsGrant == Spec => []PublishedInItsGrant
<1>1. GuardInv => PublishedInItsGrant
  BY DEF GuardInv, Sent, PublishedInItsGrant
<1>2. QED
  BY <1>1, GuardInvariant, PTL

(* The dead man's switch of accept_candidate and command, for every limit.  *)
THEOREM GuardDeadMan == Spec => []DeadMan
<1>1. GuardInv => DeadMan
  BY GuardAssumption DEF GuardInv, TypeOK, Accepted, LowCmd, Sent, DeadMan
<1>2. QED
  BY <1>1, GuardInvariant, PTL

(* The published target stays close to where the joint really is, although  *)
(* validate_candidate_values looks at one, possibly old, report.            *)
THEOREM GuardPublishesNearJoint == Spec => []PublishedNearJoint
<1>1. GuardInv => PublishedNearJoint
  <2>1. SUFFICES ASSUME GuardInv, lowcmd # None
                 PROVE  Distance(lowcmd.source.q, joint)
                          <= MaxError + LowstateTimeout + MaxValid - 1
    BY DEF PublishedNearJoint
  <2>2. lowcmd.source.acceptedAt \in Nat /\ lowcmd.source.q \in Int /\ joint \in Int /\ now \in Nat
    BY <2>1, GuardAssumption DEF GuardInv, TypeOK, Accepted, LowCmd
  <2>3. Distance(lowcmd.source.q, joint) \in Nat
    BY <2>2, DistanceTriangle
  <2>4. QED
    BY <2>1, <2>2, <2>3, GuardAssumption DEF GuardInv, Sent
<1>2. QED
  BY <1>1, GuardInvariant, PTL

(* Replay protection of accept_candidate: only a change of session lets the *)
(* sequence ids start again.                                                *)
THEOREM GuardSequenceGrows == Spec => SequenceGrowsInSession
<1> DEFINE Grows ==
      (lastSequence # None /\ lease' # None /\ grant' = grant)
        => /\ lastSequence' # None
           /\ lastSequence' >= lastSequence
           /\ candidate' # candidate => lastSequence' > lastSequence
<1>1. TypeOK /\ [Next]_vars => [Grows]_vars
  <2> SUFFICES ASSUME TypeOK, [Next]_vars, lastSequence # None, lease' # None, grant' = grant,
                      ~ UNCHANGED vars
               PROVE  /\ lastSequence' # None
                      /\ lastSequence' >= lastSequence
                      /\ candidate' # candidate => lastSequence' > lastSequence
    OBVIOUS
  <2>1. lastSequence \in 1..MaxSequence /\ grant \in Nat
    BY DEF TypeOK
  <2>2. ASSUME NEW m \in LeaseMsg, RevokeLease(m) PROVE FALSE
    BY <2>2 DEF RevokeLease
  <2>3. ASSUME NEW m \in LeaseMsg, GrantLease(m)
        PROVE  UNCHANGED <<lastSequence, candidate>>
    BY <2>1, <2>3 DEF GrantLease, SessionStarts, NewLease
  <2>4. ASSUME NEW c \in CandidateMsg, AcceptCandidate(c)
        PROVE  lastSequence' \in 1..MaxSequence /\ lastSequence' > lastSequence
    BY <2>4 DEF AcceptCandidate, SequenceIncreases, CandidateMsg
  <2>5. ASSUME UpdateLowstate \/ PublishCommand \/ Tick
        PROVE  UNCHANGED <<lastSequence, candidate>>
    BY <2>5 DEF UpdateLowstate, PublishCommand, Tick
  <2>6. QED
    BY <2>1, <2>2, <2>3, <2>4, <2>5, GuardAssumption DEF Next
<1>2. QED
  BY <1>1, GuardTypeOK, PTL DEF Spec, SequenceGrowsInSession

----------------------------------------------------------------------------
(* The refinement.  What the guard's fields stand for, case by case.        *)

LEMMA AuthorityWord ==
  ASSUME TypeOK
  PROVE  /\ WordLeft \in Nat
         /\ LeaseActive <=> WordLeft > 0
         /\ WordLeft > 0 => lease # None
BY DEF TypeOK, WordLeft, LeaseActive, Lease

\* A step that leaves alone what the mapping reads is a stuttering step.
LEMMA AuthorityStutters ==
  ASSUME UNCHANGED <<now, lease, candidate, lowcmd, grant>>
  PROVE  UNCHANGED Authority!authority
BY DEF Authority!authority, WordLeft, OrderHeld, OrderFollowed, OrderOf

LEMMA AuthorityInit == Init => Authority!AuthorityInit
BY DEF Init, Authority!AuthorityInit, WordLeft, OrderHeld, OrderFollowed

\* Every callback of the guard is a step of the authority, or none.
LEMMA AuthorityStep ==
  GuardInv /\ GuardInv' /\ [Next]_vars => [Authority!AuthorityNext]_Authority!authority
<1> SUFFICES ASSUME GuardInv, GuardInv', [Next]_vars
             PROVE  [Authority!AuthorityNext]_Authority!authority
  OBVIOUS
<1> USE GuardAssumption
<1>0. TypeOK /\ TypeOK' /\ Held /\ Held'
  BY DEF GuardInv
<1>1. ASSUME NEW m \in LeaseMsg, RevokeLease(m) PROVE Authority!End
  <2>1. lease # None /\ lease' = None /\ candidate' = None
        /\ UNCHANGED <<now, lowcmd, grant>>
    BY <1>1 DEF RevokeLease
  <2>2. WordLeft' = 0 /\ OrderHeld' = {} /\ UNCHANGED OrderFollowed
    BY <2>1 DEF WordLeft, OrderHeld, OrderFollowed, OrderOf
  <2>3. QED
    BY <2>1, <2>2 DEF Authority!End
<1>2. ASSUME NEW m \in LeaseMsg, GrantLease(m)
      PROVE  Authority!Take \/ Authority!Renew
  <2>1. /\ m.ttl \in 1..MaxLease
        /\ lease' = [id |-> m.id, request |-> m.request, deadline |-> now + m.ttl]
        /\ UNCHANGED <<now, lowcmd>>
    BY <1>2 DEF GrantLease, LeaseMsg
  <2>2. lease' # None /\ lease'.deadline = now + m.ttl
    <3>1. lease' \in Lease
      BY <1>0, <2>1 DEF LeaseMsg, Lease, TypeOK
    <3>2. QED
      BY <2>1, <3>1, OptionalAssumption
  <2>3. WordLeft' \in 1..MaxLease
    BY <1>0, <2>1, <2>2 DEF TypeOK, WordLeft
  <2>4. UNCHANGED OrderFollowed
    BY <2>1 DEF OrderFollowed, OrderOf
  <2>5. CASE SessionStarts(m)
    <3>1. grant' = grant + 1 /\ candidate' = None
      BY <1>2, <2>5 DEF GrantLease, SessionStarts, NewLease
    <3>2. OrderHeld' = {}
      BY <3>1 DEF OrderHeld
    <3>3. QED
      BY <2>2, <2>3, <2>4, <3>1, <3>2 DEF Authority!Take
  <2>6. CASE ~SessionStarts(m)
    <3>1. lease # None /\ UNCHANGED <<grant, candidate>>
      BY <1>2, <2>6 DEF GrantLease, SessionStarts, NewLease
    <3>2. UNCHANGED OrderHeld
      BY <2>1, <3>1 DEF OrderHeld, OrderOf
    <3>3. QED
      BY <2>2, <2>3, <2>4, <3>1, <3>2 DEF Authority!Renew
  <2>7. QED
    BY <2>5, <2>6
<1>3. CASE UpdateLowstate
  BY <1>3, AuthorityStutters DEF UpdateLowstate
<1>4. ASSUME NEW c \in CandidateMsg, AcceptCandidate(c)
      PROVE  Authority!Give
  <2>1. /\ LeaseActive /\ c.validFor > 0 /\ c.validFor <= MaxValid
        /\ candidate'.grant = grant /\ candidate'.acceptedAt = now
        /\ UNCHANGED <<now, lease, lowcmd, grant>>
    BY <1>4 DEF AcceptCandidate, ValuesValid
  <2>2. WordLeft > 0 /\ UNCHANGED <<WordLeft, OrderFollowed>>
    BY <1>0, <2>1, AuthorityWord DEF WordLeft, OrderFollowed, OrderOf
  <2>3. MaxValid > 0 /\ now - now = 0
    BY <1>0, <2>1 DEF TypeOK, CandidateMsg
  <2>4. OrderOf(candidate)' = [session |-> grant, age |-> 0]
    BY <2>1, <2>3 DEF OrderOf
  <2>5. candidate' # None
    <3>1. candidate' \in Accepted
      BY <1>4, <1>0 DEF AcceptCandidate, CandidateMsg, Accepted, TypeOK
    <3>2. QED
      BY <3>1, OptionalAssumption
  <2>6. OrderHeld' = {[session |-> grant, age |-> 0]}
    BY <2>1, <2>3, <2>4, <2>5 DEF OrderHeld
  <2>7. QED
    BY <2>1, <2>2, <2>6 DEF Authority!Give
<1>5. CASE PublishCommand
  <2>1. CASE MayPublish
    <3>1. LeaseActive /\ candidate # None /\ now < candidate.deadline
      BY <2>1 DEF MayPublish, CandidateFresh
    <3>2. candidate.acceptedAt \in Nat /\ candidate.deadline \in Nat /\ now \in Nat
      BY <1>0, <3>1 DEF TypeOK, Accepted
    <3>3. OrderHeld = {OrderOf(candidate)}
      BY <1>0, <3>1, <3>2 DEF Held, OrderHeld
    <3>4. /\ lowcmd' = [source |-> candidate, request |-> lease.request, grant |-> grant]
          /\ UNCHANGED <<now, lease, candidate, grant>>
      BY <1>5, <2>1 DEF PublishCommand
    <3>5. lowcmd' # None
      <4>1. candidate \in Accepted /\ lease \in Lease
        BY <1>0, <3>1 DEF TypeOK, LeaseActive
      <4>2. lowcmd' \in LowCmd
        BY <1>0, <3>4, <4>1 DEF TypeOK, Lease, LowCmd
      <4>3. QED
        BY <4>2, OptionalAssumption
    <3>6. OrderFollowed' = OrderHeld
      BY <3>3, <3>4, <3>5 DEF OrderFollowed, OrderOf
    <3>7. UNCHANGED <<WordLeft, OrderHeld>>
      BY <3>4 DEF WordLeft, OrderHeld, OrderOf
    <3>8. WordLeft > 0
      BY <1>0, <3>1, AuthorityWord
    <3>9. Authority!Follow
      BY <3>3, <3>4, <3>6, <3>7, <3>8 DEF Authority!Follow
    <3>10. QED
      BY <3>9 DEF Authority!AuthorityNext
  <2>2. CASE ~MayPublish
    BY <1>5, <2>2, AuthorityStutters DEF PublishCommand
  <2>3. QED
    BY <2>1, <2>2
<1>6. CASE Tick
  <2>1. now' = now + 1 /\ now \in Nat /\ lowcmd' = None
        /\ UNCHANGED <<lease, candidate, grant>>
    BY <1>0, <1>6 DEF Tick, TypeOK
  <2>2. WordLeft' = IF WordLeft = 0 THEN 0 ELSE WordLeft - 1
    BY <1>0, <2>1 DEF WordLeft, TypeOK, Lease
  <2>3. OrderHeld' = {[session |-> o.session, age |-> o.age + 1] :
                        o \in {p \in OrderHeld : p.age + 1 < MaxValid}}
    <3>1. CASE OrderHeld = {}
      <4>1. candidate = None \/ now - candidate.acceptedAt >= MaxValid
        BY <3>1 DEF OrderHeld
      <4>2. candidate = None \/ (now + 1) - candidate.acceptedAt >= MaxValid
        BY <1>0, <2>1, <4>1 DEF TypeOK, Accepted
      <4>3. OrderHeld' = {}
        BY <2>1, <4>2 DEF OrderHeld
      <4>4. QED
        BY <3>1, <4>3
    <3>2. CASE OrderHeld # {}
      <4>1. /\ candidate # None /\ now - candidate.acceptedAt < MaxValid
            /\ OrderHeld = {OrderOf(candidate)}
        BY <1>0, <2>1, <3>2 DEF OrderHeld, TypeOK, Accepted
      <4>2. candidate.acceptedAt \in Nat
        BY <1>0, <4>1 DEF TypeOK, Accepted
      <4>3. /\ OrderOf(candidate).session = candidate.grant
            /\ OrderOf(candidate).age = now - candidate.acceptedAt
        BY DEF OrderOf
      <4>4. OrderOf(candidate)' = [session |-> candidate.grant,
                                   age |-> (now - candidate.acceptedAt) + 1]
        BY <2>1, <4>2 DEF OrderOf
      <4>5. CASE (now - candidate.acceptedAt) + 1 < MaxValid
        <5>1. OrderHeld' = {OrderOf(candidate)'}
          BY <2>1, <4>1, <4>2, <4>5 DEF OrderHeld
        <5>2. {p \in OrderHeld : p.age + 1 < MaxValid} = {OrderOf(candidate)}
          BY <4>1, <4>3, <4>5
        <5>3. QED
          BY <4>3, <4>4, <5>1, <5>2
      <4>6. CASE ~((now - candidate.acceptedAt) + 1 < MaxValid)
        <5>1. OrderHeld' = {}
          BY <2>1, <4>1, <4>2, <4>6 DEF OrderHeld
        <5>2. {p \in OrderHeld : p.age + 1 < MaxValid} = {}
          BY <4>1, <4>3, <4>6
        <5>3. QED
          BY <5>1, <5>2
      <4>7. QED
        BY <4>5, <4>6
    <3>3. QED
      BY <3>1, <3>2
  <2>4. OrderFollowed' = {}
    BY <2>1 DEF OrderFollowed
  <2>5. UNCHANGED <<grant, lease # None>>
    BY <2>1
  <2>6. Authority!Pass
    BY <2>2, <2>3, <2>4, <2>5 DEF Authority!Pass
  <2>7. QED
    BY <2>6 DEF Authority!AuthorityNext
<1>7. CASE UNCHANGED vars
  BY <1>7, AuthorityStutters DEF vars
<1>8. QED
  BY <1>1, <1>2, <1>3, <1>4, <1>5, <1>6, <1>7 DEF Next, Authority!AuthorityNext

(* The guard implements the abstract authority, whatever the limits and     *)
(* however many leases and requests there are (update_lease,                *)
(* accept_candidate, command).                                              *)
THEOREM GuardImplementsAuthority == Spec => ImplementsAuthority
<1>1. Init => Authority!AuthorityInit
  BY AuthorityInit
<1>2. GuardInv /\ GuardInv' /\ [Next]_vars
        => [Authority!AuthorityNext]_Authority!authority
  BY AuthorityStep
<1>3. QED
  BY <1>1, <1>2, GuardInvariant, PTL
  DEF Spec, ImplementsAuthority, Authority!AuthoritySpec

=============================================================================
