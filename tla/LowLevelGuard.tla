--------------------------- MODULE LowLevelGuard ---------------------------
(***************************************************************************)
(* low_level_guard: the only node allowed to publish /lowcmd.  A lease says *)
(* who may drive the joints and for which request, a tracker supplies       *)
(* candidate commands, /lowstate reports where the joints are, and a timer  *)
(* republishes the last accepted candidate for as long as the three are     *)
(* valid.                                                                   *)
(*                                                                         *)
(* The node spins in one thread, so every callback is one action.  Time is *)
(* counted in ticks of the monotonic clock (GuardCore::Clock), and one unit *)
(* of joint position is the distance a joint can travel in a tick.  The 29  *)
(* joints are represented by one.                                           *)
(***************************************************************************)
EXTENDS Integers

CONSTANTS
  LeaseIds,         \* lease_id values, one per control session
  RequestIds,       \* request_id values, one per ExecuteMotion goal
  MaxLease,         \* config_.max_lease_sec, in ticks
  MaxValid,         \* config_.max_candidate_valid_sec, in ticks
  LowstateTimeout,  \* config_.lowstate_timeout_sec, in ticks
  MaxError,         \* config_.max_position_error_rad, in units of travel
  Positions,        \* where the joint can be, and where it can be sent
  MaxTime,          \* bound: the clock stops here
  MaxSequence,      \* bound: the largest sequence_id of a candidate
  MaxGrants,        \* bound: how many times control changes hands
  None              \* an empty std::optional

ASSUME GuardAssumption ==
  /\ MaxLease \in Nat /\ MaxValid \in Nat
  /\ LowstateTimeout \in Nat /\ MaxError \in Nat
  /\ MaxTime \in Nat /\ MaxSequence \in Nat /\ MaxGrants \in Nat
  /\ Positions \subseteq Int
  /\ None \notin 1..MaxSequence

VARIABLES
  now,           \* GuardCore::Clock::now()
  joint,         \* the true position of the joint (the robot's)
  lease,         \* lease_ with lease_deadline_
  candidate,     \* candidate_ with candidate_deadline_, and when and under
                 \* which grant it was accepted (history)
  lowstate,      \* lowstate_ with lowstate_received_at_
  lastSequence,  \* last_sequence_id_, None while has_sequence_ is false
  publishing,    \* publishing_ of the node, shown by the diagnostics
  lowcmd,        \* the LowCmd published in this tick, None if there is none
  grant          \* history: how many sessions have started so far

vars == <<now, joint, lease, candidate, lowstate, lastSequence, publishing,
          lowcmd, grant>>

----------------------------------------------------------------------------
(* Messages.  wellFormed stands for the checks that only look at the        *)
(* message: non-empty identities, matching robot and control profiles.      *)
(* inBounds stands for the per-motor limits on q, dq, tau, kp and kd.       *)

LeaseMsg ==
  [id: LeaseIds, request: RequestIds, wellFormed: BOOLEAN,
   ttl: 0..(MaxLease + 1), active: BOOLEAN]

CandidateMsg ==
  [lease: LeaseIds, request: RequestIds, wellFormed: BOOLEAN,
   sequence: 1..MaxSequence, validFor: 0..(MaxValid + 1),
   inBounds: BOOLEAN, q: Positions]

\* What the guard keeps of a lease, of a candidate and of a lowstate.
Lease == [id: LeaseIds, request: RequestIds, deadline: Nat]

Accepted ==
  [lease: LeaseIds, request: RequestIds, q: Positions, deadline: Nat,
   acceptedAt: Nat, grant: Nat]

Lowstate == [q: Positions, at: Nat]

\* A published command: the candidate it repeats, under which lease and grant.
LowCmd == [source: Accepted, request: RequestIds, grant: Nat]

ASSUME OptionalAssumption ==
  None \notin Lease /\ None \notin Accepted /\ None \notin LowCmd

Distance(p, q) == IF p <= q THEN q - p ELSE p - q

----------------------------------------------------------------------------
LeaseActive    == lease # None /\ now < lease.deadline
CandidateFresh == candidate # None /\ now < candidate.deadline

\* Fault: any lowstate ever received is good enough.
LowstateSeen == lowstate # None

LowstateFresh == lowstate # None /\ now - lowstate.at <= LowstateTimeout

\* A lease_id other than the one held starts a new control session.
SessionStarts(m) == lease = None \/ m.id # lease.id

\* Faults: every renewal, or only a grant after a revocation, resets.
ResetOnRenewal(m) == TRUE
ResetWhenIdle(m)  == lease = None

\* new_lease: another request of the same session keeps the candidate and
\* its sequence.
NewLease(m) == lease = None \/ m.id # lease.id

Init ==
  /\ now = 0
  /\ joint \in Positions
  /\ lease = None
  /\ candidate = None
  /\ lowstate = None
  /\ lastSequence = None
  /\ publishing = FALSE
  /\ lowcmd = None
  /\ grant = 0

\* An inactive lease message ends the session it names and no other.
RevokeLease(m) ==
  /\ ~m.active
  /\ lease # None /\ m.id = lease.id
  /\ lease' = None
  /\ candidate' = None
  /\ lastSequence' = None
  /\ UNCHANGED <<now, joint, lowstate, publishing, lowcmd, grant>>

\* An active lease starts a session, or renews the one that is held.
GrantLease(m) ==
  /\ m.active /\ m.wellFormed
  /\ m.ttl > 0 /\ m.ttl <= MaxLease
  /\ lease' = [id |-> m.id, request |-> m.request, deadline |-> now + m.ttl]
  /\ IF SessionStarts(m)
     THEN grant < MaxGrants /\ grant' = grant + 1
     ELSE UNCHANGED grant
  /\ IF NewLease(m)
     THEN candidate' = None /\ lastSequence' = None
     ELSE UNCHANGED <<candidate, lastSequence>>
  /\ UNCHANGED <<now, joint, lowstate, publishing, lowcmd>>

\* /lowstate: the position is stamped with the time it is received.
UpdateLowstate ==
  /\ lowstate' = [q |-> joint, at |-> now]
  /\ UNCHANGED <<now, joint, lease, candidate, lastSequence, publishing, lowcmd, grant>>

\* The limits of one message: its validity, its motor values, and a target
\* within reach of the last reported position.
ValuesValid(c) ==
  /\ c.validFor > 0 /\ c.validFor <= MaxValid
  /\ c.inBounds
  /\ Distance(c.q, lowstate.q) <= MaxError

SequenceIncreases(c) == lastSequence # None => c.sequence > lastSequence

AcceptCandidate(c) ==
  /\ LeaseActive
  /\ LowstateFresh
  /\ c.wellFormed
  /\ c.lease = lease.id /\ c.request = lease.request
  /\ SequenceIncreases(c)
  /\ ValuesValid(c)
  /\ candidate' = [lease |-> c.lease, request |-> c.request, q |-> c.q,
                   deadline |-> now + c.validFor, acceptedAt |-> now, grant |-> grant]
  /\ lastSequence' = c.sequence
  /\ UNCHANGED <<now, joint, lease, lowstate, publishing, lowcmd, grant>>

\* What command() requires; the lease's request is not compared again.
MayPublish == LeaseActive /\ LowstateFresh /\ CandidateFresh

\* The publish timer.
PublishCommand ==
  /\ publishing' = MayPublish
  /\ lowcmd' = IF MayPublish
               THEN [source |-> candidate, request |-> lease.request, grant |-> grant]
               ELSE lowcmd
  /\ UNCHANGED <<now, joint, lease, candidate, lowstate, lastSequence, grant>>

\* A tick of the clock, in which the joint moves by at most one unit.
Tick ==
  /\ now < MaxTime
  /\ now' = now + 1
  /\ joint' \in {p \in Positions : Distance(p, joint) <= 1}
  /\ lowcmd' = None
  /\ UNCHANGED <<lease, candidate, lowstate, lastSequence, publishing, grant>>

Next ==
  \/ \E m \in LeaseMsg : RevokeLease(m) \/ GrantLease(m)
  \/ UpdateLowstate
  \/ \E c \in CandidateMsg : AcceptCandidate(c)
  \/ PublishCommand
  \/ Tick

Spec == Init /\ [][Next]_vars

----------------------------------------------------------------------------
\* Every variable has its type.
TypeOK ==
  /\ now \in Nat
  /\ joint \in Positions
  /\ lease \in Lease \cup {None}
  /\ candidate \in Accepted \cup {None}
  /\ lowstate \in Lowstate \cup {None}
  /\ lastSequence \in (1..MaxSequence) \cup {None}
  /\ publishing \in BOOLEAN
  /\ lowcmd \in LowCmd \cup {None}
  /\ grant \in Nat

(* A command reaches the motors only if its candidate was accepted in the   *)
(* control session that is running: revoking a lease, or granting another   *)
(* one, silences everything accepted before, also when the same lease_id    *)
(* comes back later (guard_core.cpp update_lease clears the candidate).     *)
PublishedInItsGrant ==
  lowcmd # None => lowcmd.source.grant = lowcmd.grant

(* Dead man's switch: a tracker that falls silent is not followed.  What is *)
(* published in a tick was accepted less than MaxValid ticks ago, however   *)
(* often the lease was renewed and repeated since (accept_candidate,        *)
(* command).                                                                *)
DeadMan ==
  lowcmd # None => now - lowcmd.source.acceptedAt < MaxValid

(* The position check is made once, against a report that may be            *)
(* LowstateTimeout old, and the command is repeated until it expires, while *)
(* the joint moves.  The published target is nevertheless within MaxError   *)
(* plus what the joint travels in those two periods of where it really is.  *)
PublishedNearJoint ==
  lowcmd # None =>
    Distance(lowcmd.source.q, joint) <= MaxError + LowstateTimeout + MaxValid - 1

(* How the guard's fields stand for an authority: a lease's word is good    *)
(* until its deadline, and a candidate is an order until MaxValid ticks     *)
(* after it was accepted.                                                   *)
WordLeft == IF lease = None \/ now >= lease.deadline THEN 0 ELSE lease.deadline - now

OrderOf(c) == [session |-> c.grant, age |-> now - c.acceptedAt]

OrderHeld ==
  IF candidate = None \/ now - candidate.acceptedAt >= MaxValid THEN {}
  ELSE {OrderOf(candidate)}

OrderFollowed == IF lowcmd = None THEN {} ELSE {OrderOf(lowcmd.source)}

Authority == INSTANCE ControlAuthority WITH
  Term <- MaxLease, Validity <- MaxValid,
  session <- grant, held <- (lease # None), left <- WordLeft,
  order <- OrderHeld, followed <- OrderFollowed

(* The guard implements ControlAuthority: each callback is one of its steps *)
(* or changes nothing it knows of.  Revoking a lease, or granting another   *)
(* one, silences everything accepted before, also when the same lease_id    *)
(* comes back; a tracker that falls silent is not followed however often    *)
(* its lease is renewed (update_lease, accept_candidate, command).          *)
ImplementsAuthority == Authority!AuthoritySpec

(* Within a session the accepted sequence ids only grow: neither a renewal  *)
(* nor a change of request lets an old or duplicated candidate in again.    *)
SequenceGrowsInSession ==
  [][(lastSequence # None /\ lease' # None /\ grant' = grant)
       => /\ lastSequence' # None
          /\ lastSequence' >= lastSequence
          /\ candidate' # candidate => lastSequence' > lastSequence]_vars

(* docs/textop_streaming_commands.md says the guard stays fail-closed while *)
(* the request ids of lease and candidate differ.                           *)
FailClosedOnRequestMismatch ==
  lowcmd # None => lowcmd.source.request = lowcmd.request

=============================================================================
