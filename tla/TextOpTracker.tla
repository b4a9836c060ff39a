--------------------------- MODULE TextOpTracker ---------------------------
(***************************************************************************)
(* textop_tracker_node: one thread handles reference segments, leases,     *)
(* sensors and a timer.  A tick under a lease whose request is the one of  *)
(* the reference buffer runs the policy on the next frame, sends the       *)
(* result to the guard as a candidate and reports the frames executed.     *)
(*                                                                         *)
(* References and leases come from textop_generator_node (external here,   *)
(* TextOpGenerator has its code) over two topics of keep-last queues: each *)
(* keeps its order and loses its oldest message when it is full, and       *)
(* nothing orders one against the other.  A segment's arrays are the       *)
(* numbers of its frames in the motion, or not valid (the neural model     *)
(* promises no finite values).  The candidate's sequence number only grows *)
(* and decides nothing here: LowLevelGuard has it.                         *)
(***************************************************************************)
EXTENDS Integers, Sequences

CONSTANTS
  Requests,       \* request_id values
  MaxSegments,    \* bound: segments of the longest motion
  SegmentFrames,  \* frames of a segment (future_len, 8)
  Depth,          \* depth of a topic's queue (10)
  MaxRestarts,    \* bound: how often the process is started again
  None            \* Python's None

ASSUME TrackerAssumption ==
  /\ None \notin Requests /\ None \notin Nat
  /\ MaxSegments \in Nat \ {0} /\ SegmentFrames \in Nat \ {0}
  /\ Depth \in Nat \ {0} /\ MaxRestarts \in Nat

VARIABLES
  references,  \* the reference topic
  leases,      \* the lease topic
  generator,   \* external: active request, its published segments, the lease
  length,      \* frames of each motion once its last segment is published
  sensors,     \* whether lowstate and odometry are usable and fresh
  lease,       \* the lease, None when there is none
  buffer,      \* ReferenceBuffer
  frame,       \* TrackerEngine.frame
  warm,        \* TrackerEngine.last_action is not zero
  status,      \* the last TextOpTrackerStatus
  restarts,    \* how often the process was started again
  followed,    \* history: the frames of each motion sent to the guard
  moved,       \* history: candidates were sent since the last stop or start
  ended        \* history: leases whose end the tracker has handled

external == <<generator, length>>
history == <<followed, moved, ended>>
vars == <<references, leases, generator, length, sensors, lease, buffer, frame, warm,
          status, restarts, followed, moved, ended>>

Maybe(S) == S \cup {None}

Segment == [request: Requests, index: 0..(MaxSegments - 1), start: Nat,
            reset: BOOLEAN, final: BOOLEAN, valid: BOOLEAN]

LeaseMsg == [id: Nat, request: Requests, active: BOOLEAN]

Lease == [id: Nat, request: Requests]

Status == [request: Maybe(Requests), executed: Nat, active: BOOLEAN,
           exhausted: BOOLEAN, ready: BOOLEAN]

Generator == [request: Maybe(Requests), published: 0..MaxSegments, final: BOOLEAN,
              leased: BOOLEAN, id: Nat, used: SUBSET Requests]

Buffer == [request: Maybe(Requests), segments: Nat, content: Seq(Nat), final: BOOLEAN]

\* ReferenceBuffer.clear
Empty == [request |-> None, segments |-> 0, content |-> <<>>, final |-> FALSE]

Ready == sensors.lowstate /\ sensors.odometry

\* A keep-last queue that is full loses its oldest message.
Put(queue, m) ==
  Append(IF Len(queue) < Depth THEN queue ELSE Tail(queue), m)

----------------------------------------------------------------------------
Init ==
  /\ references = <<>> /\ leases = <<>>
  /\ generator = [request |-> None, published |-> 0, final |-> FALSE,
                  leased |-> FALSE, id |-> 0, used |-> {}]
  /\ length = [r \in Requests |-> None]
  /\ sensors = [lowstate |-> FALSE, odometry |-> FALSE]
  /\ lease = None
  /\ buffer = Empty
  /\ frame = 0 /\ warm = FALSE
  /\ status = [request |-> None, executed |-> 0, active |-> FALSE,
               exhausted |-> FALSE, ready |-> FALSE]
  /\ restarts = 0
  /\ followed = [r \in Requests |-> {}]
  /\ moved = FALSE /\ ended = {}

----------------------------------------------------------------------------
(* External: the generator, as TextOpGenerator models it.                   *)

\* A prompt becomes active, after none or in the place of another.
Activate(r) ==
  /\ r \notin generator.used
  /\ generator' = [generator EXCEPT !.request = r, !.published = 0, !.final = FALSE,
                                    !.used = @ \cup {r}]
  /\ UNCHANGED <<references, leases, length, sensors, lease, buffer, frame, warm,
                 status, restarts, history>>

\* A primitive is published, the first one after the lease that is for it.
PublishSegment(final, valid) ==
  LET first == generator.published = 0
      id == IF generator.leased THEN generator.id ELSE generator.id + 1 IN
  /\ generator.request # None /\ ~generator.final
  /\ final \/ generator.published + 1 < MaxSegments
  /\ leases' = IF first
               THEN Put(leases, [id |-> id, request |-> generator.request, active |-> TRUE])
               ELSE leases
  /\ references' = Put(references,
       [request |-> generator.request, index |-> generator.published,
        start |-> generator.published * SegmentFrames,
        reset |-> first, final |-> final, valid |-> valid])
  /\ generator' = [generator EXCEPT !.published = @ + 1, !.final = final,
                                    !.leased = TRUE, !.id = id]
  /\ length' = IF final
               THEN [length EXCEPT ![generator.request] =
                       (generator.published + 1) * SegmentFrames]
               ELSE length
  /\ UNCHANGED <<sensors, lease, buffer, frame, warm, status, restarts, history>>

\* The renewal names the active prompt, also before its first primitive.
Renew ==
  /\ generator.leased /\ generator.request # None
  /\ leases' = Put(leases, [id |-> generator.id, request |-> generator.request,
                            active |-> TRUE])
  /\ UNCHANGED <<references, external, sensors, lease, buffer, frame, warm, status,
                 restarts, history>>

\* The prompt completes, fails, or is stopped.
Finish ==
  /\ generator.request # None
  /\ leases' = IF generator.leased
               THEN Put(leases, [id |-> generator.id, request |-> generator.request,
                                 active |-> FALSE])
               ELSE leases
  /\ generator' = [generator EXCEPT !.request = None, !.published = 0, !.final = FALSE,
                                    !.leased = FALSE]
  /\ UNCHANGED <<references, length, sensors, lease, buffer, frame, warm, status,
                 restarts, history>>

----------------------------------------------------------------------------
(* The tracker.                                                             *)

\* Fault: a segment after a lost one is taken for the next.
FitsRequest(m) == m.valid /\ (m.reset \/ m.request = buffer.request)

\* ReferenceBuffer._validate and the checks of append: what has been cleared
\* by a reset fits every reset segment that is valid.
Fits(m) ==
  /\ m.valid
  /\ m.reset => m.index = 0 /\ m.start = 0
  /\ \/ m.reset
     \/ /\ m.request = buffer.request
        /\ m.index = buffer.segments
        /\ m.start = Len(buffer.content)

Frames(m) == [i \in 1..SegmentFrames |-> m.start + i - 1]

\* ReferenceBuffer.append
Appended(m) ==
  IF m.reset
  THEN [request |-> m.request, segments |-> 1, content |-> Frames(m), final |-> m.final]
  ELSE [request |-> buffer.request, segments |-> buffer.segments + 1,
        content |-> buffer.content \o Frames(m), final |-> m.final]

\* Fault: a replacement starts from a zero action.
ColdFor(m) == warm /\ ~m.reset

\* Fault: a replacement goes on at the frame of the motion before it.
FrameKept(m) == frame

\* TrackerEngine.append_reference, before it appends.
FrameFor(m) == IF m.reset THEN 0 ELSE frame
WarmFor(m) == warm /\ ~(m.reset /\ buffer.request = None)

\* _reference: what does not fit is dropped, but for the rewinding.
Reference ==
  /\ references # <<>>
  /\ LET m == Head(references) IN
       /\ frame' = FrameFor(m)
       /\ warm' = WarmFor(m)
       /\ buffer' = IF Fits(m) THEN Appended(m) ELSE buffer
  /\ references' = Tail(references)
  /\ UNCHANGED <<leases, external, sensors, lease, status, restarts, history>>

\* _lease, one that is compatible.
HoldLease ==
  /\ leases # <<>> /\ Head(leases).active
  /\ lease' = [id |-> Head(leases).id, request |-> Head(leases).request]
  /\ leases' = Tail(leases)
  /\ UNCHANGED <<references, external, sensors, buffer, frame, warm, status, restarts,
                 history>>

\* TrackerEngine.reset
Reset == buffer' = Empty /\ frame' = 0 /\ warm' = FALSE

\* Fault: a lease that ends is ignored, but for the buffer.
EndKeepsLease == Reset /\ lease' = lease

\* _lease, one that is not.
EndLease == Reset /\ lease' = None

LeaseEnds ==
  /\ leases # <<>> /\ ~Head(leases).active
  /\ EndLease
  /\ status' = [request |-> Head(leases).request, executed |-> 0, active |-> FALSE,
                exhausted |-> FALSE, ready |-> Ready]
  /\ ended' = ended \cup {Head(leases).id}
  /\ moved' = FALSE
  /\ leases' = Tail(leases)
  /\ UNCHANGED <<references, external, sensors, restarts, followed>>

\* _lowstate, _odometry: odometry that does not validate is no odometry.
Lowstate(usable) ==
  /\ sensors' = [sensors EXCEPT !.lowstate = usable]
  /\ UNCHANGED <<references, leases, external, lease, buffer, frame, warm, status,
                 restarts, history>>

Odometry(valid) ==
  /\ sensors' = [sensors EXCEPT !.odometry = valid]
  /\ UNCHANGED <<references, leases, external, lease, buffer, frame, warm, status,
                 restarts, history>>

\* Time: lowstate_timeout or odometry_timeout is over.
SensorStale ==
  /\ sensors' \in {[sensors EXCEPT !.lowstate = FALSE], [sensors EXCEPT !.odometry = FALSE]}
  /\ UNCHANGED <<references, leases, external, lease, buffer, frame, warm, status,
                 restarts, history>>

\* _tick, when only readiness is reported.
TickIdle ==
  /\ ~Ready \/ lease = None
  /\ status' = [request |-> None, executed |-> 0, active |-> FALSE,
                exhausted |-> FALSE, ready |-> Ready]
  /\ UNCHANGED <<references, leases, external, sensors, lease, buffer, frame, warm,
                 restarts, history>>

Pending == frame >= Len(buffer.content) /\ ~buffer.final

Completed == buffer.final /\ frame >= Len(buffer.content) - 1

\* ReferenceBuffer.window begins at the frame, or at the last one.
Tracked == IF frame < Len(buffer.content) THEN buffer.content[frame + 1]
           ELSE buffer.content[Len(buffer.content)]

\* _tick, TrackerEngine.step.  A lease for another request, a reference that
\* is pending and a policy that fails end the tick with nothing sent.
TickFollow ==
  /\ Ready /\ lease # None
  /\ lease.request = buffer.request
  /\ ~Pending
  /\ frame' = IF Completed THEN frame ELSE frame + 1
  /\ warm' = TRUE
  /\ status' = [request |-> lease.request, executed |-> frame + 1, active |-> TRUE,
                exhausted |-> Completed, ready |-> TRUE]
  /\ followed' = [followed EXCEPT ![lease.request] = @ \cup {Tracked}]
  /\ moved' = TRUE
  /\ UNCHANGED <<references, leases, external, sensors, lease, buffer, restarts, ended>>

\* External: the process ends and is started again, with nothing of before.
Restart ==
  /\ restarts < MaxRestarts
  /\ restarts' = restarts + 1
  /\ references' = <<>> /\ leases' = <<>>
  /\ sensors' = [lowstate |-> FALSE, odometry |-> FALSE]
  /\ lease' = None
  /\ Reset
  /\ moved' = FALSE
  /\ UNCHANGED <<external, status, followed, ended>>

----------------------------------------------------------------------------
Next ==
  \/ \E r \in Requests : Activate(r)
  \/ \E final, valid \in BOOLEAN : PublishSegment(final, valid)
  \/ Renew \/ Finish
  \/ Reference \/ HoldLease \/ LeaseEnds
  \/ \E usable \in BOOLEAN : Lowstate(usable) \/ Odometry(usable)
  \/ SensorStale
  \/ TickIdle \/ TickFollow
  \/ Restart

Spec == Init /\ [][Next]_vars

----------------------------------------------------------------------------
\* Every variable has its type, and nothing is behind the frame but frames.
TypeOK ==
  /\ references \in Seq(Segment) /\ leases \in Seq(LeaseMsg)
  /\ generator \in Generator
  /\ length \in [Requests -> Maybe(Nat)]
  /\ sensors \in [lowstate: BOOLEAN, odometry: BOOLEAN]
  /\ lease \in Maybe(Lease)
  /\ buffer \in Buffer
  /\ frame \in 0..Len(buffer.content) /\ warm \in BOOLEAN
  /\ status \in Status
  /\ restarts \in 0..MaxRestarts
  /\ followed \in [Requests -> SUBSET Nat]
  /\ moved \in BOOLEAN /\ ended \in SUBSET Nat

(* Whatever is lost, invalid or handled late, the buffer holds the motion   *)
(* of one request from its first frame on, without a gap: a segment after a *)
(* lost one is never taken for the next (ReferenceBuffer.append).           *)
ContentInOrder ==
  \A i \in DOMAIN buffer.content : buffer.content[i] = i - 1

(* A report is true: the executed frames it counts were all sent to the     *)
(* guard, in this motion, and reference_exhausted says that they are all    *)
(* there are.  The generator ends the goal with success upon it.            *)
ExecutedTruthful ==
  status.active =>
    /\ 0..(status.executed - 1) \subseteq followed[status.request]
    /\ status.exhausted => length[status.request] = status.executed

(* The policy sees its previous action exactly as long as the robot has     *)
(* moved on it: a replacement continues from it, and nothing of it is left  *)
(* after a stop, a completed motion or a start.                             *)
PreviousActionIsLast == warm <=> moved

(* A lease whose end was handled never comes back: no renewal that was      *)
(* under way revives it, though one lease serves many prompts.              *)
EndedStaysEnded == lease # None => lease.id \notin ended

(* docs/textop_backend.md, segment fields: a reset clears the old request's *)
(* data atomically.                                                         *)
ResetIsAtomic == [][frame' < frame => buffer' # buffer]_vars

=============================================================================
