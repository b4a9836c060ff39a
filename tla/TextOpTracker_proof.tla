------------------------ MODULE TextOpTracker_proof ------------------------
(***************************************************************************)
(* The safety properties of textop_tracker_node, for any requests, motions *)
(* and queues, and any number of restarts.                                 *)
(***************************************************************************)
EXTENDS TextOpTracker, SequenceTheorems, TLAPS

----------------------------------------------------------------------------
(* The queues.                                                              *)

\* Put adds its message at the end and loses at most the oldest one.
LEMMA PutElements ==
  ASSUME NEW S, NEW q \in Seq(S), NEW m \in S
  PROVE  /\ Put(q, m) \in Seq(S)
         /\ \E k \in {0, 1} :
              /\ Len(Put(q, m)) = Len(q) + 1 - k
              /\ \A j \in 1..(Len(q) - k) : Put(q, m)[j] = q[j + k]
              /\ Put(q, m)[Len(q) + 1 - k] = m
<1> USE TrackerAssumption
<1>1. CASE Len(q) < Depth
  <2>1. Put(q, m) = Append(q, m)
    BY <1>1 DEF Put
  <2>2. /\ Append(q, m) \in Seq(S) /\ Len(Append(q, m)) = Len(q) + 1 - 0
        /\ \A j \in 1..(Len(q) - 0) : Append(q, m)[j] = q[j + 0]
        /\ Append(q, m)[Len(q) + 1 - 0] = m
    BY AppendProperties
  <2>3. QED
    BY <2>1, <2>2
<1>2. CASE ~(Len(q) < Depth)
  <2>1. Put(q, m) = Append(Tail(q), m)
    BY <1>2 DEF Put
  <2>2. q # <<>>
    BY <1>2
  <2>3. /\ Tail(q) \in Seq(S) /\ Len(Tail(q)) = Len(q) - 1
        /\ \A j \in 1..(Len(q) - 1) : Tail(q)[j] = q[j + 1]
    BY <2>2, HeadTailProperties
  <2>4. /\ Append(Tail(q), m) \in Seq(S) /\ Len(Append(Tail(q), m)) = Len(q) + 1 - 1
        /\ \A j \in 1..(Len(q) - 1) : Append(Tail(q), m)[j] = q[j + 1]
        /\ Append(Tail(q), m)[Len(q) + 1 - 1] = m
    BY <2>3, AppendProperties
  <2>5. QED
    BY <2>1, <2>4
<1>3. QED
  BY <1>1, <1>2

\* What is left of a queue when its first message is taken.
LEMMA TakeElements ==
  ASSUME NEW S, NEW q \in Seq(S), q # <<>>
  PROVE  /\ Head(q) \in S /\ Head(q) = q[1] /\ 1 \in DOMAIN q
         /\ Tail(q) \in Seq(S) /\ Len(Tail(q)) = Len(q) - 1
         /\ \A j \in DOMAIN Tail(q) : Tail(q)[j] = q[j + 1] /\ j + 1 \in DOMAIN q
BY HeadTailProperties

----------------------------------------------------------------------------
(* Type correctness, with the bound on what is still to be published.       *)

Publishing == generator.final \/ generator.published < MaxSegments

\* A buffer that belongs to a request has frames, and a final one has some
\* that are still to be tracked.
Filled ==
  /\ buffer.request = None => buffer = Empty
  /\ buffer.request # None => Len(buffer.content) > 0
  /\ buffer.final => frame < Len(buffer.content)

Typed == TypeOK /\ Publishing

\* The frames of a segment are numbered from its start.
LEMMA FramesOfSegment ==
  ASSUME NEW m \in Segment
  PROVE  /\ Frames(m) \in Seq(Nat) /\ Len(Frames(m)) = SegmentFrames
         /\ \A i \in 1..SegmentFrames : Frames(m)[i] = m.start + i - 1
BY TrackerAssumption DEF Frames, Segment

\* A segment that fits makes the buffer longer, and numbers it on.
LEMMA JoinedFrames ==
  ASSUME NEW s \in Seq(Nat), NEW t \in Seq(Nat)
  PROVE  /\ s \o t \in Seq(Nat) /\ Len(s \o t) = Len(s) + Len(t)
         /\ \A i \in 1..(Len(s) + Len(t)) :
              (s \o t)[i] = IF i <= Len(s) THEN s[i] ELSE t[i - Len(s)]
BY ConcatProperties

LEMMA AppendedTyped ==
  ASSUME TypeOK, NEW m \in Segment, Fits(m)
  PROVE  /\ Appended(m) \in Buffer
         /\ Appended(m).request = m.request /\ Appended(m).final = m.final
         /\ Len(Appended(m).content) = m.start + SegmentFrames
         /\ m.reset => m.start = 0
         /\ ~m.reset => m.start = Len(buffer.content)
         /\ ContentInOrder => \A i \in 1..(m.start + SegmentFrames) :
                                 Appended(m).content[i] = i - 1
<1> USE TrackerAssumption DEF TypeOK, Maybe
<1>f. /\ Frames(m) \in Seq(Nat) /\ Len(Frames(m)) = SegmentFrames
      /\ \A i \in 1..SegmentFrames : Frames(m)[i] = m.start + i - 1
  BY FramesOfSegment
<1>1. CASE m.reset
  <2>1. m.start = 0 /\ m.request \in Requests /\ m.final \in BOOLEAN
    BY <1>1 DEF Fits, Segment
  <2>2. Appended(m) = [request |-> m.request, segments |-> 1,
                       content |-> Frames(m), final |-> m.final]
    BY <1>1 DEF Appended
  <2>3. Appended(m) \in Buffer
    BY <2>1, <2>2, <1>f DEF Buffer
  <2>4. QED
    BY <1>1, <2>1, <2>2, <2>3, <1>f
<1>2. CASE ~m.reset
  <2>1. /\ m.request = buffer.request /\ m.start = Len(buffer.content)
    BY <1>2 DEF Fits
  <2>2. Appended(m) = [request |-> buffer.request, segments |-> buffer.segments + 1,
                       content |-> buffer.content \o Frames(m), final |-> m.final]
    BY <1>2 DEF Appended
  <2>3. /\ buffer.content \o Frames(m) \in Seq(Nat)
        /\ Len(buffer.content \o Frames(m)) = Len(buffer.content) + SegmentFrames
        /\ \A i \in 1..(Len(buffer.content) + SegmentFrames) :
             (buffer.content \o Frames(m))[i] =
               IF i <= Len(buffer.content) THEN buffer.content[i]
               ELSE Frames(m)[i - Len(buffer.content)]
    <3>1. buffer.content \in Seq(Nat)
      BY DEF Buffer
    <3>2. /\ buffer.content \o Frames(m) \in Seq(Nat)
          /\ Len(buffer.content \o Frames(m)) = Len(buffer.content) + Len(Frames(m))
          /\ \A i \in 1..(Len(buffer.content) + Len(Frames(m))) :
               (buffer.content \o Frames(m))[i] =
                 IF i <= Len(buffer.content) THEN buffer.content[i]
                 ELSE Frames(m)[i - Len(buffer.content)]
      BY <1>f, <3>1, JoinedFrames
    <3>3. QED
      BY <1>f, <3>2
  <2>4. ASSUME ContentInOrder, NEW i \in 1..(Len(buffer.content) + SegmentFrames)
        PROVE  (buffer.content \o Frames(m))[i] = i - 1
    <3>1. CASE i <= Len(buffer.content)
      BY <2>3, <2>4, <3>1 DEF ContentInOrder
    <3>2. CASE ~(i <= Len(buffer.content))
      BY <1>f, <2>1, <2>3, <3>2
    <3>3. QED
      BY <3>1, <3>2
  <2>5. Appended(m) \in Buffer
    BY <2>2, <2>3 DEF Buffer, Segment
  <2>6. QED
    BY <1>2, <2>1, <2>2, <2>3, <2>4, <2>5, SMTT(30)
<1>3. QED
  BY <1>1, <1>2

LEMMA EmptyTyped == Empty \in Buffer /\ Len(Empty.content) = 0
BY DEF Empty, Buffer, Maybe

LEMMA TrackerTypedInit == Init => Typed
<1> SUFFICES ASSUME Init PROVE Typed
  OBVIOUS
<1> USE TrackerAssumption DEF Init, Typed, Publishing, TypeOK, Maybe
<1>1. generator \in Generator
  BY DEF Generator
<1>2. buffer \in Buffer /\ frame \in 0..Len(buffer.content)
  BY EmptyTyped
<1>3. warm \in BOOLEAN /\ moved \in BOOLEAN
  BY Zenon
<1>4. QED
  BY <1>1, <1>2, <1>3 DEF Status

\* A frame that is not pending is there, so a candidate is made of it.
LEMMA FollowedFrame ==
  ASSUME TypeOK, Filled, TickFollow
  PROVE  /\ frame + 1 \in DOMAIN buffer.content
         /\ Tracked = buffer.content[frame + 1] /\ Tracked \in Nat
         /\ buffer.request = lease.request /\ lease.request \in Requests
<1> USE DEF TypeOK
<1>1. lease.request \in Requests /\ buffer.request = lease.request
  BY TrackerAssumption DEF TickFollow, Lease, Maybe
<1>2. buffer.content \in Seq(Nat) /\ frame \in Nat
  BY DEF Buffer
<1>3. frame < Len(buffer.content)
  BY <1>2 DEF TickFollow, Pending, Filled, Buffer
<1>4. QED
  BY <1>1, <1>2, <1>3 DEF Tracked

\* Every handler of the tracker, and every step of what is around it, leaves
\* the variables well typed.
LEMMA TrackerTypedStep == Typed /\ Filled /\ [Next]_vars => Typed'
<1> SUFFICES ASSUME Typed, Filled, [Next]_vars PROVE Typed'
  OBVIOUS
<1> USE TrackerAssumption DEF Typed, Publishing, TypeOK, Maybe, external, history
<1>1. ASSUME NEW r \in Requests, Activate(r) PROVE Typed'
  <2>1. generator' = [generator EXCEPT !.request = r, !.published = 0, !.final = FALSE,
                                       !.used = @ \cup {r}]
    BY <1>1 DEF Activate
  <2>2. 0 \in 0..MaxSegments
    OBVIOUS
  <2>3. generator' \in Generator /\ generator'.published = 0
    BY <2>1, <2>2 DEF Generator
  <2>4. QED
    BY <1>1, <2>3 DEF Activate
<1>2. ASSUME NEW final \in BOOLEAN, NEW valid \in BOOLEAN, PublishSegment(final, valid)
      PROVE Typed'
  <2> DEFINE id == IF generator.leased THEN generator.id ELSE generator.id + 1
             l == [id |-> id, request |-> generator.request, active |-> TRUE]
             s == [request |-> generator.request, index |-> generator.published,
                   start |-> generator.published * SegmentFrames,
                   reset |-> generator.published = 0, final |-> final, valid |-> valid]
  <2>1. id \in Nat /\ l \in LeaseMsg
    BY <1>2 DEF PublishSegment, LeaseMsg, Generator
  <2>2. generator.published \in 0..(MaxSegments - 1)
    BY <1>2 DEF PublishSegment, Generator
  <2>3. s \in Segment
    BY <1>2, <2>2 DEF PublishSegment, Segment, Generator
  <2>4. references' \in Seq(Segment)
    <3>1. references' = Put(references, s)
      BY <1>2 DEF PublishSegment
    <3>2. QED
      BY <2>3, <3>1, PutElements
  <2>5. leases' \in Seq(LeaseMsg)
    <3>1. leases' = Put(leases, l) \/ leases' = leases
      BY <1>2 DEF PublishSegment
    <3>2. QED
      BY <2>1, <3>1, PutElements
  <2>6. /\ generator' \in Generator
        /\ generator'.final \/ generator'.published < MaxSegments
    <3>1. generator' = [generator EXCEPT !.published = @ + 1, !.final = final,
                                         !.leased = TRUE, !.id = id]
      BY <1>2 DEF PublishSegment
    <3>2. generator.published + 1 \in 0..MaxSegments
      BY <2>2
    <3>3. generator' \in Generator
      BY <2>1, <3>1, <3>2 DEF Generator
    <3>4. generator'.final = final /\ generator'.published = generator.published + 1
      BY <3>1 DEF Generator
    <3>5. QED
      BY <1>2, <2>2, <3>3, <3>4 DEF PublishSegment
  <2>7. length' \in [Requests -> Maybe(Nat)]
    <3>1. (generator.published + 1) * SegmentFrames \in Nat
      BY <2>2
    <3>2. \/ length' = [length EXCEPT ![generator.request] =
                          (generator.published + 1) * SegmentFrames]
          \/ length' = length
      BY <1>2 DEF PublishSegment
    <3>3. QED
      BY <3>1, <3>2
  <2>8. QED
    BY <1>2, <2>4, <2>5, <2>6, <2>7 DEF PublishSegment
<1>3. CASE Renew
  <2> DEFINE l == [id |-> generator.id, request |-> generator.request, active |-> TRUE]
  <2>1. l \in LeaseMsg /\ leases' = Put(leases, l)
    BY <1>3 DEF Renew, LeaseMsg, Generator
  <2>2. leases' \in Seq(LeaseMsg)
    BY <2>1, PutElements
  <2>3. QED
    BY <1>3, <2>2 DEF Renew
<1>4. CASE Finish
  <2> DEFINE l == [id |-> generator.id, request |-> generator.request, active |-> FALSE]
  <2>1. l \in LeaseMsg /\ (leases' = Put(leases, l) \/ leases' = leases)
    BY <1>4 DEF Finish, LeaseMsg, Generator
  <2>2. leases' \in Seq(LeaseMsg)
    BY <2>1, PutElements
  <2>3. generator' = [generator EXCEPT !.request = None, !.published = 0, !.final = FALSE,
                                       !.leased = FALSE]
    BY <1>4 DEF Finish
  <2>4. 0 \in 0..MaxSegments
    OBVIOUS
  <2>5. generator' \in Generator /\ generator'.published = 0
    BY <2>3, <2>4 DEF Generator
  <2>6. QED
    BY <1>4, <2>2, <2>5 DEF Finish
<1>5. CASE Reference
  <2> DEFINE m == Head(references)
  <2>1. m \in Segment /\ references' \in Seq(Segment)
    BY <1>5, TakeElements DEF Reference
  <2>2. buffer' \in Buffer /\ frame' \in 0..Len(buffer'.content)
    <3>1. CASE Fits(m)
      <4>1. buffer' = Appended(m) /\ frame' = FrameFor(m)
        BY <1>5, <3>1 DEF Reference
      <4>2. /\ buffer' \in Buffer /\ Len(buffer'.content) = m.start + SegmentFrames
            /\ ~m.reset => m.start = Len(buffer.content)
        BY <2>1, <3>1, <4>1, AppendedTyped
      <4>3. m.start \in Nat
        BY <2>1 DEF Segment
      <4>4. Len(buffer.content) \in Nat
        BY DEF Buffer
      <4>5. frame' \in 0..Len(buffer'.content)
        BY <4>1, <4>2, <4>3, <4>4 DEF FrameFor
      <4>6. QED
        BY <4>2, <4>5
    <3>2. CASE ~Fits(m)
      BY <1>5, <3>2 DEF Reference, FrameFor, Buffer
    <3>3. QED
      BY <3>1, <3>2
  <2>3. warm' \in BOOLEAN
    BY <1>5 DEF Reference, WarmFor
  <2>4. QED
    BY <1>5, <2>1, <2>2, <2>3 DEF Reference
<1>6. CASE HoldLease
  <2>1. Head(leases) \in LeaseMsg /\ leases' \in Seq(LeaseMsg)
    BY <1>6, TakeElements DEF HoldLease
  <2>2. lease' \in Lease
    BY <1>6, <2>1 DEF HoldLease, Lease, LeaseMsg
  <2>3. QED
    BY <1>6, <2>1, <2>2 DEF HoldLease
<1>7. CASE LeaseEnds
  <2>1. Head(leases) \in LeaseMsg /\ leases' \in Seq(LeaseMsg)
    BY <1>7, TakeElements DEF LeaseEnds
  <2>2. status' \in Status /\ ended' \in SUBSET Nat
    BY <1>7, <2>1 DEF LeaseEnds, Status, LeaseMsg, Ready
  <2>3. buffer' \in Buffer /\ frame' \in 0..Len(buffer'.content)
    BY <1>7, EmptyTyped DEF LeaseEnds, EndLease, Reset
  <2>4. lease' = None /\ warm' = FALSE /\ moved' = FALSE
    BY <1>7 DEF LeaseEnds, EndLease, Reset
  <2>5. QED
    BY <1>7, <2>1, <2>2, <2>3, <2>4 DEF LeaseEnds
<1>8. ASSUME NEW usable \in BOOLEAN, Lowstate(usable) PROVE Typed'
  BY <1>8 DEF Lowstate
<1>9. ASSUME NEW usable \in BOOLEAN, Odometry(usable) PROVE Typed'
  BY <1>9 DEF Odometry
<1>10. CASE SensorStale
  BY <1>10 DEF SensorStale
<1>11. CASE TickIdle
  BY <1>11 DEF TickIdle, Status, Ready
<1>12. CASE TickFollow
  <2>1. lease \in Lease /\ lease.request \in Requests
    BY <1>12 DEF TickFollow, Lease
  <2>2. frame' \in 0..Len(buffer.content)
    BY <1>12 DEF TickFollow, Pending, Completed
  <2>3. status' \in Status
    BY <1>12, <2>1 DEF TickFollow, Status, Completed
  <2>4. followed' \in [Requests -> SUBSET Nat]
    <3>1. Tracked \in Nat
      BY <1>12, FollowedFrame
    <3>2. QED
      BY <1>12, <2>1, <3>1 DEF TickFollow
  <2>5. QED
    BY <1>12, <2>2, <2>3, <2>4 DEF TickFollow
<1>13. CASE Restart
  <2>1. buffer' \in Buffer /\ frame' \in 0..Len(buffer'.content)
    BY <1>13, EmptyTyped DEF Restart, Reset
  <2>2. restarts' \in 0..MaxRestarts
    BY <1>13 DEF Restart
  <2>3. /\ references' = <<>> /\ leases' = <<>> /\ lease' = None
        /\ warm' = FALSE /\ moved' = FALSE
        /\ sensors' = [lowstate |-> FALSE, odometry |-> FALSE]
    BY <1>13 DEF Restart, Reset
  <2>4. UNCHANGED <<generator, length, status, followed, ended>>
    BY <1>13 DEF Restart
  <2>5. references' \in Seq(Segment) /\ leases' \in Seq(LeaseMsg)
    BY <2>3
  <2>6. QED
    BY <2>1, <2>2, <2>3, <2>4, <2>5
<1>14. CASE UNCHANGED vars
  BY <1>14 DEF vars
<1>15. QED
  BY <1>1, <1>2, <1>3, <1>4, <1>5, <1>6, <1>7, <1>8, <1>9, <1>10, <1>11, <1>12, <1>13,
     <1>14 DEF Next

\* Only the reference handler, a tick and a reset touch the buffer's frame.
LEMMA TrackerFilledStep == Typed /\ Filled /\ [Next]_vars => Filled'
<1> SUFFICES ASSUME Typed, Filled, [Next]_vars PROVE Filled'
  OBVIOUS
<1> USE TrackerAssumption DEF Typed, TypeOK
<1>1. CASE Reference
  <2> DEFINE m == Head(references)
  <2>1. m \in Segment
    BY <1>1, TakeElements DEF Reference
  <2>2. CASE Fits(m)
    <3>1. buffer' = Appended(m) /\ frame' = FrameFor(m)
      BY <1>1, <2>2 DEF Reference
    <3>2. /\ buffer'.request = m.request
          /\ Len(buffer'.content) = m.start + SegmentFrames
          /\ ~m.reset => m.start = Len(buffer.content)
      BY <2>1, <2>2, <3>1, AppendedTyped
    <3>3. m.start \in Nat /\ m.request \in Requests
      BY <2>1 DEF Segment
    <3>4. frame' < Len(buffer'.content)
      BY <3>1, <3>2, <3>3, SMTT(30) DEF FrameFor, Buffer
    <3>5. QED
      BY <3>2, <3>3, <3>4 DEF Filled
  <2>3. CASE ~Fits(m)
    BY <1>1, <2>3 DEF Reference, FrameFor, Filled, Buffer
  <2>4. QED
    BY <2>2, <2>3
<1>2. CASE TickFollow
  <2>1. buffer' = buffer /\ frame' = IF Completed THEN frame ELSE frame + 1
    BY <1>2 DEF TickFollow
  <2>2. buffer.final => frame' < Len(buffer.content)
    BY <2>1 DEF Completed, Filled, Buffer
  <2>3. QED
    BY <2>1, <2>2 DEF Filled
<1>3. CASE Reset
  BY <1>3 DEF Reset, Filled, Empty
<1>4. CASE UNCHANGED <<buffer, frame>>
  BY <1>4 DEF Filled
<1>5. QED
  BY <1>1, <1>2, <1>3, <1>4
  DEF Next, Activate, PublishSegment, Renew, Finish, HoldLease, LeaseEnds, EndLease,
      Lowstate, Odometry, SensorStale, TickIdle, Restart, vars

\* Type correctness of the tracker: the frame never passes what has arrived.
THEOREM TrackerTypeOK == Spec => []TypeOK
<1>1. Init => Filled
  BY DEF Init, Filled, Empty
<1>2. Typed => TypeOK
  BY DEF Typed
<1>3. QED
  BY <1>1, <1>2, TrackerTypedInit, TrackerTypedStep, TrackerFilledStep, PTL DEF Spec

----------------------------------------------------------------------------
(* The buffer's content, and the action before.                             *)

\* Only a segment that fits and a reset change the content.
LEMMA ContentStep ==
  ASSUME Typed, Filled, ContentInOrder, [Next]_vars
  PROVE  ContentInOrder'
<1>1. CASE Reference
  <2> DEFINE m == Head(references)
  <2>1. m \in Segment
    BY <1>1, TakeElements DEF Reference, Typed, TypeOK
  <2>2. CASE Fits(m)
    <3>1. buffer' = Appended(m)
      BY <1>1, <2>2 DEF Reference
    <3>2. /\ buffer' \in Buffer
          /\ Len(buffer'.content) = m.start + SegmentFrames
          /\ \A i \in 1..(m.start + SegmentFrames) : buffer'.content[i] = i - 1
      BY <2>1, <2>2, <3>1, AppendedTyped DEF Typed
    <3>3. DOMAIN buffer'.content = 1..(m.start + SegmentFrames)
      BY <3>2 DEF Buffer
    <3>4. QED
      BY <3>2, <3>3 DEF ContentInOrder
  <2>3. CASE ~Fits(m)
    BY <1>1, <2>3 DEF Reference, ContentInOrder
  <2>4. QED
    BY <2>2, <2>3
<1>2. CASE Reset
  BY <1>2 DEF Reset, ContentInOrder, Empty
<1>3. CASE UNCHANGED buffer
  BY <1>3 DEF ContentInOrder
<1>4. QED
  BY <1>1, <1>2, <1>3
  DEF Next, Activate, PublishSegment, Renew, Finish, HoldLease, LeaseEnds, EndLease,
      Lowstate, Odometry, SensorStale, TickIdle, TickFollow, Restart, vars

\* Whatever is lost or invalid, the buffer has no gap.
THEOREM TrackerContentInOrder == Spec => []ContentInOrder
<1>1. Init => Filled /\ ContentInOrder
  BY DEF Init, Filled, ContentInOrder, Empty
<1>2. Typed /\ Filled /\ ContentInOrder /\ [Next]_vars => ContentInOrder'
  BY ContentStep
<1>3. QED
  BY <1>1, <1>2, TrackerTypedInit, TrackerTypedStep, TrackerFilledStep, PTL DEF Spec

\* Without a reference there is no action to go on from.
Cold == buffer.request = None => ~warm

LEMMA PreviousActionStep ==
  ASSUME Typed, Filled, Cold, PreviousActionIsLast, [Next]_vars
  PROVE  Cold' /\ PreviousActionIsLast'
<1> USE DEF Cold, PreviousActionIsLast
<1>1. CASE Reference
  <2> DEFINE m == Head(references)
  <2>1. moved' = moved /\ warm' = WarmFor(m)
    BY <1>1 DEF Reference, history
  <2>2. warm' = warm
    BY <2>1 DEF WarmFor, Typed, TypeOK
  <2>3. m \in Segment
    BY <1>1, TakeElements DEF Reference, Typed, TypeOK
  <2>4. CASE Fits(m)
    <3>1. buffer'.request = m.request
      BY <1>1, <2>3, <2>4, AppendedTyped DEF Reference, Typed
    <3>2. m.request # None
      BY <2>3, TrackerAssumption DEF Segment
    <3>3. QED
      BY <2>1, <2>2, <3>1, <3>2
  <2>5. CASE ~Fits(m)
    BY <1>1, <2>1, <2>2, <2>5 DEF Reference
  <2>6. QED
    BY <2>4, <2>5
<1>2. CASE TickFollow
  <2>1. buffer' = buffer /\ buffer.request \in Requests
    BY <1>2, FollowedFrame DEF TickFollow, Typed
  <2>2. warm' /\ moved'
    BY <1>2 DEF TickFollow
  <2>3. QED
    BY <2>1, <2>2, TrackerAssumption
<1>3. CASE Reset /\ moved' = FALSE
  BY <1>3 DEF Reset
<1>4. CASE UNCHANGED <<buffer, warm, moved>>
  BY <1>4
<1>5. QED
  BY <1>1, <1>2, <1>3, <1>4
  DEF Next, Activate, PublishSegment, Renew, Finish, HoldLease, LeaseEnds, EndLease,
      Lowstate, Odometry, SensorStale, TickIdle, Restart, vars, history

\* The policy's previous action is what the robot last moved on, or none.
THEOREM TrackerPreviousAction == Spec => []PreviousActionIsLast
<1>1. Init => Filled /\ Cold /\ PreviousActionIsLast
  <2>1. Init => Filled
    BY DEF Init, Filled, Empty
  <2>2. Init => Cold /\ PreviousActionIsLast
    BY Zenon DEF Init, Cold, PreviousActionIsLast
  <2>3. QED
    BY <2>1, <2>2
<1>2. Typed /\ Filled /\ Cold /\ PreviousActionIsLast /\ [Next]_vars
        => Cold' /\ PreviousActionIsLast'
  BY PreviousActionStep
<1>3. QED
  BY <1>1, <1>2, TrackerTypedInit, TrackerTypedStep, TrackerFilledStep, PTL DEF Spec

----------------------------------------------------------------------------
(* What is reported.  The length of a motion is known once its last segment *)
(* is published, and is then what a final segment, under way or appended,   *)
(* adds up to; the frames before the one that is next were all sent.        *)

Used ==
  /\ generator.request # None => generator.request \in generator.used
  /\ \A r \in Requests : length[r] # None =>
       r \in generator.used /\ (r = generator.request => generator.final)

LengthSent ==
  \A i \in DOMAIN references : references[i].final =>
    length[references[i].request] = references[i].start + SegmentFrames

LengthHeld == buffer.final => length[buffer.request] = Len(buffer.content)

SentBefore ==
  buffer.request # None => 0..(frame - 1) \subseteq followed[buffer.request]

Reported == status.active => status.request \in Requests

ReportInv == Used /\ LengthSent /\ LengthHeld /\ SentBefore /\ Reported /\ ExecutedTruthful

\* A length that is known is never changed.
LEMMA LengthStays ==
  ASSUME Typed, Used, [Next]_vars, NEW r \in Requests, length[r] # None
  PROVE  length'[r] = length[r]
<1>1. ASSUME NEW final \in BOOLEAN, NEW valid \in BOOLEAN, PublishSegment(final, valid)
      PROVE  length'[r] = length[r]
  <2>1. r # generator.request
    BY <1>1 DEF PublishSegment, Used
  <2>2. QED
    BY <1>1, <2>1 DEF PublishSegment, Typed, TypeOK
<1>2. CASE UNCHANGED length
  BY <1>2
<1>3. QED
  BY <1>1, <1>2
  DEF Next, Activate, Renew, Finish, Reference, HoldLease, LeaseEnds, Lowstate, Odometry,
      SensorStale, TickIdle, TickFollow, Restart, vars, external

LEMMA UsedStep ==
  ASSUME Typed, Used, [Next]_vars
  PROVE  Used'
<1> USE TrackerAssumption DEF Used
<1>1. ASSUME NEW r \in Requests, Activate(r) PROVE Used'
  <2>1. /\ generator'.request = r /\ generator'.used = generator.used \cup {r}
        /\ length' = length /\ length[r] = None
    BY <1>1 DEF Activate, Typed, TypeOK, Generator
  <2>2. QED
    BY <2>1
<1>2. ASSUME NEW final \in BOOLEAN, NEW valid \in BOOLEAN, PublishSegment(final, valid)
      PROVE  Used'
  <2>1. /\ generator'.request = generator.request /\ generator'.used = generator.used
        /\ generator'.final = final /\ generator.request # None /\ ~generator.final
    BY <1>2 DEF PublishSegment, Typed, TypeOK, Generator
  <2>2. ASSUME NEW r \in Requests, length'[r] # None, r # generator.request
        PROVE  length[r] # None
    BY <1>2, <2>2 DEF PublishSegment, Typed, TypeOK
  <2>3. length'[generator.request] # None => final
    <3>1. generator.request \in Requests
      BY <2>1 DEF Typed, TypeOK, Generator, Maybe
    <3>2. ~final => length' = length
      BY <1>2 DEF PublishSegment
    <3>3. QED
      BY <2>1, <3>1, <3>2
  <2>4. QED
    BY <2>1, <2>2, <2>3
<1>3. CASE Finish
  BY <1>3 DEF Finish, Typed, TypeOK, Generator
<1>4. CASE UNCHANGED external
  BY <1>4 DEF external
<1>5. QED
  BY <1>1, <1>2, <1>3, <1>4
  DEF Next, Renew, Reference, HoldLease, LeaseEnds, Lowstate, Odometry, SensorStale,
      TickIdle, TickFollow, Restart, vars, external

LEMMA LengthSentStep ==
  ASSUME Typed, Used, LengthSent, [Next]_vars
  PROVE  LengthSent'
<1> USE DEF LengthSent
<1>t. /\ references \in Seq(Segment) /\ DOMAIN references = 1..Len(references)
      /\ \A i \in DOMAIN references : references[i].request \in Requests
                                      /\ references[i].start \in Nat
  <2>1. references \in Seq(Segment) /\ DOMAIN references = 1..Len(references)
    BY DEF Typed, TypeOK
  <2>2. \A i \in DOMAIN references : references[i] \in Segment
    BY <2>1
  <2>3. QED
    BY <2>1, <2>2 DEF Segment
<1>n. None \notin Nat /\ SegmentFrames \in Nat
  BY TrackerAssumption
<1>1. ASSUME NEW final \in BOOLEAN, NEW valid \in BOOLEAN, PublishSegment(final, valid)
      PROVE  LengthSent'
  <2> DEFINE s == [request |-> generator.request, index |-> generator.published,
                   start |-> generator.published * SegmentFrames,
                   reset |-> generator.published = 0, final |-> final, valid |-> valid]
  <2>1. s \in Segment
    <3>1. generator.published \in 0..(MaxSegments - 1) /\ generator.request \in Requests
      BY <1>1, TrackerAssumption
      DEF PublishSegment, Typed, TypeOK, Publishing, Generator, Maybe
    <3>2. generator.published * SegmentFrames \in Nat
      BY <3>1, <1>n
    <3>3. QED
      BY <3>1, <3>2 DEF Segment
  <2>2. references' = Put(references, s)
    BY <1>1 DEF PublishSegment
  <2>3. PICK k \in {0, 1} :
          /\ Len(references') = Len(references) + 1 - k
          /\ \A j \in 1..(Len(references) - k) : references'[j] = references[j + k]
          /\ references'[Len(references) + 1 - k] = s
    <3>1. \E k \in {0, 1} :
            /\ Len(Put(references, s)) = Len(references) + 1 - k
            /\ \A j \in 1..(Len(references) - k) : Put(references, s)[j] = references[j + k]
            /\ Put(references, s)[Len(references) + 1 - k] = s
      <4> HIDE DEF s
      <4>1. QED
        BY ZenonT(60), <1>t, <2>1, PutElements
    <3>2. QED
      BY <2>2, <3>1
  <2>4. references' \in Seq(Segment)
    BY <1>t, <2>1, <2>2, PutElements
  <2>5. s.final => length'[s.request] = s.start + SegmentFrames
    <3>1. /\ generator.request \in Requests /\ generator.published \in Nat
          /\ DOMAIN length = Requests
      BY <1>1 DEF PublishSegment, Typed, TypeOK, Generator, Maybe
    <3>2. final => length' = [length EXCEPT ![generator.request] =
                                (generator.published + 1) * SegmentFrames]
      BY <1>1 DEF PublishSegment
    <3>3. (generator.published + 1) * SegmentFrames
            = generator.published * SegmentFrames + SegmentFrames
      BY <3>1, <1>n
    <3>4. QED
      BY <3>1, <3>2, <3>3
  <2>6. ASSUME NEW j \in DOMAIN references', references'[j].final
        PROVE  length'[references'[j].request] = references'[j].start + SegmentFrames
    <3>1. CASE j \in 1..(Len(references) - k)
      <4>1. j + k \in DOMAIN references /\ references'[j] = references[j + k]
        BY <1>t, <2>3, <3>1
      <4>2. length[references[j + k].request] = references[j + k].start + SegmentFrames
        BY <2>6, <4>1
      <4>3. length[references[j + k].request] # None
        BY <4>1, <4>2, <1>t, <1>n
      <4>4. length'[references[j + k].request] = length[references[j + k].request]
        BY <4>1, <4>3, <1>t, LengthStays
      <4>5. QED
        BY <4>1, <4>2, <4>4
    <3>2. CASE j = Len(references) + 1 - k
      BY <2>3, <2>5, <2>6, <3>2
    <3>3. QED
      BY <1>t, <2>3, <2>4, <3>1, <3>2
  <2>7. QED
    BY <2>6
<1>2. CASE Reference
  <2>1. references # <<>> /\ references' = Tail(references) /\ length' = length
    BY <1>2 DEF Reference, external
  <2>2. \A j \in DOMAIN references' :
           references'[j] = references[j + 1] /\ j + 1 \in DOMAIN references
    BY <1>t, <2>1, TakeElements
  <2>3. QED
    BY <2>1, <2>2
<1>3. CASE references' = <<>>
  BY <1>3
<1>4. CASE UNCHANGED <<references, length>>
  BY <1>4
<1>5. QED
  BY <1>1, <1>2, <1>3, <1>4
  DEF Next, Activate, Renew, Finish, HoldLease, LeaseEnds, Lowstate, Odometry, SensorStale,
      TickIdle, TickFollow, Restart, vars, external

LEMMA LengthHeldStep ==
  ASSUME Typed, Filled, Used, LengthSent, LengthHeld, [Next]_vars
  PROVE  LengthHeld'
<1> USE DEF LengthHeld
<1>1. CASE Reference
  <2> DEFINE m == Head(references)
  <2>1. /\ m \in Segment /\ m = references[1] /\ 1 \in DOMAIN references
        /\ length' = length
    BY <1>1, TakeElements DEF Reference, Typed, TypeOK, external
  <2>2. CASE Fits(m)
    <3>1. /\ buffer'.request = m.request /\ buffer'.final = m.final
          /\ Len(buffer'.content) = m.start + SegmentFrames
      BY <1>1, <2>1, <2>2, AppendedTyped DEF Reference, Typed
    <3>2. m.final => length[m.request] = m.start + SegmentFrames
      BY <2>1 DEF LengthSent
    <3>3. QED
      BY <2>1, <3>1, <3>2
  <2>3. CASE ~Fits(m)
    BY <1>1, <2>1, <2>3 DEF Reference
  <2>4. QED
    BY <2>2, <2>3
<1>2. CASE Reset
  BY <1>2 DEF Reset, Empty
<1>3. ASSUME UNCHANGED buffer, buffer.final PROVE length'[buffer.request] = Len(buffer.content)
  <2>1. buffer.request \in Requests
    BY <1>3 DEF Filled, Empty, Typed, TypeOK, Buffer, Maybe
  <2>2. length[buffer.request] = Len(buffer.content) /\ Len(buffer.content) \in Nat
    BY <1>3 DEF Typed, TypeOK, Buffer
  <2>3. length[buffer.request] # None
    BY <2>2, TrackerAssumption
  <2>4. QED
    BY <2>1, <2>2, <2>3, LengthStays
<1>4. QED
  BY <1>1, <1>2, <1>3
  DEF Next, Activate, PublishSegment, Renew, Finish, HoldLease, LeaseEnds, EndLease,
      Lowstate, Odometry, SensorStale, TickIdle, TickFollow, Restart, vars

\* What a candidate is made of is the frame that is next, by ContentInOrder.
LEMMA TrackedIsFrame ==
  ASSUME Typed, Filled, ContentInOrder, TickFollow
  PROVE  Tracked = frame
<1>1. frame + 1 \in DOMAIN buffer.content /\ Tracked = buffer.content[frame + 1]
  BY FollowedFrame DEF Typed
<1>2. frame \in Nat
  BY DEF Typed, TypeOK, Buffer
<1>3. QED
  BY <1>1, <1>2 DEF ContentInOrder

\* A tick adds the frame it tracked to those of its motion.
LEMMA FollowedGrows ==
  ASSUME Typed, Filled, ContentInOrder, TickFollow
  PROVE  /\ buffer.request \in Requests /\ lease.request = buffer.request
         /\ followed'[buffer.request] = followed[buffer.request] \cup {frame}
BY FollowedFrame, TrackedIsFrame DEF TickFollow, Typed, TypeOK

\* No step forgets a frame that was sent.
LEMMA FollowedStays ==
  ASSUME Typed, Filled, [Next]_vars, NEW r \in Requests
  PROVE  followed[r] \subseteq followed'[r]
<1>1. CASE TickFollow
  BY <1>1, FollowedFrame DEF TickFollow, Typed, TypeOK
<1>2. CASE UNCHANGED followed
  BY <1>2
<1>3. QED
  BY <1>1, <1>2
  DEF Next, Activate, PublishSegment, Renew, Finish, Reference, HoldLease, LeaseEnds,
      Lowstate, Odometry, SensorStale, TickIdle, Restart, vars, history

LEMMA SentBeforeStep ==
  ASSUME Typed, Filled, ContentInOrder, SentBefore, [Next]_vars
  PROVE  SentBefore'
<1> USE DEF SentBefore
<1>f. frame \in Nat
  BY DEF Typed, TypeOK, Buffer
<1>1. CASE Reference
  <2> DEFINE m == Head(references)
  <2>1. m \in Segment /\ followed' = followed
    BY <1>1, TakeElements DEF Reference, Typed, TypeOK, history
  <2>2. frame' = 0 \/ (frame' = frame /\ ~m.reset)
    BY <1>1 DEF Reference, FrameFor
  <2>3. ~m.reset => buffer'.request = buffer.request
    BY <1>1 DEF Reference, Appended
  <2>4. QED
    BY <2>1, <2>2, <2>3
<1>2. CASE TickFollow
  <2>1. /\ frame' \in {frame, frame + 1} /\ buffer' = buffer
        /\ followed'[buffer.request] = followed[buffer.request] \cup {frame}
    BY <1>2, FollowedGrows DEF TickFollow
  <2>2. buffer.request # None
    BY <1>2, FollowedGrows, TrackerAssumption
  <2>3. 0..(frame - 1) \subseteq followed[buffer.request]
    BY <2>2
  <2>4. 0..frame \subseteq followed'[buffer.request]
    BY <1>f, <2>1, <2>3
  <2>5. 0..(frame' - 1) \subseteq 0..frame
    <3>1. CASE frame' = frame
      BY <1>f, <3>1
    <3>2. CASE frame' = frame + 1
      <4>1. frame' - 1 = frame
        BY <1>f, <3>2
      <4>2. QED
        BY <4>1
    <3>3. QED
      BY <2>1, <3>1, <3>2
  <2>6. QED
    BY <2>1, <2>4, <2>5
<1>3. CASE Reset
  BY <1>3 DEF Reset, Empty
<1>4. CASE UNCHANGED <<buffer, frame, followed>>
  BY <1>4
<1>5. QED
  BY <1>1, <1>2, <1>3, <1>4
  DEF Next, Activate, PublishSegment, Renew, Finish, HoldLease, LeaseEnds, EndLease,
      Lowstate, Odometry, SensorStale, TickIdle, Restart, vars, history

LEMMA ReportedStep ==
  ASSUME Typed, Filled, ContentInOrder, ReportInv, [Next]_vars
  PROVE  Reported' /\ ExecutedTruthful'
<1> USE DEF Reported, ExecutedTruthful, ReportInv
<1>1. CASE TickFollow
  <2>1. /\ status'.active /\ status'.request = lease.request
        /\ status'.executed = frame + 1 /\ status'.exhausted = Completed
        /\ length' = length /\ buffer' = buffer
    BY <1>1 DEF TickFollow, external
  <2>2. /\ lease.request = buffer.request /\ buffer.request \in Requests
        /\ followed'[buffer.request] = followed[buffer.request] \cup {frame}
    BY <1>1, FollowedGrows
  <2>3. frame \in Nat /\ frame + 1 \in 1..Len(buffer.content)
    BY <1>1, FollowedFrame DEF Typed, TypeOK, Buffer
  <2>4. 0..(frame - 1) \subseteq followed[buffer.request]
    BY <2>2, TrackerAssumption DEF SentBefore
  <2>5. 0..(status'.executed - 1) \subseteq followed'[status'.request]
    BY <2>1, <2>2, <2>3, <2>4
  <2>6. Completed => length[buffer.request] = frame + 1
    BY <2>3 DEF Completed, LengthHeld, Typed, TypeOK, Buffer
  <2>7. QED
    BY <2>1, <2>2, <2>5, <2>6
<1>2. CASE ~status'.active
  BY <1>2
<1>3. ASSUME UNCHANGED status, status.active PROVE Reported' /\ ExecutedTruthful'
  <2>1. status.request \in Requests /\ status.executed \in Nat
    BY <1>3 DEF Typed, TypeOK, Status
  <2>2. followed[status.request] \subseteq followed'[status.request]
    BY <2>1, FollowedStays
  <2>3. status.exhausted => length'[status.request] = status.executed
    BY <1>3, <2>1, LengthStays, TrackerAssumption
  <2>4. QED
    BY <1>3, <2>1, <2>2, <2>3
<1>4. CASE UNCHANGED status
  <2>1. CASE status.active
    BY <1>3, <1>4, <2>1
  <2>2. CASE ~status.active
    BY <1>2, <1>4, <2>2
  <2>3. QED
    BY <2>1, <2>2
<1>5. CASE LeaseEnds \/ TickIdle
  BY <1>2, <1>5 DEF LeaseEnds, TickIdle
<1>6. QED
  BY <1>1, <1>4, <1>5
  DEF Next, Activate, PublishSegment, Renew, Finish, Reference, HoldLease,
      Lowstate, Odometry, SensorStale, Restart, vars

\* A report counts frames that were sent, and ends a motion at its length.
THEOREM TrackerExecutedTruthful == Spec => []ExecutedTruthful
<1>1. Init => Filled /\ ContentInOrder
  BY DEF Init, Filled, ContentInOrder, Empty
<1>2. Init => ReportInv
  BY DEF Init, ReportInv, Used, LengthSent, LengthHeld, SentBefore, Reported,
         ExecutedTruthful, Empty
<1>3. Typed /\ Filled /\ ContentInOrder /\ [Next]_vars => ContentInOrder'
  BY ContentStep
<1>4. Typed /\ Filled /\ ContentInOrder /\ ReportInv /\ [Next]_vars => ReportInv'
  BY UsedStep, LengthSentStep, LengthHeldStep, SentBeforeStep, ReportedStep DEF ReportInv
<1>5. ReportInv => ExecutedTruthful
  BY DEF ReportInv
<1>6. QED
  BY <1>1, <1>2, <1>3, <1>4, <1>5, TrackerTypedInit, TrackerTypedStep, TrackerFilledStep,
     PTL DEF Spec

----------------------------------------------------------------------------
(* The leases.  The ids of those that ended, of those that are on their way *)
(* and of the generator's go up, and past every end.                        *)

\* Of the message with this id another message may come, unless it is the end.
Before(l, id) == l.id <= id /\ (~l.active => l.id < id)

LeasesInOrder ==
  \A i, j \in DOMAIN leases : i < j => Before(leases[i], leases[j].id)

\* The lease that the generator renews has not ended, and is not about to.
GeneratorIsLast ==
  /\ \A i \in DOMAIN leases :
       leases[i].id <= generator.id
       /\ (generator.leased => Before(leases[i], generator.id))
  /\ \A e \in ended : e <= generator.id /\ (generator.leased => e < generator.id)

EndsAreOver == \A e \in ended, i \in DOMAIN leases : e < leases[i].id

LeaseInv == LeasesInOrder /\ GeneratorIsLast /\ EndsAreOver /\ EndedStaysEnded

\* A message that is sent with the generator's id, which is no older than it was.
LEMMA LeaseSent ==
  ASSUME Typed, Typed', LeaseInv, NEW l \in LeaseMsg, leases' = Put(leases, l),
         UNCHANGED <<lease, ended>>, l.id = generator'.id,
         generator.leased \/ generator'.id = generator.id + 1,
         generator.leased => generator'.id = generator.id,
         generator'.leased <=> l.active
  PROVE  LeaseInv'
<1>1. /\ leases \in Seq(LeaseMsg) /\ leases' \in Seq(LeaseMsg)
      /\ generator.id \in Nat /\ generator'.id \in Nat /\ ended \subseteq Nat
  BY DEF Typed, TypeOK, Generator
<1>2. PICK k \in {0, 1} :
        /\ Len(leases') = Len(leases) + 1 - k
        /\ \A j \in 1..(Len(leases) - k) : leases'[j] = leases[j + k]
        /\ leases'[Len(leases) + 1 - k] = l
  <2>1. \E k \in {0, 1} :
          /\ Len(Put(leases, l)) = Len(leases) + 1 - k
          /\ \A j \in 1..(Len(leases) - k) : Put(leases, l)[j] = leases[j + k]
          /\ Put(leases, l)[Len(leases) + 1 - k] = l
    BY ZenonT(60), <1>1, PutElements
  <2>2. QED
    BY <2>1
<1>3. \A j \in DOMAIN leases' :
        \/ j = Len(leases') /\ leases'[j] = l
        \/ j < Len(leases') /\ j + k \in DOMAIN leases /\ leases'[j] = leases[j + k]
  BY <1>1, <1>2
<1>4. \A i \in DOMAIN leases : Before(leases[i], generator'.id) /\ leases[i].id \in Nat
  <2>1. \A i \in DOMAIN leases : leases[i] \in LeaseMsg
    BY <1>1
  <2>2. QED
    BY <1>1, <2>1 DEF LeaseInv, GeneratorIsLast, Before, LeaseMsg
<1>5. \A e \in ended : e < generator'.id
  BY <1>1 DEF LeaseInv, GeneratorIsLast
<1>6. LeasesInOrder'
  <2>1. SUFFICES ASSUME NEW i \in DOMAIN leases', NEW j \in DOMAIN leases', i < j
                 PROVE  Before(leases'[i], leases'[j].id)
    BY DEF LeasesInOrder, Before
  <2>2. i + k \in DOMAIN leases /\ leases'[i] = leases[i + k]
    BY <1>1, <1>3, <2>1
  <2>3. CASE leases'[j] = l
    BY <1>4, <2>2, <2>3
  <2>4. CASE j + k \in DOMAIN leases /\ leases'[j] = leases[j + k]
    BY <1>1, <2>1, <2>2, <2>4 DEF LeaseInv, LeasesInOrder
  <2>5. QED
    BY <1>3, <2>3, <2>4
<1>7. GeneratorIsLast'
  <2>1. ASSUME NEW j \in DOMAIN leases'
        PROVE  /\ leases'[j].id <= generator'.id
               /\ generator'.leased => Before(leases'[j], generator'.id)
    <3>1. CASE leases'[j] = l
      BY <1>1, <3>1 DEF Before
    <3>2. CASE j + k \in DOMAIN leases /\ leases'[j] = leases[j + k]
      BY <1>4, <3>2 DEF Before
    <3>3. QED
      BY <1>3, <2>1, <3>1, <3>2
  <2>2. \A e \in ended : e <= generator'.id /\ e < generator'.id
    BY <1>1, <1>5
  <2>3. QED
    BY <2>1, <2>2 DEF GeneratorIsLast, Before
<1>8. EndsAreOver'
  <2>1. SUFFICES ASSUME NEW e \in ended, NEW j \in DOMAIN leases'
                 PROVE  e < leases'[j].id
    BY DEF EndsAreOver
  <2>2. QED
    BY <1>3, <1>5 DEF LeaseInv, EndsAreOver
<1>9. EndedStaysEnded'
  BY DEF LeaseInv, EndedStaysEnded
<1>10. QED
  BY <1>6, <1>7, <1>8, <1>9 DEF LeaseInv

\* The oldest message is taken: it is held, or its id is younger than every end
\* and older than what is left.
LEMMA LeaseTaken ==
  ASSUME Typed, LeaseInv, leases # <<>>, leases' = Tail(leases), UNCHANGED generator,
         \/ ended' = ended /\ lease'.id = Head(leases).id
         \/ /\ ~Head(leases).active /\ ended' = ended \cup {Head(leases).id}
            /\ lease' = None
  PROVE  LeaseInv'
<1>1. leases \in Seq(LeaseMsg) /\ generator.id \in Nat /\ ended \subseteq Nat
  BY DEF Typed, TypeOK, Generator
<1>2. PICK l \in LeaseMsg : l = Head(leases) /\ l = leases[1] /\ 1 \in DOMAIN leases
  BY <1>1, TakeElements
<1>3. \A j \in DOMAIN leases' :
        leases'[j] = leases[j + 1] /\ j + 1 \in DOMAIN leases /\ j \in Nat \ {0}
  BY <1>1, TakeElements
<1>4. \A e \in ended : e < l.id
  BY <1>2 DEF LeaseInv, EndsAreOver
<1>5. \A j \in DOMAIN leases' : Before(l, leases'[j].id)
  BY <1>2, <1>3 DEF LeaseInv, LeasesInOrder
<1>6. l.id \in Nat /\ \A e \in ended' : e \in ended \/ (e = l.id /\ ~l.active)
  BY <1>2 DEF LeaseMsg
<1>7. LeasesInOrder'
  BY <1>3 DEF LeaseInv, LeasesInOrder, Before
<1>8. GeneratorIsLast'
  <2>1. \A e \in ended' : e <= generator.id /\ (generator.leased => e < generator.id)
    BY <1>2, <1>6 DEF LeaseInv, GeneratorIsLast, Before
  <2>2. QED
    BY <1>3, <2>1 DEF LeaseInv, GeneratorIsLast, Before
<1>9. EndsAreOver'
  <2>1. SUFFICES ASSUME NEW e \in ended', NEW j \in DOMAIN leases'
                 PROVE  e < leases'[j].id
    BY DEF EndsAreOver
  <2>2. CASE e \in ended
    BY <1>3, <2>2 DEF LeaseInv, EndsAreOver
  <2>3. CASE e = l.id /\ ~l.active
    BY <1>5, <2>3 DEF Before
  <2>4. QED
    BY <1>6, <2>2, <2>3
<1>10. EndedStaysEnded'
  <2>1. l.id \notin ended
    BY <1>4, <1>6
  <2>2. QED
    BY <1>2, <2>1 DEF EndedStaysEnded
<1>11. QED
  BY <1>7, <1>8, <1>9, <1>10 DEF LeaseInv

LEMMA LeaseInvStep == Typed /\ Typed' /\ LeaseInv /\ [Next]_vars => LeaseInv'
<1> SUFFICES ASSUME Typed, Typed', LeaseInv, [Next]_vars PROVE LeaseInv'
  OBVIOUS
<1> USE TrackerAssumption
<1>0. generator \in Generator
  BY DEF Typed, TypeOK
<1>1. ASSUME UNCHANGED <<leases, lease, ended>>,
             generator'.id = generator.id, generator'.leased = generator.leased
      PROVE  LeaseInv'
  BY <1>1 DEF LeaseInv, LeasesInOrder, GeneratorIsLast, EndsAreOver, EndedStaysEnded, Before
<1>2. ASSUME NEW r \in Requests, Activate(r) PROVE LeaseInv'
  BY <1>0, <1>1, <1>2 DEF Activate, Generator, history
<1>3. ASSUME NEW final \in BOOLEAN, NEW valid \in BOOLEAN, PublishSegment(final, valid)
      PROVE LeaseInv'
  <2>1. PICK id : id = IF generator.leased THEN generator.id ELSE generator.id + 1
    OBVIOUS
  <2>2. /\ generator' = [generator EXCEPT !.published = @ + 1, !.final = final,
                                          !.leased = TRUE, !.id = id]
        /\ leases' = IF generator.published = 0
                     THEN Put(leases, [id |-> id, request |-> generator.request,
                                       active |-> TRUE])
                     ELSE leases
        /\ generator.request \in Requests /\ UNCHANGED <<lease, ended>>
    BY <1>0, <1>3, <2>1 DEF PublishSegment, Generator, Maybe, history
  <2>3. generator'.id = id /\ generator'.leased = TRUE
    BY <1>0, <2>2 DEF Generator
  <2>4. CASE generator.published = 0
    <3>1. PICK l : l = [id |-> id, request |-> generator.request, active |-> TRUE]
      OBVIOUS
    <3>2. l \in LeaseMsg /\ l.id = id /\ l.active = TRUE
      BY <1>0, <2>1, <2>2, <3>1 DEF LeaseMsg, Generator
    <3>3. leases' = Put(leases, l)
      BY <2>2, <2>4, <3>1
    <3>4. QED
      BY <2>1, <2>2, <2>3, <3>2, <3>3, LeaseSent
  <2>5. CASE generator.published # 0
    <3>1. CASE generator.leased
      BY <1>1, <2>1, <2>2, <2>3, <2>5, <3>1
    <3>2. CASE ~generator.leased
      <4>1. \A i \in DOMAIN leases : leases[i].id \in Nat
        <5>1. leases \in Seq(LeaseMsg)
          BY DEF Typed, TypeOK
        <5>2. \A i \in DOMAIN leases : leases[i] \in LeaseMsg
          BY <5>1
        <5>3. QED
          BY <5>2 DEF LeaseMsg
      <4>2. id = generator.id + 1 /\ generator.id \in Nat /\ ended \subseteq Nat
        BY <1>0, <2>1, <3>2 DEF Generator, Typed, TypeOK
      <4>3. leases' = leases
        BY <2>2, <2>5
      <4>4. GeneratorIsLast'
        BY <2>2, <2>3, <4>1, <4>2, <4>3 DEF LeaseInv, GeneratorIsLast, Before
      <4>5. QED
        BY <2>2, <4>3, <4>4 DEF LeaseInv, LeasesInOrder, EndsAreOver, EndedStaysEnded, Before
    <3>3. QED
      BY <3>1, <3>2
  <2>6. QED
    BY <2>4, <2>5
<1>4. CASE Renew
  <2>1. PICK l : l = [id |-> generator.id, request |-> generator.request, active |-> TRUE]
    OBVIOUS
  <2>2. l \in LeaseMsg /\ l.id = generator.id /\ l.active = TRUE
    BY <1>0, <1>4, <2>1 DEF LeaseMsg, Generator, Renew, Maybe
  <2>3. leases' = Put(leases, l) /\ UNCHANGED <<lease, ended, generator>> /\ generator.leased
    BY <1>4, <2>1 DEF Renew, external, history
  <2>4. QED
    BY <2>2, <2>3, LeaseSent
<1>5. CASE Finish
  <2>1. /\ generator'.id = generator.id /\ generator'.leased = FALSE
        /\ UNCHANGED <<lease, ended>> /\ generator.request \in Requests
    BY <1>0, <1>5 DEF Finish, Generator, Maybe, history
  <2>2. CASE generator.leased
    <3>1. PICK l : l = [id |-> generator.id, request |-> generator.request, active |-> FALSE]
      OBVIOUS
    <3>2. l \in LeaseMsg /\ l.id = generator.id /\ l.active = FALSE
      BY <1>0, <2>1, <3>1 DEF LeaseMsg, Generator
    <3>3. leases' = Put(leases, l)
      BY <1>5, <2>2, <3>1 DEF Finish
    <3>4. QED
      BY <2>1, <2>2, <3>2, <3>3, LeaseSent
  <2>3. CASE ~generator.leased
    <3>1. leases' = leases
      BY <1>5, <2>3 DEF Finish
    <3>2. QED
      BY <2>1, <2>3, <3>1
      DEF LeaseInv, LeasesInOrder, GeneratorIsLast, EndsAreOver, EndedStaysEnded, Before
  <2>4. QED
    BY <2>2, <2>3
<1>6. CASE HoldLease
  <2>1. lease'.id = Head(leases).id
    BY <1>6 DEF HoldLease
  <2>2. QED
    BY <1>6, <2>1, LeaseTaken DEF HoldLease, external, history
<1>7. CASE LeaseEnds
  BY <1>7, LeaseTaken DEF LeaseEnds, EndLease, external
<1>8. CASE Restart
  <2>1. leases' = <<>> /\ lease' = None /\ UNCHANGED <<ended, generator>>
    BY <1>8 DEF Restart, external
  <2>2. QED
    BY <2>1
    DEF LeaseInv, LeasesInOrder, GeneratorIsLast, EndsAreOver, EndedStaysEnded, Before
<1>9. QED
  BY <1>1, <1>2, <1>3, <1>4, <1>5, <1>6, <1>7, <1>8
  DEF Next, Reference, Lowstate, Odometry, SensorStale, TickIdle, TickFollow, vars,
      external, history

(* However the renewals, the replacements and the ends of the generator's   *)
(* lease overtake each other in a queue that loses its oldest, the tracker  *)
(* holds no lease again whose end it has handled.                           *)
THEOREM TrackerEndedStaysEnded == Spec => []EndedStaysEnded
<1>1. Init => Filled /\ LeaseInv
  BY DEF Init, Filled, Empty, LeaseInv, LeasesInOrder, GeneratorIsLast, EndsAreOver,
         EndedStaysEnded
<1>2. LeaseInv => EndedStaysEnded
  BY DEF LeaseInv
<1>3. QED
  BY <1>1, <1>2, TrackerTypedInit, TrackerTypedStep, TrackerFilledStep, LeaseInvStep, PTL
  DEF Spec
=============================================================================
