----------------------------- MODULE AsrPipeline -----------------------------
(***************************************************************************)
(* The speech recognition node (asr_node/node.py, audio_capture.py, vad.py,*)
(* buffer.py, asr_engine.py): three threads joined by two bounded queues,  *)
(*   capture --pcm--> process (VAD, SpeechBuffer) --segments--> worker,    *)
(* and the main thread, which stops them in that order.  Audio is chunks   *)
(* of one length, numbered as the microphone sends them; what the voice    *)
(* detector and the recogniser answer is open.  A put on a full queue      *)
(* times out and drops, a join times out and goes on; no time is counted,  *)
(* so each may happen whenever the wait is still on.                       *)
(***************************************************************************)
EXTENDS Integers, Sequences, Functions, FiniteSets

CONSTANTS
    MaxChunks,     \* bound: chunks the microphone sends
    MinSpeech, MaxSilence, MaxSpeech, Padding, \* SpeechBuffer's limits, in chunks
    PcmSize,       \* PCM_QUEUE_SIZE
    SegmentSize,   \* SEGMENT_QUEUE_SIZE
    Stop,          \* _STOP_SENTINEL
    None           \* a thread that holds nothing

ASSUME LimitsAssumption ==
    /\ MaxChunks \in Nat /\ MinSpeech \in Nat /\ Padding \in Nat
    /\ MaxSilence \in Nat \ {0} /\ MaxSpeech \in Nat \ {0}
    /\ PcmSize \in Nat \ {0} /\ SegmentSize \in Nat \ {0}
ASSUME MarksAssumption ==
    /\ Stop # None /\ Stop \notin Nat /\ None \notin Nat
    /\ Stop \notin Seq(Nat) /\ None \notin Seq(Nat)

Chunks == 1 .. MaxChunks

VARIABLES
    sent,       \* how many chunks the microphone sent
    capture,    \* the capture thread: running flag, the chunk it puts, ended
    pcm,        \* _pcm_queue
    buffer,     \* SpeechBuffer
    process,    \* the process thread: what it has to put, ended
    segments,   \* _segment_queue
    worker,     \* the worker thread: the segment it has, ended
    main,       \* where the main thread is in stop()
    overdue,    \* history: a wait of stop() ended by its timeout
    judged,     \* history: the chunks the detector has heard, and its answers
    warned,     \* history: chunks whose loss was logged
    published   \* history: the segments whose text was published

vars == <<sent, capture, pcm, buffer, process, segments, worker, main,
          overdue, judged, warned, published>>

Silent == [speech |-> <<>>, silence |-> <<>>, recording |-> FALSE]

Init ==
    /\ sent = 0
    /\ capture = [running |-> TRUE, holds |-> None, ended |-> FALSE]
    /\ pcm = <<>>
    /\ buffer = Silent
    /\ process = [out |-> <<>>, closing |-> FALSE, ended |-> FALSE]
    /\ segments = <<>>
    /\ worker = [holds |-> None, ended |-> FALSE]
    /\ main = "spin"
    /\ overdue = FALSE
    /\ judged = <<>>
    /\ warned = {}
    /\ published = <<>>

(* What is put into the segment queue.                                     *)
Item == Seq(Chunks) \cup {Stop}

TypeOK ==
    /\ sent \in 0 .. MaxChunks
    /\ capture \in [running : BOOLEAN, holds : Chunks \cup {None}, ended : BOOLEAN]
    /\ pcm \in Seq(Chunks \cup {Stop}) /\ Len(pcm) <= PcmSize
    /\ buffer \in [speech : Seq(Chunks), silence : Seq(Chunks), recording : BOOLEAN]
    /\ Len(buffer.speech) < MaxSpeech /\ Len(buffer.silence) < MaxSilence
    /\ process \in [out : Seq(Item), closing : BOOLEAN, ended : BOOLEAN]
    /\ Len(process.out) <= 2
    /\ segments \in Seq(Item) /\ Len(segments) <= SegmentSize
    /\ worker \in [holds : Seq(Chunks) \cup {None}, ended : BOOLEAN]
    /\ main \in {"spin", "joinCapture", "sentinel", "joinProcess", "joinWorker", "gone"}
    /\ overdue \in BOOLEAN
    /\ judged \in Seq([chunk : Chunks, speech : BOOLEAN])
    /\ warned \subseteq Chunks
    /\ published \in Seq(Seq(Chunks))

-----------------------------------------------------------------------------
(* The capture thread: _recv_loop, whose callback is _enqueue_pcm.         *)

MayCapture == ~capture.ended /\ capture.holds = None

Receive ==
    /\ MayCapture /\ capture.running
    /\ sent < MaxChunks
    /\ sent' = sent + 1
    /\ capture' = [capture EXCEPT !.holds = sent + 1]
    /\ UNCHANGED <<pcm, buffer, process, segments, worker, main, overdue,
                   judged, warned, published>>

EnqueuePcm ==
    /\ capture.holds # None
    /\ \/ /\ Len(pcm) < PcmSize
          /\ pcm' = Append(pcm, capture.holds)
          /\ UNCHANGED warned
       \/ /\ Len(pcm) = PcmSize           \* queue.Full after 0.2 s
          /\ warned' = warned \cup {capture.holds}
          /\ UNCHANGED pcm
    /\ capture' = [capture EXCEPT !.holds = None]
    /\ UNCHANGED <<sent, buffer, process, segments, worker, main, overdue,
                   judged, published>>

\* The flag is read between two datagrams, or after recvfrom's two seconds.
CaptureEnds ==
    /\ MayCapture /\ ~capture.running
    /\ capture' = [capture EXCEPT !.ended = TRUE]
    /\ UNCHANGED <<sent, pcm, buffer, process, segments, worker, main, overdue,
                   judged, warned, published>>

\* An OSError of the socket ends the thread; nothing starts it again.
CaptureFails ==
    /\ MayCapture /\ capture.running
    /\ capture' = [capture EXCEPT !.ended = TRUE]
    /\ UNCHANGED <<sent, pcm, buffer, process, segments, worker, main, overdue,
                   judged, warned, published>>

-----------------------------------------------------------------------------
(* SpeechBuffer: what a chunk leaves in it, and the segment it completes.  *)

\* mutant: pauses add up, the silence buffer is not cleared by speech
AddSpeechPausesAddUp(chunk) ==
    LET speech == Append(buffer.speech, chunk)
    IN  IF Len(speech) >= MaxSpeech
        THEN [left |-> Silent, done |-> <<speech>>]
        ELSE [left |-> [buffer EXCEPT !.speech = speech, !.recording = TRUE],
              done |-> <<>>]

AddSpeech(chunk) ==
    LET speech == Append(buffer.speech, chunk)
    IN  IF Len(speech) >= MaxSpeech
        THEN [left |-> Silent, done |-> <<speech>>]
        ELSE [left |-> [speech |-> speech, silence |-> <<>>, recording |-> TRUE],
              done |-> <<>>]

\* mutant: the minimum is compared with <=
AddSilenceDropsMinimum(chunk) ==
    LET silence == Append(buffer.silence, chunk)
    IN  IF ~buffer.recording \/ Len(silence) < MaxSilence
        THEN [left |-> IF buffer.recording THEN [buffer EXCEPT !.silence = silence] ELSE buffer,
              done |-> <<>>]
        ELSE [left |-> Silent,
              done |-> IF Len(buffer.speech) <= MinSpeech THEN <<>> ELSE <<buffer.speech>>]

\* mutant: a pause ends the utterance one chunk late
AddSilenceLate(chunk) ==
    LET silence == Append(buffer.silence, chunk)
    IN  IF ~buffer.recording \/ Len(silence) <= MaxSilence
        THEN [left |-> IF buffer.recording THEN [buffer EXCEPT !.silence = silence] ELSE buffer,
              done |-> <<>>]
        ELSE [left |-> Silent,
              done |-> IF Len(buffer.speech) < MinSpeech THEN <<>> ELSE <<buffer.speech>>]

AddSilence(chunk) ==
    LET silence == Append(buffer.silence, chunk)
        keep == IF Padding < Len(silence) THEN Padding ELSE Len(silence)
        kept == SubSeq(silence, Len(silence) - keep + 1, Len(silence))
    IN  CASE ~buffer.recording -> [left |-> buffer, done |-> <<>>]
          [] buffer.recording /\ Len(silence) < MaxSilence ->
                [left |-> [buffer EXCEPT !.silence = silence], done |-> <<>>]
          [] buffer.recording /\ Len(silence) >= MaxSilence ->
                [left |-> Silent,
                 done |-> IF Len(buffer.speech) < MinSpeech
                          THEN <<>> ELSE <<buffer.speech \o kept>>]

ForceComplete ==
    IF buffer.recording /\ buffer.speech # <<>>
    THEN [left |-> Silent, done |-> <<buffer.speech>>]
    ELSE [left |-> buffer, done |-> <<>>]

-----------------------------------------------------------------------------
(* The process thread: _process_loop.                                      *)

MayProcess == ~process.ended /\ process.out = <<>> /\ pcm # <<>>

\* detect() that raises counts as silence.
Hear ==
    /\ MayProcess /\ Head(pcm) # Stop
    /\ \E speech \in BOOLEAN :
        LET after == IF speech THEN AddSpeech(Head(pcm)) ELSE AddSilence(Head(pcm))
        IN  /\ buffer' = after.left
            /\ process' = [process EXCEPT !.out = after.done]
            /\ judged' = Append(judged, [chunk |-> Head(pcm), speech |-> speech])
    /\ pcm' = Tail(pcm)
    /\ UNCHANGED <<sent, capture, segments, worker, main, overdue, warned, published>>

Close ==
    /\ MayProcess /\ Head(pcm) = Stop
    /\ buffer' = ForceComplete.left
    /\ process' = [process EXCEPT !.out = ForceComplete.done \o <<Stop>>,
                                  !.closing = TRUE]
    /\ pcm' = Tail(pcm)
    /\ UNCHANGED <<sent, capture, segments, worker, main, overdue, judged,
                   warned, published>>

\* Each put is given up after two seconds of a full queue; the thread ends
\* with the put of the sentinel, done or not.
PutSegment ==
    /\ process.out # <<>>
    /\ LET item == Head(process.out)
       IN  \/ /\ Len(segments) < SegmentSize
              /\ segments' = Append(segments, item)
              /\ UNCHANGED <<warned, overdue>>
           \/ /\ Len(segments) = SegmentSize
              /\ warned' = IF item = Stop THEN warned ELSE warned \cup Range(item)
              /\ overdue' = (overdue \/ item = Stop)
              /\ UNCHANGED segments
    /\ process' = [process EXCEPT !.out = Tail(@),
                                  !.ended = process.closing /\ Len(process.out) = 1]
    /\ UNCHANGED <<sent, capture, pcm, buffer, worker, main, judged, published>>

-----------------------------------------------------------------------------
(* The worker thread: _worker_loop and _transcribe_and_publish.            *)

MayTake == ~worker.ended /\ worker.holds = None /\ segments # <<>>

TakeSegment ==
    /\ MayTake
    /\ worker' = IF Head(segments) = Stop
                 THEN [worker EXCEPT !.ended = TRUE]
                 ELSE [worker EXCEPT !.holds = Head(segments)]
    /\ segments' = Tail(segments)
    /\ UNCHANGED <<sent, capture, pcm, buffer, process, main, overdue, judged,
                   warned, published>>

\* transcribe() raised, or heard no text.
NoText ==
    /\ worker.holds # None
    /\ warned' = warned \cup Range(worker.holds)
    /\ worker' = [worker EXCEPT !.holds = None]
    /\ UNCHANGED <<sent, capture, pcm, buffer, process, segments, main, overdue,
                   judged, published>>

\* sequence_id is the number of the event, its place in published.
Publish ==
    /\ worker.holds # None /\ main # "gone"
    /\ published' = Append(published, worker.holds)
    /\ worker' = [worker EXCEPT !.holds = None]
    /\ UNCHANGED <<sent, capture, pcm, buffer, process, segments, main, overdue,
                   judged, warned>>

\* publish() on the destroyed node raises, which ends the thread.
PublishTooLate ==
    /\ worker.holds # None /\ main = "gone"
    /\ worker' = [worker EXCEPT !.holds = None, !.ended = TRUE]
    /\ warned' = warned \cup Range(worker.holds)
    /\ UNCHANGED <<sent, capture, pcm, buffer, process, segments, main, overdue,
                   judged, published>>

-----------------------------------------------------------------------------
(* The main thread: spin ends, then stop() and destroy_node().             *)

Interrupt ==
    /\ main = "spin"
    /\ main' = "joinCapture"
    /\ capture' = [capture EXCEPT !.running = FALSE]
    /\ UNCHANGED <<sent, pcm, buffer, process, segments, worker, overdue,
                   judged, warned, published>>

\* mutant: the sentinel is put without waiting for the capture thread
JoinCaptureSkipped ==
    /\ main = "joinCapture"
    /\ main' = "sentinel"
    /\ UNCHANGED <<sent, capture, pcm, buffer, process, segments, worker,
                   overdue, judged, warned, published>>

\* Five seconds are more than recvfrom (2 s) and the put (0.2 s) can take.
JoinCapture ==
    /\ main = "joinCapture" /\ capture.ended
    /\ main' = "sentinel"
    /\ UNCHANGED <<sent, capture, pcm, buffer, process, segments, worker,
                   overdue, judged, warned, published>>

PutSentinel ==
    /\ main = "sentinel"
    /\ \/ Len(pcm) < PcmSize /\ pcm' = Append(pcm, Stop) /\ UNCHANGED overdue
       \/ Len(pcm) = PcmSize /\ overdue' = TRUE /\ UNCHANGED pcm
    /\ main' = "joinProcess"
    /\ UNCHANGED <<sent, capture, buffer, process, segments, worker, judged,
                   warned, published>>

\* A join returns when the thread has ended or its timeout is over.
Joined(ended) == overdue' = (overdue \/ ~ended)

JoinProcess ==
    /\ main = "joinProcess"
    /\ Joined(process.ended)
    /\ main' = "joinWorker"
    /\ UNCHANGED <<sent, capture, pcm, buffer, process, segments, worker,
                   judged, warned, published>>

\* mutant: the worker is not joined
JoinWorkerSkipped ==
    /\ main = "joinWorker"
    /\ main' = "gone"
    /\ UNCHANGED <<sent, capture, pcm, buffer, process, segments, worker,
                   overdue, judged, warned, published>>

\* mutant: the worker is joined without a timeout
JoinWorkerForever ==
    /\ main = "joinWorker" /\ worker.ended
    /\ main' = "gone"
    /\ UNCHANGED <<sent, capture, pcm, buffer, process, segments, worker,
                   overdue, judged, warned, published>>

JoinWorker ==
    /\ main = "joinWorker"
    /\ Joined(worker.ended)
    /\ main' = "gone"
    /\ UNCHANGED <<sent, capture, pcm, buffer, process, segments, worker,
                   judged, warned, published>>

-----------------------------------------------------------------------------
Capture == Receive \/ EnqueuePcm \/ CaptureEnds \/ CaptureFails
Process == Hear \/ Close \/ PutSegment
Worker == TakeSegment \/ NoText \/ Publish \/ PublishTooLate
Main == Interrupt \/ JoinCapture \/ PutSentinel \/ JoinProcess \/ JoinWorker

Next == Capture \/ Process \/ Worker \/ Main

Spec == Init /\ [][Next]_vars

\* Waits have a timeout, so a thread that was told to stop goes on, and so
\* does stop(); the recogniser need not come back, and nobody need interrupt.
Fairness ==
    /\ WF_vars(EnqueuePcm) /\ WF_vars(CaptureEnds)
    /\ WF_vars(JoinCapture \/ PutSentinel \/ JoinProcess \/ JoinWorker)

FairSpec == Spec /\ Fairness

-----------------------------------------------------------------------------
(* Properties.                                                             *)

AudioIn(queue) ==
    UNION {Range(queue[k]) : k \in {n \in DOMAIN queue : queue[n] # Stop}}

\* The chunks at each place of the node, the place they reach last first: what
\* was published, what the worker has, what is queued for it, what the process
\* thread has to put, its two buffers, what it has not heard, what is captured.
Stage ==
    <<AudioIn(published),
      IF worker.holds = None THEN {} ELSE Range(worker.holds),
      AudioIn(segments),
      AudioIn(process.out),
      Range(buffer.speech),
      Range(buffer.silence),
      Range(pcm) \ {Stop},
      {capture.holds} \ {None}>>

Older(chunks, others) == \A a \in chunks, b \in others : a < b

InOrder(segment) == \A i, j \in DOMAIN segment : i < j => segment[i] < segment[j]

QueueInOrder(queue) ==
    \A i, j \in DOMAIN queue :
        queue[i] # Stop /\ queue[j] # Stop =>
            /\ InOrder(queue[i])
            /\ i < j => Older(Range(queue[i]), Range(queue[j]))

\* Audio is used once and in the order it was recorded, across both queues,
\* the buffers and the threads that hand it on: what is further on its way is
\* older, and so it is at each place.
UsedOnceInOrder ==
    /\ \A s, t \in DOMAIN Stage : s < t => Older(Stage[s], Stage[t])
    /\ QueueInOrder(published) /\ QueueInOrder(segments) /\ QueueInOrder(process.out)
    /\ worker.holds # None => InOrder(worker.holds)
    /\ InOrder(buffer.speech) /\ InOrder(buffer.silence)
    /\ \A i, j \in DOMAIN pcm :
          i < j /\ pcm[i] # Stop /\ pcm[j] # Stop => pcm[i] < pcm[j]

SpeechAt == {i \in DOMAIN judged : judged[i].speech}

\* Two heard chunks with no pause of MaxSilence chunks between them.
Linked(i, j) ==
    \A first \in i + 1 .. j - MaxSilence :
        \E k \in first .. first + MaxSilence - 1 : k \in SpeechAt

\* The utterance that a heard chunk belongs to.
Utterance(i) ==
    {j \in SpeechAt : IF i <= j THEN Linked(i, j) ELSE Linked(j, i)}

\* What was heard of these chunks belongs to one utterance.
SaidTogether(chunks) ==
    \A i, j \in SpeechAt :
        judged[i].chunk \in chunks /\ judged[j].chunk \in chunks => j \in Utterance(i)

Silently(i) ==
    judged[i].chunk \notin (UNION Range(Stage)) \cup warned

\* No speech disappears without a log line but what is too short: of an
\* utterance between the minimum and the maximum length nothing is dropped,
\* of any other (too short, or so long that it was cut) less than the minimum.
DroppedIsShort ==
    \A i \in SpeechAt :
        LET dropped == {j \in Utterance(i) : Silently(j)}
            length == Cardinality(Utterance(i))
        IN  dropped # {} =>
                /\ Cardinality(dropped) < MinSpeech
                /\ length < MinSpeech \/ length > MaxSpeech

\* What is transcribed together was said together: a published text never
\* joins two utterances, however they were queued.
OneUtterancePerText == \A n \in DOMAIN published : SaidTogether(Range(published[n]))

\* stop()'s order, "capture -> process -> worker": when the worker has read the
\* sentinel, nothing that was recorded is left behind in a queue or a buffer.
WorkerEndsLast ==
    worker.ended /\ main # "gone" =>
        /\ capture.ended /\ process.ended
        /\ pcm = <<>> /\ segments = <<>> /\ buffer = Silent

\* A stop in which no wait timed out is complete: the threads have ended before
\* the node goes, so that every result has been published or reported.
CleanStop ==
    main = "gone" /\ ~overdue => worker.ended /\ \A s \in 2 .. Len(Stage) : Stage[s] = {}

\* An interrupted node stops, although the queues may be full and the recogniser
\* may never return.
StopReturns == main = "joinCapture" ~> main = "gone"
=============================================================================
