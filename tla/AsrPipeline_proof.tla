------------------------- MODULE AsrPipeline_proof -------------------------
(***************************************************************************)
(* The safety properties of the speech recognition node, for any limits,   *)
(* any sizes of the queues and any number of chunks: audio is used once    *)
(* and in its order, a text is of one utterance, what is lost without a    *)
(* log line is too short, and stop() stops the threads in the order that   *)
(* leaves nothing behind.                                                  *)
(***************************************************************************)
EXTENDS AsrPipeline, SequenceTheorems, FiniteSetTheorems, TLAPS

----------------------------------------------------------------------------
(* The inductive invariant.                                                 *)

\* SpeechBuffer records from the first speech to the end of the utterance.
Recording ==
  /\ ~buffer.recording => buffer = Silent
  /\ buffer.recording => buffer.speech # <<>>

AfterSentinel == {"joinProcess", "joinWorker", "gone"}

\* The sentinel is the last of both queues, put when who fills them has ended.
SentinelLast ==
  /\ \A k \in DOMAIN pcm : pcm[k] = Stop =>
       k = Len(pcm) /\ ~process.closing /\ main \in AfterSentinel
  /\ \A k \in DOMAIN process.out : process.out[k] = Stop =>
       k = Len(process.out) /\ process.closing
  /\ \A k \in DOMAIN segments : segments[k] = Stop =>
       k = Len(segments) /\ process.ended

\* Each thread ends after the one before it, and with nothing in hand.
EndsInTurn ==
  /\ capture.ended => capture.holds = None
  /\ main \in {"sentinel"} \cup AfterSentinel => capture.ended
  /\ process.closing => pcm = <<>> /\ buffer = Silent /\ main \in AfterSentinel
  /\ process.closing /\ process.out # <<>> => process.out[Len(process.out)] = Stop
  /\ process.ended <=> process.closing /\ process.out = <<>>
  /\ worker.ended => worker.holds = None
  /\ worker.ended /\ main # "gone" => process.ended /\ segments = <<>>
  /\ main = "gone" /\ ~overdue => worker.ended /\ process.ended /\ segments = <<>>

StopInv == TypeOK /\ Recording /\ SentinelLast /\ EndsInTurn

\* UsedOnceInOrder, from one place to the next and at each place.
StagesInOrder == \A s, t \in 1 .. 8 : s < t => Older(Stage[s], Stage[t])

InPlaces ==
  /\ QueueInOrder(published) /\ QueueInOrder(segments) /\ QueueInOrder(process.out)
  /\ worker.holds # None => InOrder(worker.holds)
  /\ InOrder(buffer.speech) /\ InOrder(buffer.silence)
  /\ \A i, j \in DOMAIN pcm : i < j /\ pcm[i] # Stop /\ pcm[j] # Stop => pcm[i] < pcm[j]

\* No place has a chunk that was not sent, and what was heard has left the queue.
SentInOrder ==
  /\ \A s \in 1 .. 8 : \A c \in Stage[s] : c <= sent
  /\ \A i \in DOMAIN judged :
       /\ judged[i].chunk <= sent
       /\ \A c \in Stage[7] \cup Stage[8] : judged[i].chunk < c

OrderInv == StagesInOrder /\ InPlaces /\ SentInOrder

\* Linked and SaidTogether, of any chunks heard as speech.
Near(heard, i, j) ==
  \A first \in i + 1 .. j - MaxSilence :
    \E k \in first .. first + MaxSilence - 1 : k \in heard

Together(heard, answers, chunks) ==
  \A i, j \in heard :
    i <= j /\ answers[i].chunk \in chunks /\ answers[j].chunk \in chunks => Near(heard, i, j)

EachTogether(heard, answers, queue) ==
  \A k \in DOMAIN queue : queue[k] # Stop => Together(heard, answers, Range(queue[k]))

\* The last speech that was heard, when the buffer records.
LastSpeech == Len(judged) - Len(buffer.silence)

\* The buffer's utterance goes on to the last speech, and its silence is none.
OneInBuffer ==
  /\ Together(SpeechAt, judged, Range(buffer.speech))
  /\ buffer.recording => LastSpeech \in SpeechAt
  /\ \A i \in SpeechAt :
       /\ judged[i].chunk \notin Range(buffer.silence)
       /\ judged[i].chunk \in Range(buffer.speech) =>
            i <= LastSpeech /\ Near(SpeechAt, i, LastSpeech)

\* The texts under way are of one utterance each.
UtteranceInv ==
  /\ EachTogether(SpeechAt, judged, published)
  /\ EachTogether(SpeechAt, judged, segments)
  /\ EachTogether(SpeechAt, judged, process.out)
  /\ worker.holds # None => Together(SpeechAt, judged, Range(worker.holds))
  /\ OneInBuffer

----------------------------------------------------------------------------
(* The queues, and what the process thread makes of a chunk.                *)

LEMMA Taken ==
  ASSUME NEW S, NEW q \in Seq(S), q # <<>>
  PROVE  /\ Head(q) \in S /\ Head(q) = q[1] /\ 1 \in DOMAIN q
         /\ Tail(q) \in Seq(S) /\ Len(Tail(q)) = Len(q) - 1
         /\ \A j \in DOMAIN Tail(q) : Tail(q)[j] = q[j + 1] /\ j + 1 \in DOMAIN q
BY HeadTailProperties

LEMMA Added ==
  ASSUME NEW S, NEW q \in Seq(S), NEW e \in S
  PROVE  /\ Append(q, e) \in Seq(S) /\ Len(Append(q, e)) = Len(q) + 1
         /\ Append(q, e)[Len(q) + 1] = e
         /\ \A j \in DOMAIN Append(q, e) :
              (j \in DOMAIN q /\ Append(q, e)[j] = q[j]) \/ (j = Len(q) + 1)
BY AppendProperties

SpeechGrows(c) ==
  /\ buffer' = [speech |-> Append(buffer.speech, c), silence |-> <<>>, recording |-> TRUE]
  /\ Len(buffer.speech) + 1 < MaxSpeech
  /\ process'.out = <<>>

SpeechFull(c) ==
  /\ Len(buffer.speech) + 1 >= MaxSpeech
  /\ buffer' = Silent /\ process'.out = <<Append(buffer.speech, c)>>

NotRecording == ~buffer.recording /\ buffer' = buffer /\ process'.out = <<>>

SilenceGrows(c) ==
  /\ buffer.recording
  /\ buffer' = [buffer EXCEPT !.silence = Append(buffer.silence, c)]
  /\ Len(buffer.silence) + 1 < MaxSilence
  /\ process'.out = <<>>

PauseOver == buffer.recording /\ Len(buffer.silence) + 1 >= MaxSilence

TooShort ==
  /\ PauseOver /\ Len(buffer.speech) < MinSpeech
  /\ buffer' = Silent /\ process'.out = <<>>

\* The end of the silence is kept, from the chunk after the n-th on.
Pause(c) ==
  /\ PauseOver /\ buffer' = Silent
  /\ \E n \in 0 .. Len(buffer.silence) + 1 :
       process'.out = <<buffer.speech \o
                        SubSeq(Append(buffer.silence, c), n + 1, Len(buffer.silence) + 1)>>

HeardAs(c, speech) ==
  IF speech THEN SpeechGrows(c) \/ SpeechFull(c)
  ELSE NotRecording \/ SilenceGrows(c) \/ TooShort \/ Pause(c)

\* The ways of add_speech and add_silence, told apart.
LEMMA HearOutcome ==
  ASSUME TypeOK, Hear
  PROVE  \E c \in Chunks, speech \in BOOLEAN :
           /\ pcm # <<>> /\ c = Head(pcm) /\ pcm' = Tail(pcm)
           /\ judged' = Append(judged, [chunk |-> c, speech |-> speech])
           /\ HeardAs(c, speech)
<1> DEFINE c == Head(pcm)
<1>1. pcm # <<>> /\ c \in Chunks
  <2>1. pcm \in Seq(Chunks \cup {Stop}) /\ pcm # <<>> /\ c # Stop
    BY DEF TypeOK, Hear, MayProcess
  <2>2. c \in Chunks \cup {Stop}
    BY <2>1, Taken
  <2>3. QED
    BY <2>1, <2>2
<1> HIDE DEF c
<1>2. PICK speech \in BOOLEAN :
        LET after == IF speech THEN AddSpeech(c) ELSE AddSilence(c)
        IN  /\ buffer' = after.left
            /\ process' = [process EXCEPT !.out = after.done]
            /\ judged' = Append(judged, [chunk |-> c, speech |-> speech])
  BY DEF Hear, c
<1>3. /\ buffer.speech \in Seq(Chunks) /\ buffer.silence \in Seq(Chunks)
      /\ Len(buffer.speech) \in Nat /\ Len(buffer.silence) \in Nat
      /\ Len(Append(buffer.speech, c)) = Len(buffer.speech) + 1
      /\ Len(Append(buffer.silence, c)) = Len(buffer.silence) + 1
  BY <1>1, Added DEF TypeOK
<1>4. \A d : process' = [process EXCEPT !.out = d] => process'.out = d
  BY DEF TypeOK
<1>5. CASE speech
  <2>1. /\ buffer' = AddSpeech(c).left /\ process'.out = AddSpeech(c).done
    BY <1>2, <1>4, <1>5
  <2>2. SpeechFull(c) \/ SpeechGrows(c)
    <3>1. ASSUME Len(Append(buffer.speech, c)) >= MaxSpeech PROVE SpeechFull(c)
      BY <1>3, <2>1, <3>1 DEF AddSpeech, SpeechFull
    <3>2. ASSUME ~(Len(Append(buffer.speech, c)) >= MaxSpeech) PROVE SpeechGrows(c)
      <4>1. Len(buffer.speech) + 1 < MaxSpeech
        BY <1>3, <3>2, LimitsAssumption
      <4>2. QED
        BY <2>1, <3>2, <4>1 DEF AddSpeech, SpeechGrows
    <3>3. QED
      BY <3>1, <3>2
  <2>3. QED
    BY <1>1, <1>2, <1>5, <2>2 DEF HeardAs, c, Hear
<1>6. CASE ~speech
  <2>1. /\ buffer' = AddSilence(c).left /\ process'.out = AddSilence(c).done
    BY <1>2, <1>4, <1>6
  <2>2. PICK silence : silence = Append(buffer.silence, c)
    OBVIOUS
  <2>3. PICK keep : keep = IF Padding < Len(silence) THEN Padding ELSE Len(silence)
    OBVIOUS
  <2>4. Len(silence) \in Nat /\ Len(silence) = Len(buffer.silence) + 1
    BY <1>3, <2>2
  <2>5. Len(silence) - keep \in 0 .. Len(buffer.silence) + 1
    <3>1. Padding \in Nat
      BY LimitsAssumption
    <3>2. keep \in 0 .. Len(silence)
      BY <2>3, <2>4, <3>1
    <3>3. QED
      BY <1>3, <2>4, <3>2
  <2>6. AddSilence(c) =
          CASE ~buffer.recording -> [left |-> buffer, done |-> <<>>]
            [] buffer.recording /\ Len(silence) < MaxSilence ->
                 [left |-> [buffer EXCEPT !.silence = silence], done |-> <<>>]
            [] buffer.recording /\ Len(silence) >= MaxSilence ->
                 [left |-> Silent,
                  done |-> IF Len(buffer.speech) < MinSpeech THEN <<>>
                           ELSE <<buffer.speech \o
                                  SubSeq(silence, Len(silence) - keep + 1, Len(silence))>>]
    BY <2>2, <2>3 DEF AddSilence
  <2>7. ASSUME ~buffer.recording PROVE NotRecording
    <3>1. AddSilence(c) = [left |-> buffer, done |-> <<>>]
      BY <2>4, <2>6, <2>7, LimitsAssumption
    <3>2. QED
      BY <2>1, <2>7, <3>1 DEF NotRecording
  <2>8. ASSUME buffer.recording, Len(silence) < MaxSilence PROVE SilenceGrows(c)
    <3>1. AddSilence(c) = [left |-> [buffer EXCEPT !.silence = silence], done |-> <<>>]
      BY <2>4, <2>6, <2>8, LimitsAssumption
    <3>2. QED
      BY <2>1, <2>2, <2>4, <2>8, <3>1 DEF SilenceGrows
  <2>9. ASSUME buffer.recording, Len(silence) >= MaxSilence PROVE TooShort \/ Pause(c)
    <3>1. AddSilence(c) =
            [left |-> Silent,
             done |-> IF Len(buffer.speech) < MinSpeech THEN <<>>
                      ELSE <<buffer.speech \o
                             SubSeq(silence, Len(silence) - keep + 1, Len(silence))>>]
      BY <2>4, <2>6, <2>9, LimitsAssumption
    <3>2. PICK n \in 0 .. Len(buffer.silence) + 1 : n = Len(silence) - keep
      BY <2>5
    <3>3. PauseOver
      BY <2>4, <2>9 DEF PauseOver
    <3>4. ASSUME ~(Len(buffer.speech) < MinSpeech) PROVE Pause(c)
      <4>1. AddSilence(c) =
              [left |-> Silent,
               done |-> <<buffer.speech \o SubSeq(silence, n + 1, Len(silence))>>]
        BY <3>1, <3>2, <3>4, Zenon
      <4>2. /\ AddSilence(c).left = Silent
            /\ AddSilence(c).done = <<buffer.speech \o SubSeq(silence, n + 1, Len(silence))>>
        <5>1. \A l, d : [left |-> l, done |-> d].left = l /\ [left |-> l, done |-> d].done = d
          OBVIOUS
        <5>2. QED
          BY <4>1, <5>1, Zenon
      <4>3. process'.out = <<buffer.speech \o
                             SubSeq(Append(buffer.silence, c), n + 1, Len(buffer.silence) + 1)>>
        BY <2>1, <2>2, <2>4, <4>2, Zenon
      <4>4. QED
        BY <2>1, <3>3, <4>2, <4>3, Zenon DEF Pause
    <3>5. ASSUME Len(buffer.speech) < MinSpeech PROVE TooShort
      BY <2>1, <3>1, <3>3, <3>5 DEF TooShort
    <3>6. QED
      BY <3>4, <3>5
  <2>10. NotRecording \/ SilenceGrows(c) \/ TooShort \/ Pause(c)
    BY <2>4, <2>7, <2>8, <2>9, LimitsAssumption
  <2>11. QED
    BY <1>1, <1>2, <1>6, <2>10 DEF HeardAs, c, Hear
<1>7. QED
  BY <1>5, <1>6

LEMMA MarksAreNoText == Stop \notin Seq(Chunks) /\ None \notin Seq(Chunks)
<1>1. \A t \in Seq(Chunks) : t \in Seq(Nat)
  <2>1. Chunks \subseteq Nat
    BY LimitsAssumption DEF Chunks
  <2>2. QED
    BY <2>1, SeqMonotonic
<1>2. QED
  BY <1>1, MarksAssumption

\* What is left of a sequence without its first n elements.
LEMMA Rest ==
  ASSUME NEW S, NEW q \in Seq(S), NEW n \in 0 .. Len(q)
  PROVE  /\ SubSeq(q, n + 1, Len(q)) \in Seq(S)
         /\ Len(SubSeq(q, n + 1, Len(q))) = Len(q) - n
         /\ \A i \in 1 .. Len(q) - n :
              SubSeq(q, n + 1, Len(q))[i] = q[n + i] /\ n + i \in DOMAIN q
<1>1. /\ n \in Nat /\ n + 1 \in Int /\ Len(q) \in Int /\ DOMAIN q = 1 .. Len(q)
      /\ \A i \in n + 1 .. Len(q) : i \in DOMAIN q /\ q[i] \in S
  OBVIOUS
<1>2. PICK m \in Int : m = n + 1
  BY <1>1
<1>3. PICK len \in Int : len = Len(q)
  BY <1>1
<1>4. PICK r : r = SubSeq(q, m, len)
  OBVIOUS
<1>5. /\ r \in Seq(S) /\ Len(r) = (IF m <= len THEN len - m + 1 ELSE 0)
      /\ \A i \in 1 .. len - m + 1 : r[i] = q[m + i - 1]
  <2>1. \A i \in m .. len : q[i] \in S
    BY <1>1, <1>2, <1>3
  <2>2. QED
    BY <1>4, <2>1, SubSeqProperties
<1>6. /\ r \in Seq(S) /\ Len(r) = len - n
      /\ \A i \in 1 .. len - n : r[i] = q[n + i] /\ n + i \in DOMAIN q
  <2>1. \A i \in 1 .. len - n : i \in 1 .. len - m + 1 /\ m + i - 1 = n + i
    BY <1>1, <1>2, <1>3
  <2>2. Len(r) = len - n
    <3>1. n \in Int /\ n <= len /\ m = n + 1
      BY <1>1, <1>2, <1>3
    <3>2. CASE m <= len
      <4>1. Len(r) = len - m + 1
        BY <1>5, <3>2, Zenon
      <4>2. QED
        BY <3>1, <4>1
    <3>3. CASE ~(m <= len)
      <4>1. Len(r) = 0
        BY <1>5, <3>3, Zenon
      <4>2. QED
        BY <3>1, <3>3, <4>1
    <3>4. QED
      BY <3>2, <3>3
  <2>3. \A i \in 1 .. len - n : n + i \in DOMAIN q
    BY <1>1, <1>3
  <2>4. \A i \in 1 .. len - n : r[i] = q[n + i]
    <3>1. TAKE i \in 1 .. len - n
    <3>2. r[i] = q[m + i - 1] /\ m + i - 1 = n + i
      BY <1>5, <2>1
    <3>3. QED
      BY <3>2
  <2>5. QED
    BY <1>5, <2>2, <2>3, <2>4
<1>7. QED
  BY <1>2, <1>3, <1>4, <1>6

LEMMA SilentTyped ==
  /\ Silent \in [speech : Seq(Chunks), silence : Seq(Chunks), recording : BOOLEAN]
  /\ Len(Silent.speech) = 0 /\ Len(Silent.silence) = 0
  /\ Silent.speech = <<>> /\ Silent.silence = <<>> /\ Silent.recording = FALSE
<1>1. <<>> \in Seq(Chunks) /\ Len(<<>>) = 0
  OBVIOUS
<1>2. QED
  BY <1>1 DEF Silent

----------------------------------------------------------------------------
(* The types, and the order in which the threads end.                       *)

LEMMA InitStopInv == Init => StopInv
<1> SUFFICES ASSUME Init PROVE StopInv
  OBVIOUS
<1> USE LimitsAssumption DEF Init
<1>1. TypeOK
  <2>1. <<>> \in Seq(Item) /\ Len(<<>>) = 0
    OBVIOUS
  <2>2. process \in [out : Seq(Item), closing : BOOLEAN, ended : BOOLEAN]
    BY <2>1
  <2>3. /\ capture \in [running : BOOLEAN, holds : Chunks \cup {None}, ended : BOOLEAN]
        /\ worker \in [holds : Seq(Chunks) \cup {None}, ended : BOOLEAN]
    OBVIOUS
  <2>4. Len(buffer.speech) < MaxSpeech /\ Len(buffer.silence) < MaxSilence
        /\ buffer \in [speech : Seq(Chunks), silence : Seq(Chunks), recording : BOOLEAN]
    BY SilentTyped
  <2>5. Len(process.out) <= 2 /\ Len(segments) <= SegmentSize /\ Len(pcm) <= PcmSize
    OBVIOUS
  <2>6. pcm \in Seq(Chunks \cup {Stop}) /\ judged \in Seq([chunk : Chunks, speech : BOOLEAN])
        /\ published \in Seq(Seq(Chunks))
    OBVIOUS
  <2>7. sent \in 0 .. MaxChunks /\ warned \subseteq Chunks
    OBVIOUS
  <2>8. overdue \in BOOLEAN
    BY Zenon
  <2>9. QED
    BY <2>1, <2>2, <2>3, <2>4, <2>5, <2>6, <2>7, <2>8 DEF TypeOK
<1>2. Recording /\ SentinelLast /\ EndsInTurn
  BY SilentTyped DEF Recording, SentinelLast, EndsInTurn, AfterSentinel
<1>3. QED
  BY <1>1, <1>2 DEF StopInv

\* The steps that touch neither queue nor what the process thread has to put.
LEMMA QuietKeepsStopInv ==
  ASSUME StopInv, UNCHANGED <<pcm, buffer, process, segments, judged>>,
         sent' \in 0 .. MaxChunks,
         capture' \in [running : BOOLEAN, holds : Chunks \cup {None}, ended : BOOLEAN],
         worker' \in [holds : Seq(Chunks) \cup {None}, ended : BOOLEAN],
         overdue' \in BOOLEAN, warned' \subseteq Chunks, published' \in Seq(Seq(Chunks)),
         main' \in {"spin", "joinCapture", "sentinel", "joinProcess", "joinWorker", "gone"},
         main' \in AfterSentinel <=> main \in AfterSentinel,
         capture.ended => capture'.ended, capture'.ended => capture'.holds = None,
         main' = "sentinel" => capture'.ended,
         worker'.ended => worker'.holds = None,
         worker'.ended /\ main' # "gone" => process.ended /\ segments = <<>>,
         main' = "gone" /\ ~overdue' => worker'.ended /\ process.ended /\ segments = <<>>
  PROVE  StopInv'
<1>1. TypeOK' /\ Recording'
  BY DEF StopInv, TypeOK, Recording
<1>2. SentinelLast'
  BY DEF StopInv, SentinelLast
<1>3. EndsInTurn'
  BY DEF StopInv, EndsInTurn
<1>4. QED
  BY <1>1, <1>2, <1>3 DEF StopInv

LEMMA ThreadsTyped ==
  ASSUME StopInv
  PROVE  /\ sent \in 0 .. MaxChunks
         /\ capture \in [running : BOOLEAN, holds : Chunks \cup {None}, ended : BOOLEAN]
         /\ worker \in [holds : Seq(Chunks) \cup {None}, ended : BOOLEAN]
         /\ process \in [out : Seq(Item), closing : BOOLEAN, ended : BOOLEAN]
         /\ overdue \in BOOLEAN /\ warned \subseteq Chunks /\ published \in Seq(Seq(Chunks))
         /\ main \in {"spin", "joinCapture", "sentinel", "joinProcess", "joinWorker", "gone"}
BY DEF StopInv, TypeOK

LEMMA CaptureKeepsStopInv ==
  ASSUME StopInv
  PROVE  /\ Receive => StopInv'
         /\ CaptureEnds => StopInv'
         /\ CaptureFails => StopInv'
<1> USE ThreadsTyped, LimitsAssumption DEF MayCapture, AfterSentinel
<1>1. ASSUME Receive PROVE StopInv'
  <2>1. sent' \in 0 .. MaxChunks /\ sent + 1 \in Chunks
    BY <1>1 DEF Receive, Chunks
  <2>2. /\ capture' \in [running : BOOLEAN, holds : Chunks \cup {None}, ended : BOOLEAN]
        /\ ~capture.ended /\ ~capture'.ended /\ main' = main /\ worker' = worker
        /\ overdue' = overdue /\ warned' = warned /\ published' = published
    BY <1>1, <2>1 DEF Receive
  <2>3. main # "sentinel" /\ main \notin AfterSentinel
    BY <2>2 DEF StopInv, EndsInTurn
  <2>4. QED
    BY <1>1, <2>1, <2>2, <2>3, QuietKeepsStopInv DEF Receive, StopInv, EndsInTurn
<1>2. ASSUME CaptureEnds PROVE StopInv'
  BY <1>2, QuietKeepsStopInv DEF CaptureEnds, StopInv, EndsInTurn
<1>3. ASSUME CaptureFails PROVE StopInv'
  BY <1>3, QuietKeepsStopInv DEF CaptureFails, StopInv, EndsInTurn
<1>4. QED
  BY <1>1, <1>2, <1>3

\* No chunk comes after the sentinel, for the capture thread has ended.
LEMMA EnqueueKeepsStopInv ==
  ASSUME StopInv, EnqueuePcm
  PROVE  StopInv'
<1> USE ThreadsTyped
<1>1. /\ capture.holds \in Chunks /\ ~capture.ended
      /\ main \notin AfterSentinel /\ ~process.closing
  BY DEF EnqueuePcm, StopInv, EndsInTurn, AfterSentinel
<1>2. capture' \in [running : BOOLEAN, holds : Chunks \cup {None}, ended : BOOLEAN]
      /\ capture'.ended = FALSE
  BY <1>1 DEF EnqueuePcm
<1>3. /\ UNCHANGED <<sent, buffer, process, segments, worker, main, overdue, judged, published>>
      /\ warned' \subseteq Chunks
  BY <1>1 DEF EnqueuePcm
<1>4. pcm \in Seq(Chunks \cup {Stop}) /\ \A k \in DOMAIN pcm : pcm[k] # Stop
  BY <1>1 DEF StopInv, TypeOK, SentinelLast
<1>5. /\ pcm' \in Seq(Chunks \cup {Stop}) /\ Len(pcm') <= PcmSize
      /\ \A k \in DOMAIN pcm' : pcm'[k] # Stop
  <2>1. CASE pcm' = pcm
    BY <1>4, <2>1 DEF StopInv, TypeOK
  <2>2. CASE Len(pcm) < PcmSize /\ pcm' = Append(pcm, capture.holds)
    <3>1. capture.holds # Stop
      BY <1>1, MarksAssumption DEF Chunks
    <3>2. QED
      BY <1>1, <1>4, <2>2, <3>1, Added, LimitsAssumption
  <2>3. QED
    BY <2>1, <2>2 DEF EnqueuePcm
<1>6. TypeOK' /\ Recording'
  BY <1>2, <1>3, <1>5 DEF StopInv, TypeOK, Recording
<1>7. SentinelLast'
  BY <1>3, <1>5 DEF StopInv, SentinelLast
<1>8. EndsInTurn'
  BY <1>1, <1>2, <1>3 DEF StopInv, EndsInTurn, AfterSentinel
<1>9. QED
  BY <1>6, <1>7, <1>8 DEF StopInv

\* What a chunk leaves in the buffer and completes.
LEMMA HeardTyped ==
  ASSUME StopInv, NEW c \in Chunks, NEW speech \in BOOLEAN, HeardAs(c, speech)
  PROVE  /\ buffer' \in [speech : Seq(Chunks), silence : Seq(Chunks), recording : BOOLEAN]
         /\ Len(buffer'.speech) < MaxSpeech /\ Len(buffer'.silence) < MaxSilence
         /\ Recording'
         /\ process'.out \in Seq(Seq(Chunks)) /\ Len(process'.out) <= 1
<1>1. /\ buffer \in [speech : Seq(Chunks), silence : Seq(Chunks), recording : BOOLEAN]
      /\ Len(buffer.speech) < MaxSpeech /\ Len(buffer.silence) < MaxSilence
      /\ Recording
  BY DEF StopInv, TypeOK
<1>2. /\ Append(buffer.speech, c) \in Seq(Chunks) /\ Append(buffer.silence, c) \in Seq(Chunks)
      /\ Len(Append(buffer.speech, c)) = Len(buffer.speech) + 1
      /\ Len(Append(buffer.silence, c)) = Len(buffer.silence) + 1
      /\ Append(buffer.speech, c) # <<>>
      /\ Len(buffer.speech) \in Nat /\ Len(buffer.silence) \in Nat
  BY <1>1, AppendProperties
<1>3. ASSUME buffer' = Silent
      PROVE  /\ buffer' \in [speech : Seq(Chunks), silence : Seq(Chunks), recording : BOOLEAN]
             /\ Len(buffer'.speech) < MaxSpeech /\ Len(buffer'.silence) < MaxSilence
             /\ Recording'
  BY <1>3, SilentTyped, LimitsAssumption DEF Recording
<1>4. <<>> \in Seq(Seq(Chunks)) /\ Len(<<>>) = 0
      /\ \A t \in Seq(Chunks) : <<t>> \in Seq(Seq(Chunks)) /\ Len(<<t>>) = 1
  OBVIOUS
<1>5. CASE SpeechGrows(c)
  <2>1. <<>> \in Seq(Chunks) /\ Len(<<>>) = 0
    OBVIOUS
  <2>2. PICK s \in Seq(Chunks) : s = Append(buffer.speech, c)
    BY <1>2
  <2>3. /\ buffer' = [speech |-> s, silence |-> <<>>, recording |-> TRUE]
        /\ Len(s) < MaxSpeech /\ s # <<>> /\ process'.out = <<>>
    BY <1>2, <1>5, <2>2 DEF SpeechGrows
  <2>4. QED
    BY <1>4, <2>1, <2>3, LimitsAssumption DEF Recording
<1>6. CASE SpeechFull(c)
  BY <1>2, <1>3, <1>4, <1>6 DEF SpeechFull
<1>7. CASE NotRecording
  BY <1>1, <1>4, <1>7 DEF NotRecording, Recording
<1>8. CASE SilenceGrows(c)
  <2>1. PICK s \in Seq(Chunks) : s = Append(buffer.silence, c)
    BY <1>2
  <2>2. /\ buffer' = [buffer EXCEPT !.silence = s] /\ Len(s) < MaxSilence
        /\ buffer.recording /\ process'.out = <<>>
    BY <1>2, <1>8, <2>1 DEF SilenceGrows
  <2>3. QED
    BY <1>1, <1>4, <2>2 DEF Recording
<1>9. CASE TooShort
  BY <1>3, <1>4, <1>9 DEF TooShort
<1>10. CASE Pause(c)
  <2>1. PICK n \in 0 .. Len(buffer.silence) + 1 :
          process'.out = <<buffer.speech \o
                           SubSeq(Append(buffer.silence, c), n + 1, Len(buffer.silence) + 1)>>
    BY <1>10 DEF Pause
  <2>2. PICK k \in Seq(Chunks) :
          k = SubSeq(Append(buffer.silence, c), n + 1, Len(buffer.silence) + 1)
    <3>1. PICK s \in Seq(Chunks) : s = Append(buffer.silence, c)
      BY <1>2
    <3>2. n \in 0 .. Len(s) /\ Len(s) = Len(buffer.silence) + 1
      BY <1>2, <3>1
    <3>3. SubSeq(s, n + 1, Len(s)) \in Seq(Chunks)
      BY <3>2, Rest
    <3>4. QED
      BY <3>1, <3>2, <3>3
  <2>3. buffer.speech \o k \in Seq(Chunks)
    BY <1>1, ConcatProperties
  <2>4. QED
    <3>1. PICK t \in Seq(Chunks) : t = buffer.speech \o k
      BY <2>3
    <3>2. process'.out = <<t>>
      BY <2>1, <2>2, <3>1, Zenon
    <3>3. process'.out \in Seq(Seq(Chunks)) /\ Len(process'.out) = 1
      BY <1>4, <3>1, <3>2, Zenon
    <3>4. buffer' = Silent
      BY <1>10 DEF Pause
    <3>5. QED
      BY <1>3, <3>3, <3>4
<1>11. QED
  BY <1>5, <1>6, <1>7, <1>8, <1>9, <1>10 DEF HeardAs

LEMMA HearKeepsStopInv ==
  ASSUME StopInv, Hear
  PROVE  StopInv'
<1>1. PICK c \in Chunks, speech \in BOOLEAN :
        /\ pcm # <<>> /\ c = Head(pcm) /\ pcm' = Tail(pcm)
        /\ judged' = Append(judged, [chunk |-> c, speech |-> speech])
        /\ HeardAs(c, speech)
  BY HearOutcome DEF StopInv
<1>2. /\ ~process.ended /\ ~process.closing /\ process.out = <<>>
      /\ process' = [process EXCEPT !.out = process'.out]
      /\ UNCHANGED <<sent, capture, segments, worker, main, overdue, warned, published>>
  <2>1. process \in [out : Seq(Item), closing : BOOLEAN, ended : BOOLEAN]
    BY DEF StopInv, TypeOK
  <2>2. PICK o : process' = [process EXCEPT !.out = o]
    BY DEF Hear
  <2>3. process'.out = o
    BY <2>1, <2>2
  <2>4. QED
    BY <1>1, <2>2, <2>3 DEF Hear, MayProcess, StopInv, EndsInTurn
<1>3. process'.out \in Seq(Seq(Chunks)) /\ Len(process'.out) <= 1
      /\ \A k \in DOMAIN process'.out : process'.out[k] # Stop
  <2>1. process'.out \in Seq(Seq(Chunks)) /\ Len(process'.out) <= 1
    BY <1>1, HeardTyped
  <2>2. QED
    BY <2>1, MarksAreNoText
<1>4. /\ process'.out \in Seq(Item)
      /\ process' \in [out : Seq(Item), closing : BOOLEAN, ended : BOOLEAN]
      /\ process'.closing = FALSE /\ process'.ended = FALSE
  <2>1. process'.out \in Seq(Item)
    BY <1>3 DEF Item
  <2>2. QED
    BY <1>2, <2>1 DEF StopInv, TypeOK
<1>5. /\ pcm \in Seq(Chunks \cup {Stop}) /\ pcm' \in Seq(Chunks \cup {Stop})
      /\ Len(pcm') = Len(pcm) - 1 /\ Len(pcm) \in Nat
      /\ \A k \in DOMAIN pcm' : pcm'[k] = pcm[k + 1] /\ k + 1 \in DOMAIN pcm
  BY <1>1, Taken DEF StopInv, TypeOK
<1>6. judged' \in Seq([chunk : Chunks, speech : BOOLEAN])
  <2>1. [chunk |-> c, speech |-> speech] \in [chunk : Chunks, speech : BOOLEAN]
    OBVIOUS
  <2>2. QED
    BY <1>1, <2>1, Added DEF StopInv, TypeOK
<1>7. TypeOK' /\ Recording'
  <2>1. Recording' /\ Len(buffer'.speech) < MaxSpeech /\ Len(buffer'.silence) < MaxSilence
        /\ buffer' \in [speech : Seq(Chunks), silence : Seq(Chunks), recording : BOOLEAN]
    BY <1>1, HeardTyped
  <2>2. Len(pcm') <= PcmSize
    BY <1>5, LimitsAssumption DEF StopInv, TypeOK
  <2>3. Len(process'.out) <= 2
    <3>1. PICK o \in Seq(Seq(Chunks)) : o = process'.out
      BY <1>3
    <3>2. Len(o) \in Nat /\ Len(o) <= 1
      BY <1>3, <3>1
    <3>3. QED
      BY <3>1, <3>2
  <2>4. QED
    BY <1>2, <1>4, <1>5, <1>6, <2>1, <2>2, <2>3 DEF StopInv, TypeOK
<1>8. SentinelLast'
  <2>1. \A k \in DOMAIN pcm' : pcm'[k] = Stop => k = Len(pcm') /\ main \in AfterSentinel
    BY <1>5 DEF StopInv, SentinelLast
  <2>2. QED
    BY <1>2, <1>3, <1>4, <2>1 DEF StopInv, SentinelLast
<1>9. EndsInTurn'
  BY <1>2, <1>4 DEF StopInv, EndsInTurn
<1>10. QED
  BY <1>7, <1>8, <1>9 DEF StopInv

\* The sentinel is heard when the queue has nothing else.
LEMMA CloseKeepsStopInv ==
  ASSUME StopInv, Close
  PROVE  StopInv'
<1>1. /\ pcm \in Seq(Chunks \cup {Stop}) /\ pcm # <<>> /\ pcm[1] = Stop /\ pcm' = Tail(pcm)
      /\ 1 \in DOMAIN pcm /\ ~process.closing /\ ~process.ended /\ process.out = <<>>
      /\ UNCHANGED <<sent, capture, segments, worker, main, overdue, judged, warned, published>>
  BY Taken DEF Close, MayProcess, StopInv, TypeOK, EndsInTurn
<1>2. Len(pcm) = 1 /\ main \in AfterSentinel
  BY <1>1 DEF StopInv, SentinelLast
<1>3. pcm' = <<>>
  BY <1>1, <1>2
<1>4. /\ buffer \in [speech : Seq(Chunks), silence : Seq(Chunks), recording : BOOLEAN]
      /\ Recording /\ process \in [out : Seq(Item), closing : BOOLEAN, ended : BOOLEAN]
  BY DEF StopInv, TypeOK
<1>5. PICK done \in Seq(Seq(Chunks)) :
        /\ buffer' = Silent /\ Len(done) <= 1
        /\ process' = [process EXCEPT !.out = done \o <<Stop>>, !.closing = TRUE]
  <2>1. CASE buffer.recording
    <3>1. ForceComplete = [left |-> Silent, done |-> <<buffer.speech>>]
      BY <1>4, <2>1 DEF ForceComplete, Recording
    <3>2. <<buffer.speech>> \in Seq(Seq(Chunks)) /\ Len(<<buffer.speech>>) = 1
      BY <1>4
    <3>3. /\ buffer' = Silent
          /\ process' = [process EXCEPT !.out = <<buffer.speech>> \o <<Stop>>, !.closing = TRUE]
      <4>1. \A l, d : [left |-> l, done |-> d].left = l /\ [left |-> l, done |-> d].done = d
        OBVIOUS
      <4>2. QED
        BY <3>1, <4>1, Zenon DEF Close
    <3>4. Len(<<buffer.speech>>) <= 1
      BY <3>2
    <3>5. QED
      BY <3>2, <3>3, <3>4, Zenon
  <2>2. CASE ~buffer.recording
    <3>1. ForceComplete = [left |-> buffer, done |-> <<>>] /\ buffer = Silent
      BY <1>4, <2>2 DEF ForceComplete, Recording
    <3>2. <<>> \in Seq(Seq(Chunks)) /\ Len(<<>>) = 0
      OBVIOUS
    <3>3. /\ buffer' = Silent
          /\ process' = [process EXCEPT !.out = <<>> \o <<Stop>>, !.closing = TRUE]
      <4>1. \A l, d : [left |-> l, done |-> d].left = l /\ [left |-> l, done |-> d].done = d
        OBVIOUS
      <4>2. QED
        BY <3>1, <4>1, Zenon DEF Close
    <3>4. Len(<<>>) <= 1
      BY <3>2
    <3>5. QED
      BY <3>2, <3>3, <3>4, Zenon
  <2>3. QED
    BY <2>1, <2>2
<1>6. PICK out : out = done \o <<Stop>>
  OBVIOUS
<1>7. /\ out \in Seq(Item) /\ Len(out) = Len(done) + 1 /\ out[Len(done) + 1] = Stop
      /\ \A k \in DOMAIN out : out[k] = Stop => k = Len(out)
  <2>1. /\ out \in Seq(Item) /\ Len(out) = Len(done) + 1
        /\ \A k \in 1 .. Len(done) + 1 : out[k] = IF k <= Len(done) THEN done[k] ELSE Stop
    <3>1. done \in Seq(Item) /\ <<Stop>> \in Seq(Item)
      BY DEF Item
    <3>2. QED
      BY <1>6, <3>1, ConcatProperties
  <2>2. \A k \in 1 .. Len(done) : done[k] # Stop
    BY MarksAreNoText
  <2>3. QED
    BY <2>1, <2>2
<1>8. /\ process' \in [out : Seq(Item), closing : BOOLEAN, ended : BOOLEAN]
      /\ process'.out = out /\ process'.closing = TRUE /\ process'.ended = FALSE
  BY <1>1, <1>4, <1>5, <1>6, <1>7
<1>9. out # <<>> /\ Len(out) <= 2
  BY <1>5, <1>7
<1>10. TypeOK' /\ Recording'
  <2>1. /\ pcm' \in Seq(Chunks \cup {Stop}) /\ Len(pcm') <= PcmSize
        /\ Len(buffer'.speech) < MaxSpeech /\ Len(buffer'.silence) < MaxSilence /\ Recording'
        /\ buffer' \in [speech : Seq(Chunks), silence : Seq(Chunks), recording : BOOLEAN]
    BY <1>3, <1>5, SilentTyped, LimitsAssumption DEF Recording
  <2>2. QED
    BY <1>1, <1>8, <1>9, <2>1 DEF StopInv, TypeOK
<1>11. SentinelLast'
  BY <1>1, <1>3, <1>7, <1>8 DEF StopInv, SentinelLast
<1>12. EndsInTurn'
  BY <1>1, <1>2, <1>3, <1>5, <1>7, <1>8, <1>9 DEF StopInv, EndsInTurn
<1>13. QED
  BY <1>10, <1>11, <1>12 DEF StopInv


\* The process thread ends with the sentinel, put or not.
LEMMA PutSegmentKeepsStopInv ==
  ASSUME StopInv, PutSegment
  PROVE  StopInv'
<1> USE ThreadsTyped
<1>1. PICK out \in Seq(Item), item \in Item, rest \in Seq(Item) :
        /\ out = process.out /\ item = Head(out) /\ item = out[1] /\ rest = Tail(out)
        /\ Len(rest) = Len(out) - 1 /\ Len(out) \in Nat \ {0} /\ out # <<>> /\ 1 \in DOMAIN out
        /\ \A j \in DOMAIN rest : rest[j] = out[j + 1] /\ j + 1 \in DOMAIN out
  <2>1. process.out \in Seq(Item) /\ process.out # <<>>
    BY DEF PutSegment
  <2>2. PICK out \in Seq(Item) : out = process.out /\ out # <<>>
    BY <2>1
  <2>3. Len(out) \in Nat \ {0}
    BY <2>2, EmptySeq
  <2>4. PICK rest \in Seq(Item) : rest = Tail(out)
    BY <2>2, Taken
  <2>5. /\ Head(out) \in Item /\ Head(out) = out[1] /\ 1 \in DOMAIN out
        /\ Len(rest) = Len(out) - 1
        /\ \A j \in DOMAIN rest : rest[j] = out[j + 1] /\ j + 1 \in DOMAIN out
    BY <2>2, <2>4, Taken
  <2>6. QED
    BY <2>2, <2>3, <2>4, <2>5
<1>2. /\ process' = [process EXCEPT !.out = rest, !.ended = process.closing /\ Len(out) = 1]
      /\ UNCHANGED <<sent, capture, pcm, buffer, worker, main, judged, published>>
  BY <1>1 DEF PutSegment
<1>3. /\ process' \in [out : Seq(Item), closing : BOOLEAN, ended : BOOLEAN]
      /\ process'.out = rest /\ process'.closing = process.closing
      /\ process'.ended <=> process.closing /\ Len(out) = 1
  BY <1>1, <1>2
<1>4. \A k \in DOMAIN out : out[k] = Stop => k = Len(out) /\ process.closing
  BY <1>1 DEF StopInv, SentinelLast
<1>5. /\ ~process.ended /\ ~(worker.ended /\ main # "gone") /\ ~(main = "gone" /\ ~overdue)
      /\ \A k \in DOMAIN segments : segments[k] # Stop
  BY <1>1 DEF StopInv, EndsInTurn, SentinelLast
<1>6. segments \in Seq(Item) /\ Len(segments) <= SegmentSize
  BY DEF StopInv, TypeOK
<1>7. /\ segments' \in Seq(Item) /\ Len(segments') <= SegmentSize
      /\ \A k \in DOMAIN segments' :
           segments'[k] = Stop => k = Len(segments') /\ process'.ended
  <2>1. CASE Len(segments) < SegmentSize /\ segments' = Append(segments, item)
    <3>1. Len(segments') = Len(segments) + 1 /\ segments' \in Seq(Item)
      BY <1>6, <2>1, Added
    <3>2. Len(segments') <= SegmentSize
      BY <1>6, <2>1, <3>1, LimitsAssumption
    <3>3. ASSUME NEW k \in DOMAIN segments', segments'[k] = Stop
          PROVE  k = Len(segments') /\ process'.ended
      <4>1. k = Len(segments) + 1 /\ segments'[k] = item
        BY <1>5, <1>6, <2>1, <3>3, Added
      <4>2. 1 = Len(out) /\ process.closing
        BY <1>1, <1>4, <3>3, <4>1
      <4>3. QED
        BY <1>3, <3>1, <4>1, <4>2
    <3>4. QED
      BY <3>1, <3>2, <3>3
  <2>2. CASE segments' = segments
    BY <1>5, <1>6, <2>2
  <2>3. QED
    BY <1>1, <2>1, <2>2 DEF PutSegment
<1>8. overdue' \in BOOLEAN
  BY Zenon DEF PutSegment
<1>9. warned' \subseteq Chunks
  <2>1. item # Stop => Range(item) \subseteq Chunks
    BY <1>1 DEF Item, Range
  <2>2. QED
    BY <1>1, <2>1 DEF PutSegment
<1>10. TypeOK' /\ Recording'
  <2>1. Len(process'.out) <= 2
    <3>1. Len(out) <= 2
      BY <1>1 DEF StopInv, TypeOK
    <3>2. Len(rest) <= 2
      BY <1>1, <3>1
    <3>3. QED
      BY <1>3, <3>2
  <2>2. QED
    BY <1>2, <1>3, <1>7, <1>8, <1>9, <2>1 DEF StopInv, TypeOK, Recording
<1>11. SentinelLast'
  <2>1. \A k \in DOMAIN rest : rest[k] = Stop => k = Len(rest) /\ process.closing
    BY <1>1, <1>4
  <2>2. \A k \in DOMAIN pcm' : pcm'[k] = Stop =>
          k = Len(pcm') /\ ~process'.closing /\ main' \in AfterSentinel
    BY <1>2, <1>3 DEF StopInv, SentinelLast
  <2>3. QED
    BY <1>3, <1>7, <2>1, <2>2 DEF SentinelLast
<1>12. EndsInTurn'
  <2>1. process.closing /\ rest # <<>> => rest[Len(rest)] = Stop
    <3>1. HAVE process.closing /\ rest # <<>>
    <3>2. out[Len(out)] = Stop
      BY <1>1, <3>1 DEF StopInv, EndsInTurn
    <3>3. Len(rest) \in DOMAIN rest /\ Len(rest) + 1 = Len(out)
      BY <1>1, <3>1
    <3>4. QED
      BY <1>1, <3>2, <3>3
  <2>2. rest = <<>> <=> Len(out) = 1
    <3>1. rest = <<>> <=> Len(rest) = 0
      BY EmptySeq
    <3>2. Len(rest) = 0 <=> Len(out) = 1
      BY <1>1
    <3>3. QED
      BY <3>1, <3>2
  <2>3. ~(main = "gone" /\ ~overdue')
    BY <1>5 DEF PutSegment
  <2>4. QED
    BY <1>2, <1>3, <1>5, <2>1, <2>2, <2>3 DEF StopInv, EndsInTurn
<1>13. QED
  BY <1>10, <1>11, <1>12 DEF StopInv

LEMMA TakeSegmentKeepsStopInv ==
  ASSUME StopInv, TakeSegment
  PROVE  StopInv'
<1> USE ThreadsTyped
<1>1. /\ segments \in Seq(Item) /\ segments # <<>> /\ Len(segments) <= SegmentSize
      /\ ~worker.ended /\ worker.holds = None /\ segments' = Tail(segments)
      /\ UNCHANGED <<sent, capture, pcm, buffer, process, main, overdue, judged,
                     warned, published>>
  BY DEF TakeSegment, MayTake, StopInv, TypeOK
<1>2. PICK item \in Item :
        /\ item = Head(segments) /\ item = segments[1] /\ 1 \in DOMAIN segments
        /\ segments' \in Seq(Item) /\ Len(segments') = Len(segments) - 1
        /\ Len(segments) \in Nat
        /\ \A j \in DOMAIN segments' :
             segments'[j] = segments[j + 1] /\ j + 1 \in DOMAIN segments
  BY <1>1, Taken
<1>3. ~(main = "gone" /\ ~overdue)
  BY <1>1 DEF StopInv, EndsInTurn
<1>4. /\ worker' \in [holds : Seq(Chunks) \cup {None}, ended : BOOLEAN]
      /\ worker'.ended => worker'.holds = None /\ process.ended /\ segments' = <<>>
  <2>1. CASE item = Stop
    <3>1. worker' = [worker EXCEPT !.ended = TRUE]
      BY <1>2, <2>1 DEF TakeSegment
    <3>2. 1 = Len(segments) /\ process.ended
      BY <1>2, <2>1 DEF StopInv, SentinelLast
    <3>3. segments' = <<>>
      <4>1. Len(segments) = 1 /\ Len(segments') = Len(segments) - 1
        BY <1>2, <3>2, Zenon
      <4>2. Len(segments') = 0
        BY <4>1
      <4>3. QED
        BY <1>2, <4>2, EmptySeq
    <3>4. QED
      BY <1>1, <3>1, <3>2, <3>3
  <2>2. CASE item # Stop
    <3>1. worker' = [worker EXCEPT !.holds = item]
      BY <1>2, <2>2 DEF TakeSegment
    <3>2. QED
      BY <1>1, <1>2, <2>2, <3>1 DEF Item
  <2>3. QED
    BY <2>1, <2>2
<1>5. Len(segments') <= SegmentSize
  BY <1>1, <1>2, LimitsAssumption
<1>6. TypeOK' /\ Recording'
  BY <1>1, <1>2, <1>4, <1>5 DEF StopInv, TypeOK, Recording
<1>7. SentinelLast'
  <2>1. \A k \in DOMAIN segments' : segments'[k] = Stop => k = Len(segments') /\ process.ended
    BY <1>2 DEF StopInv, SentinelLast
  <2>2. QED
    BY <1>1, <2>1 DEF StopInv, SentinelLast
<1>8. EndsInTurn'
  BY <1>1, <1>3, <1>4 DEF StopInv, EndsInTurn, AfterSentinel
<1>9. QED
  BY <1>6, <1>7, <1>8 DEF StopInv

LEMMA WorkerKeepsStopInv ==
  ASSUME StopInv, NoText \/ Publish \/ PublishTooLate
  PROVE  StopInv'
<1> USE ThreadsTyped
<1>1. worker.holds \in Seq(Chunks) /\ Range(worker.holds) \subseteq Chunks /\ ~worker.ended
  <2>1. worker.holds # None
    BY DEF NoText, Publish, PublishTooLate
  <2>2. QED
    BY <2>1 DEF Range, StopInv, EndsInTurn
<1>2. /\ UNCHANGED <<sent, capture, pcm, buffer, process, segments, main, overdue, judged>>
      /\ worker' \in [holds : Seq(Chunks) \cup {None}, ended : BOOLEAN]
      /\ worker'.holds = None /\ (worker'.ended => main = "gone")
      /\ warned' \subseteq Chunks /\ published' \in Seq(Seq(Chunks))
  <2>1. CASE NoText
    BY <1>1, <2>1 DEF NoText
  <2>2. CASE Publish
    BY <1>1, <2>2, Added DEF Publish
  <2>3. CASE PublishTooLate
    BY <1>1, <2>3 DEF PublishTooLate
  <2>4. QED
    BY <2>1, <2>2, <2>3
<1>3. ~(main = "gone" /\ ~overdue)
  BY <1>1 DEF StopInv, EndsInTurn
<1>4. /\ capture.ended => capture.holds = None
      /\ main = "sentinel" => capture.ended
  BY DEF StopInv, EndsInTurn
<1>5. QED
  BY <1>2, <1>3, <1>4, QuietKeepsStopInv

LEMMA MainKeepsStopInv ==
  ASSUME StopInv
  PROVE  /\ Interrupt => StopInv'
         /\ JoinCapture => StopInv'
         /\ JoinProcess => StopInv'
         /\ JoinWorker => StopInv'
<1> USE ThreadsTyped DEF AfterSentinel
<1>1. ASSUME Interrupt PROVE StopInv'
  BY <1>1, QuietKeepsStopInv DEF Interrupt, StopInv, EndsInTurn
<1>2. ASSUME JoinCapture PROVE StopInv'
  BY <1>2, QuietKeepsStopInv DEF JoinCapture, StopInv, EndsInTurn
<1>3. ASSUME JoinProcess PROVE StopInv'
  <2>1. overdue' \in BOOLEAN
    BY <1>3, Zenon DEF JoinProcess, Joined
  <2>2. QED
    BY <1>3, <2>1, QuietKeepsStopInv DEF JoinProcess, StopInv, EndsInTurn
<1>4. ASSUME JoinWorker PROVE StopInv'
  <2>1. overdue' \in BOOLEAN
    BY <1>4, Zenon DEF JoinWorker, Joined
  <2>2. ~overdue' => worker.ended
    BY <1>4 DEF JoinWorker, Joined
  <2>3. QED
    BY <1>4, <2>1, <2>2, QuietKeepsStopInv DEF JoinWorker, StopInv, EndsInTurn
<1>5. QED
  BY <1>1, <1>2, <1>3, <1>4

LEMMA PutSentinelKeepsStopInv ==
  ASSUME StopInv, PutSentinel
  PROVE  StopInv'
<1> USE ThreadsTyped
<1>1. /\ main = "sentinel" /\ main' = "joinProcess" /\ capture.ended /\ ~process.closing
      /\ UNCHANGED <<sent, capture, buffer, process, segments, worker, judged, warned, published>>
  BY DEF PutSentinel, StopInv, EndsInTurn, AfterSentinel
<1>2. pcm \in Seq(Chunks \cup {Stop}) /\ \A k \in DOMAIN pcm : pcm[k] # Stop
  BY <1>1 DEF StopInv, TypeOK, SentinelLast, AfterSentinel
<1>3. overdue' \in BOOLEAN
  BY Zenon DEF PutSentinel
<1>4. /\ pcm' \in Seq(Chunks \cup {Stop}) /\ Len(pcm') <= PcmSize
      /\ \A k \in DOMAIN pcm' : pcm'[k] = Stop => k = Len(pcm')
  <2>1. CASE pcm' = pcm
    BY <1>2, <2>1 DEF StopInv, TypeOK
  <2>2. CASE Len(pcm) < PcmSize /\ pcm' = Append(pcm, Stop)
    BY <1>2, <2>2, Added, LimitsAssumption
  <2>3. QED
    BY <2>1, <2>2 DEF PutSentinel
<1>5. TypeOK' /\ Recording'
  BY <1>1, <1>3, <1>4 DEF StopInv, TypeOK, Recording
<1>6. SentinelLast'
  BY <1>1, <1>4 DEF StopInv, SentinelLast, AfterSentinel
<1>7. EndsInTurn'
  BY <1>1 DEF StopInv, EndsInTurn
<1>8. QED
  BY <1>5, <1>6, <1>7 DEF StopInv

LEMMA StopInvStep == StopInv /\ [Next]_vars => StopInv'
<1> SUFFICES ASSUME StopInv, [Next]_vars PROVE StopInv'
  OBVIOUS
<1>1. CASE Capture
  BY <1>1, CaptureKeepsStopInv, EnqueueKeepsStopInv DEF Capture
<1>2. CASE Process
  BY <1>2, HearKeepsStopInv, CloseKeepsStopInv, PutSegmentKeepsStopInv DEF Process
<1>3. CASE Worker
  BY <1>3, TakeSegmentKeepsStopInv, WorkerKeepsStopInv DEF Worker
<1>4. CASE Main
  BY <1>4, MainKeepsStopInv, PutSentinelKeepsStopInv DEF Main
<1>5. CASE UNCHANGED vars
  BY <1>5 DEF vars, StopInv, TypeOK, Recording, SentinelLast, EndsInTurn
<1>6. QED
  BY <1>1, <1>2, <1>3, <1>4, <1>5 DEF Next

LEMMA StopInvHolds == Spec => []StopInv
BY InitStopInv, StopInvStep, PTL DEF Spec

\* Every variable keeps its type, the queues keep their sizes, SpeechBuffer
\* keeps both its limits, and the process thread never has more than a segment
\* and the sentinel to put.
THEOREM AsrTypeOK == Spec => []TypeOK
<1>1. StopInv => TypeOK
  BY DEF StopInv
<1>2. QED
  BY <1>1, StopInvHolds, PTL

\* The order of stop(): when the worker has read the sentinel, nothing that was
\* recorded is left behind in a queue or in the buffer.
THEOREM AsrWorkerEndsLast == Spec => []WorkerEndsLast
<1>1. StopInv => WorkerEndsLast
  BY DEF StopInv, EndsInTurn, WorkerEndsLast, AfterSentinel
<1>2. QED
  BY <1>1, StopInvHolds, PTL

\* A stop in which no wait timed out leaves no thread and no audio behind.
THEOREM AsrCleanStop == Spec => []CleanStop
<1>1. StopInv => CleanStop
  <2> SUFFICES ASSUME StopInv, main = "gone", ~overdue
               PROVE  worker.ended /\ \A s \in 2 .. Len(Stage) : Stage[s] = {}
    BY DEF CleanStop
  <2>1. /\ worker.ended /\ worker.holds = None /\ process.ended /\ process.out = <<>>
        /\ segments = <<>> /\ pcm = <<>> /\ capture.holds = None
        /\ buffer.speech = <<>> /\ buffer.silence = <<>>
    BY SilentTyped DEF StopInv, EndsInTurn, AfterSentinel
  <2>2. Range(<<>>) = {} /\ AudioIn(<<>>) = {}
    BY DEF Range, AudioIn
  <2>3. /\ Len(Stage) = 8 /\ Stage[2] = {} /\ Stage[3] = {} /\ Stage[4] = {}
        /\ Stage[5] = {} /\ Stage[6] = {} /\ Stage[7] = {} /\ Stage[8] = {}
    BY <2>1, <2>2 DEF Stage
  <2>4. QED
    BY <2>1, <2>3
<1>2. QED
  BY <1>1, StopInvHolds, PTL

----------------------------------------------------------------------------
(* The order of the audio, from place to place and at each place.           *)

LEMMA StagesAt ==
  /\ Stage[1] = AudioIn(published)
  /\ Stage[2] = IF worker.holds = None THEN {} ELSE Range(worker.holds)
  /\ Stage[3] = AudioIn(segments) /\ Stage[4] = AudioIn(process.out)
  /\ Stage[5] = Range(buffer.speech) /\ Stage[6] = Range(buffer.silence)
  /\ Stage[7] = Range(pcm) \ {Stop} /\ Stage[8] = {capture.holds} \ {None}
  /\ Stage'[1] = AudioIn(published')
  /\ Stage'[2] = IF worker'.holds = None THEN {} ELSE Range(worker'.holds)
  /\ Stage'[3] = AudioIn(segments') /\ Stage'[4] = AudioIn(process'.out)
  /\ Stage'[5] = Range(buffer'.speech) /\ Stage'[6] = Range(buffer'.silence)
  /\ Stage'[7] = Range(pcm') \ {Stop} /\ Stage'[8] = {capture'.holds} \ {None}
BY DEF Stage, AudioIn

LEMMA StageTyped ==
  ASSUME StopInv
  PROVE  \A s \in 1 .. 8 : Stage[s] \subseteq Chunks /\ Stage[s] \subseteq Int
<1>1. ASSUME NEW q \in Seq(Item) PROVE AudioIn(q) \subseteq Chunks
  BY DEF AudioIn, Item, Range
<1>2. AudioIn(published) \subseteq Chunks
  BY ThreadsTyped DEF AudioIn, Range
<1>3. AudioIn(segments) \subseteq Chunks /\ AudioIn(process.out) \subseteq Chunks
  BY <1>1, ThreadsTyped DEF StopInv, TypeOK
<1>4. /\ Range(buffer.speech) \subseteq Chunks /\ Range(buffer.silence) \subseteq Chunks
      /\ Range(pcm) \ {Stop} \subseteq Chunks
  BY DEF StopInv, TypeOK, Range
<1>5. /\ worker.holds # None => Range(worker.holds) \subseteq Chunks
      /\ {capture.holds} \ {None} \subseteq Chunks
  BY ThreadsTyped DEF Range
<1>6. /\ Stage[1] \subseteq Chunks /\ Stage[2] \subseteq Chunks /\ Stage[3] \subseteq Chunks
      /\ Stage[4] \subseteq Chunks /\ Stage[5] \subseteq Chunks /\ Stage[6] \subseteq Chunks
      /\ Stage[7] \subseteq Chunks /\ Stage[8] \subseteq Chunks
  BY <1>2, <1>3, <1>4, <1>5, StagesAt
<1>7. Chunks \subseteq Int
  BY LimitsAssumption DEF Chunks
<1>8. PICK X : X = Stage
  OBVIOUS
<1>9. \A s \in 1 .. 8 : X[s] \subseteq Chunks
  <2>1. \A s \in 1 .. 8 :
          s = 1 \/ s = 2 \/ s = 3 \/ s = 4 \/ s = 5 \/ s = 6 \/ s = 7 \/ s = 8
    OBVIOUS
  <2>2. QED
    BY <1>6, <1>8, <2>1
<1>10. QED
  BY <1>7, <1>8, <1>9

LEMMA JudgedTyped ==
  ASSUME StopInv
  PROVE  /\ judged \in Seq([chunk : Chunks, speech : BOOLEAN])
         /\ \A i \in DOMAIN judged : judged[i].chunk \in Chunks /\ judged[i].chunk \in Int
<1>1. Chunks \subseteq Int
  BY LimitsAssumption DEF Chunks
<1>2. judged \in Seq([chunk : Chunks, speech : BOOLEAN])
  BY DEF StopInv, TypeOK
<1>3. ASSUME NEW i \in DOMAIN judged PROVE judged[i].chunk \in Chunks
  <2>1. PICK R : R = [chunk : Chunks, speech : BOOLEAN]
    OBVIOUS
  <2>2. judged \in Seq(R)
    BY <1>2, <2>1
  <2>3. judged[i] \in R
    BY <2>2
  <2>4. QED
    BY <2>1, <2>3
<1>4. QED
  BY <1>1, <1>2, <1>3

\* What is handed on from the place t to the place s, past emptied ones, is
\* older than what stays at t: then the places are still in their order.
LEMMA HandOn ==
  ASSUME NEW X, NEW Y, NEW M, NEW s \in 1 .. 8, NEW t \in 1 .. 8, s < t,
         \A u, v \in 1 .. 8 : u < v => Older(X[u], X[v]),
         M \subseteq X[t], Older(M, Y[t]), Y[t] \subseteq X[t],
         \A a \in Y[s] : a \in M \/ \E u \in s .. t - 1 : a \in X[u],
         \A u \in s + 1 .. t - 1 : Y[u] = {},
         \A u \in 1 .. 8 : u < s \/ u > t => Y[u] \subseteq X[u]
  PROVE  \A u, v \in 1 .. 8 : u < v => Older(Y[u], Y[v])
<1> SUFFICES ASSUME NEW u \in 1 .. 8, NEW v \in 1 .. 8, u < v, NEW a \in Y[u], NEW b \in Y[v]
             PROVE  a < b
  BY DEF Older
<1>1. ASSUME NEW w \in 1 .. 8, NEW x \in 1 .. 8, w < x, a \in X[w], b \in X[x]
      PROVE  a < b
  BY <1>1 DEF Older
<1>2. ~(s < u /\ u < t) /\ ~(s < v /\ v < t)
  <2>1. \A w \in 1 .. 8 : s < w /\ w < t => Y[w] = {}
    OBVIOUS
  <2>2. QED
    BY <2>1
<1>3. CASE u # s /\ v # s
  <2>1. a \in X[u] /\ b \in X[v]
    BY <1>2, <1>3
  <2>2. QED
    BY <1>1, <2>1
<1>4. CASE v = s
  <2>1. a \in X[u]
    BY <1>4
  <2>2. PICK x \in 1 .. 8 : s <= x /\ b \in X[x]
    BY <1>4
  <2>3. QED
    BY <1>1, <1>4, <2>1, <2>2
<1>5. CASE u = s
  <2>1. v >= t /\ b \in X[v]
    BY <1>2, <1>5
  <2>2. CASE a \in M /\ v = t
    BY <2>2 DEF Older
  <2>3. CASE a \in M /\ v > t
    BY <1>1, <2>1, <2>3
  <2>4. CASE \E w \in s .. t - 1 : a \in X[w]
    <3>1. PICK w \in 1 .. 8 : w < t /\ a \in X[w]
      BY <2>4
    <3>2. QED
      BY <1>1, <2>1, <3>1
  <2>5. QED
    BY <1>5, <2>1, <2>2, <2>3, <2>4
<1>6. QED
  BY <1>3, <1>4, <1>5

LEMMA MoveKeepsOrder ==
  ASSUME OrderInv, NEW M, NEW s \in 1 .. 8, NEW t \in 1 .. 8, s < t,
         M \subseteq Stage[t], Older(M, Stage'[t]), Stage'[t] \subseteq Stage[t],
         \A a \in Stage'[s] : a \in M \/ \E u \in s .. t - 1 : a \in Stage[u],
         \A u \in s + 1 .. t - 1 : Stage'[u] = {},
         \A u \in 1 .. 8 : u < s \/ u > t => Stage'[u] \subseteq Stage[u],
         sent' = sent, InPlaces',
         \A i \in DOMAIN judged' :
           /\ judged'[i].chunk <= sent
           /\ \A c \in Stage'[7] \cup Stage'[8] : judged'[i].chunk < c
  PROVE  OrderInv'
<1>1. PICK X : X = Stage
  OBVIOUS
<1>2. PICK Y : Y = Stage'
  OBVIOUS
<1>3. /\ \A u, v \in 1 .. 8 : u < v => Older(X[u], X[v])
      /\ \A u \in 1 .. 8 : \A c \in X[u] : c <= sent
  BY <1>1, Zenon DEF OrderInv, StagesInOrder, SentInOrder
<1>4. /\ M \subseteq X[t] /\ Older(M, Y[t]) /\ Y[t] \subseteq X[t]
      /\ \A a \in Y[s] : a \in M \/ \E u \in s .. t - 1 : a \in X[u]
      /\ \A u \in s + 1 .. t - 1 : Y[u] = {}
      /\ \A u \in 1 .. 8 : u < s \/ u > t => Y[u] \subseteq X[u]
  BY <1>1, <1>2, Zenon
<1>5. \A u, v \in 1 .. 8 : u < v => Older(Y[u], Y[v])
  BY <1>3, <1>4, HandOn
<1>6. \A u \in 1 .. 8 : \A c \in Y[u] : c <= sent
  <2>1. ASSUME NEW u \in 1 .. 8, NEW c \in Y[u] PROVE \E v \in 1 .. 8 : c \in X[v]
    <3>1. CASE u < s \/ u > t \/ u = t
      BY <1>4, <2>1, <3>1
    <3>2. CASE u = s
      BY <1>4, <2>1, <3>2
    <3>3. CASE s < u /\ u < t
      BY <1>4, <2>1, <3>3
    <3>4. QED
      BY <3>1, <3>2, <3>3
  <2>2. QED
    BY <1>3, <2>1
<1>7. StagesInOrder'
  BY <1>2, <1>5, Zenon DEF StagesInOrder
<1>8. SentInOrder'
  BY <1>2, <1>6, Zenon DEF SentInOrder
<1>9. QED
  BY <1>7, <1>8 DEF OrderInv

LEMMA NothingHeard ==
  ASSUME OrderInv, judged' = judged,
         Stage'[7] \cup Stage'[8] \subseteq Stage[7] \cup Stage[8]
  PROVE  \A i \in DOMAIN judged' :
           /\ judged'[i].chunk <= sent
           /\ \A c \in Stage'[7] \cup Stage'[8] : judged'[i].chunk < c
BY Zenon DEF OrderInv, SentInOrder

\* The places may also lose what they have.
LEMMA LossKeepsOrder ==
  ASSUME OrderInv, \A u \in 1 .. 8 : Stage'[u] \subseteq Stage[u],
         sent' = sent, judged' = judged, InPlaces'
  PROVE  OrderInv'
<1>1. Stage'[7] \cup Stage'[8] \subseteq Stage[7] \cup Stage[8]
  OBVIOUS
<1>2. \A i \in DOMAIN judged' :
        /\ judged'[i].chunk <= sent
        /\ \A c \in Stage'[7] \cup Stage'[8] : judged'[i].chunk < c
  BY <1>1, NothingHeard
<1>3. PICK X : X = Stage
  OBVIOUS
<1>4. PICK Y : Y = Stage'
  OBVIOUS
<1>5. /\ {} \subseteq X[2] /\ Older({}, Y[2]) /\ Y[2] \subseteq X[2]
      /\ \A a \in Y[1] : a \in {} \/ \E u \in 1 .. 2 - 1 : a \in X[u]
      /\ \A u \in 1 + 1 .. 2 - 1 : Y[u] = {}
      /\ \A u \in 1 .. 8 : u < 1 \/ u > 2 => Y[u] \subseteq X[u]
  BY <1>3, <1>4 DEF Older
<1>6. QED
  BY <1>2, <1>3, <1>4, <1>5, MoveKeepsOrder

LEMMA RangeOfAppend ==
  ASSUME NEW S, NEW q \in Seq(S), NEW e \in S
  PROVE  Range(Append(q, e)) = Range(q) \cup {e}
BY AppendProperties DEF Range

LEMMA RangeOfTail ==
  ASSUME NEW S, NEW q \in Seq(S), q # <<>>
  PROVE  Range(Tail(q)) \subseteq Range(q) /\ Head(q) \in Range(q)
BY HeadTailProperties DEF Range

LEMMA AppendInOrder ==
  ASSUME NEW q \in Seq(Chunks), NEW c \in Chunks, InOrder(q), Older(Range(q), {c})
  PROVE  InOrder(Append(q, c))
<1>1. \A j \in DOMAIN Append(q, c) :
        (j \in DOMAIN q /\ Append(q, c)[j] = q[j]) \/ (j = Len(q) + 1 /\ Append(q, c)[j] = c)
  BY Added
<1>2. \A j \in DOMAIN q : q[j] < c /\ j < Len(q) + 1
  BY DEF Older, Range
<1>3. DOMAIN Append(q, c) \subseteq Nat /\ Len(q) \in Nat
  BY Added
<1>4. QED
  BY <1>1, <1>2, <1>3 DEF InOrder

LEMMA RestInOrder ==
  ASSUME NEW q \in Seq(Chunks), NEW n \in 0 .. Len(q), InOrder(q)
  PROVE  /\ InOrder(SubSeq(q, n + 1, Len(q)))
         /\ Range(SubSeq(q, n + 1, Len(q))) \subseteq Range(q)
<1>1. PICK r \in Seq(Chunks) : r = SubSeq(q, n + 1, Len(q))
  BY Rest
<1>2. \A i \in DOMAIN r : r[i] = q[n + i] /\ n + i \in DOMAIN q
  BY <1>1, Rest
<1>3. \A i, j \in DOMAIN r : i < j => n + i < n + j
  OBVIOUS
<1>4. QED
  BY <1>1, <1>2, <1>3 DEF InOrder, Range

LEMMA RangeOfConcat ==
  ASSUME NEW p \in Seq(Chunks), NEW q \in Seq(Chunks)
  PROVE  Range(p \o q) \subseteq Range(p) \cup Range(q)
<1>1. PICK r \in Seq(Chunks) : r = p \o q
  BY ConcatProperties
<1>2. /\ Len(p) \in Nat /\ Len(q) \in Nat /\ Len(r) = Len(p) + Len(q)
      /\ \A i \in 1 .. Len(p) + Len(q) : r[i] = IF i <= Len(p) THEN p[i] ELSE q[i - Len(p)]
  BY <1>1, ConcatProperties
<1>3. \A i \in DOMAIN r :
        \/ i \in DOMAIN p /\ r[i] = p[i]
        \/ i - Len(p) \in DOMAIN q /\ r[i] = q[i - Len(p)]
  BY <1>2
<1>4. QED
  BY <1>1, <1>3 DEF Range

LEMMA ConcatInOrder ==
  ASSUME NEW p \in Seq(Chunks), NEW q \in Seq(Chunks), InOrder(p), InOrder(q),
         Older(Range(p), Range(q))
  PROVE  InOrder(p \o q)
<1>1. PICK r \in Seq(Chunks) : r = p \o q
  BY ConcatProperties
<1>2. /\ Len(p) \in Nat /\ Len(q) \in Nat /\ Len(r) = Len(p) + Len(q)
      /\ \A i \in 1 .. Len(p) + Len(q) : r[i] = IF i <= Len(p) THEN p[i] ELSE q[i - Len(p)]
  BY <1>1, ConcatProperties
<1>3. \A i \in DOMAIN r :
        \/ i \in DOMAIN p /\ r[i] = p[i]
        \/ i - Len(p) \in DOMAIN q /\ r[i] = q[i - Len(p)] /\ i > Len(p)
  BY <1>2
<1>4. ASSUME NEW i \in DOMAIN r, NEW j \in DOMAIN r, i < j PROVE r[i] < r[j]
  <2>1. i \in Nat /\ j \in Nat
    BY <1>1
  <2>2. CASE j \in DOMAIN p /\ r[j] = p[j]
    <3>1. i \in DOMAIN p /\ r[i] = p[i]
      BY <1>2, <1>3, <1>4, <2>1, <2>2
    <3>2. QED
      BY <1>4, <2>2, <3>1 DEF InOrder
  <2>3. CASE j - Len(p) \in DOMAIN q /\ r[j] = q[j - Len(p)] /\ i \in DOMAIN p /\ r[i] = p[i]
    BY <2>3 DEF Older, Range
  <2>4. CASE /\ j - Len(p) \in DOMAIN q /\ r[j] = q[j - Len(p)]
             /\ i - Len(p) \in DOMAIN q /\ r[i] = q[i - Len(p)]
    <3>1. i - Len(p) < j - Len(p)
      BY <1>2, <1>4, <2>1
    <3>2. QED
      BY <2>4, <3>1 DEF InOrder
  <2>5. QED
    BY <1>3, <2>2, <2>3, <2>4
<1>5. QED
  BY <1>1, <1>4 DEF InOrder

\* What a queue has besides its head, and in which order.
LEMMA QueueTail ==
  ASSUME NEW q \in Seq(Item), q # <<>>, QueueInOrder(q)
  PROVE  /\ QueueInOrder(Tail(q)) /\ AudioIn(Tail(q)) \subseteq AudioIn(q)
         /\ Head(q) # Stop => /\ InOrder(Head(q)) /\ Range(Head(q)) \subseteq AudioIn(q)
                              /\ Older(Range(Head(q)), AudioIn(Tail(q)))
<1>1. PICK r \in Seq(Item), h \in Item :
        /\ r = Tail(q) /\ h = Head(q) /\ h = q[1] /\ 1 \in DOMAIN q
        /\ \A j \in DOMAIN r : j \in Nat \ {0} /\ r[j] = q[j + 1] /\ j + 1 \in DOMAIN q
  <2>1. PICK r \in Seq(Item) : r = Tail(q)
    BY Taken
  <2>2. /\ Head(q) \in Item /\ Head(q) = q[1] /\ 1 \in DOMAIN q
        /\ \A j \in DOMAIN r : r[j] = q[j + 1] /\ j + 1 \in DOMAIN q
    BY <2>1, Taken
  <2>3. \A j \in DOMAIN r : j \in Nat \ {0}
    OBVIOUS
  <2>4. QED
    BY <2>1, <2>2, <2>3
<1>2. QueueInOrder(r)
  <2> SUFFICES ASSUME NEW i \in DOMAIN r, NEW j \in DOMAIN r, r[i] # Stop, r[j] # Stop
               PROVE  InOrder(r[i]) /\ (i < j => Older(Range(r[i]), Range(r[j])))
    BY DEF QueueInOrder
  <2>1. /\ r[i] = q[i + 1] /\ r[j] = q[j + 1] /\ i + 1 \in DOMAIN q /\ j + 1 \in DOMAIN q
        /\ (i < j => i + 1 < j + 1)
    BY <1>1
  <2>2. QED
    BY <2>1 DEF QueueInOrder
<1>3. AudioIn(r) \subseteq AudioIn(q)
  BY <1>1 DEF AudioIn
<1>4. ASSUME h # Stop
      PROVE  InOrder(h) /\ Range(h) \subseteq AudioIn(q) /\ Older(Range(h), AudioIn(r))
  <2>1. InOrder(h) /\ Range(h) \subseteq AudioIn(q)
    BY <1>1, <1>4 DEF AudioIn, QueueInOrder
  <2>2. ASSUME NEW j \in DOMAIN r, r[j] # Stop PROVE Older(Range(h), Range(r[j]))
    <3>1. 1 < j + 1 /\ r[j] = q[j + 1] /\ j + 1 \in DOMAIN q
      BY <1>1
    <3>2. QED
      BY <1>1, <1>4, <2>2, <3>1 DEF QueueInOrder
  <2>3. QED
    BY <2>1, <2>2 DEF AudioIn, Older
<1>5. QED
  BY <1>1, <1>2, <1>3, <1>4

LEMMA QueueAppend ==
  ASSUME NEW q \in Seq(Item), NEW item \in Item, QueueInOrder(q),
         item # Stop => InOrder(item) /\ Older(AudioIn(q), Range(item))
  PROVE  /\ QueueInOrder(Append(q, item))
         /\ AudioIn(Append(q, item)) \subseteq
              AudioIn(q) \cup (IF item = Stop THEN {} ELSE Range(item))
<1>1. PICK r \in Seq(Item) : r = Append(q, item)
  BY Added
<1>2. /\ Len(q) \in Nat
      /\ \A j \in DOMAIN r : j \in Nat /\ ( \/ j \in DOMAIN q /\ j <= Len(q) /\ r[j] = q[j]
                                            \/ j = Len(q) + 1 /\ r[j] = item)
  <2>1. \A j \in DOMAIN r : (j \in DOMAIN q /\ r[j] = q[j]) \/ (j = Len(q) + 1 /\ r[j] = item)
    BY <1>1, Added
  <2>2. \A j \in DOMAIN q : j <= Len(q)
    OBVIOUS
  <2>3. Len(q) \in Nat /\ \A j \in DOMAIN r : j \in Nat
    OBVIOUS
  <2>4. QED
    BY <2>1, <2>2, <2>3
<1>3. \A j \in DOMAIN q : q[j] # Stop => Range(q[j]) \subseteq AudioIn(q)
  BY DEF AudioIn
<1>4. QueueInOrder(r)
  <2> SUFFICES ASSUME NEW i \in DOMAIN r, NEW j \in DOMAIN r, r[i] # Stop, r[j] # Stop
               PROVE  InOrder(r[i]) /\ (i < j => Older(Range(r[i]), Range(r[j])))
    BY DEF QueueInOrder
  <2>1. InOrder(r[i])
    BY <1>2 DEF QueueInOrder
  <2>2. ASSUME i < j PROVE Older(Range(r[i]), Range(r[j]))
    <3>1. i \in DOMAIN q /\ r[i] = q[i]
      BY <1>2, <2>2
    <3>2. CASE j \in DOMAIN q /\ r[j] = q[j]
      BY <2>2, <3>1, <3>2 DEF QueueInOrder
    <3>3. CASE r[j] = item
      BY <1>3, <3>1, <3>3 DEF Older
    <3>4. QED
      BY <1>2, <3>2, <3>3
  <2>3. QED
    BY <2>1, <2>2
<1>5. AudioIn(r) \subseteq AudioIn(q) \cup (IF item = Stop THEN {} ELSE Range(item))
  <2>1. ASSUME NEW j \in DOMAIN r, r[j] # Stop
        PROVE  Range(r[j]) \subseteq AudioIn(q) \cup (IF item = Stop THEN {} ELSE Range(item))
    BY <1>2, <1>3, <2>1
  <2>2. QED
    BY <2>1 DEF AudioIn
<1>6. QED
  BY <1>1, <1>4, <1>5

LEMMA OneInOrder ==
  ASSUME NEW s \in Seq(Chunks), InOrder(s)
  PROVE  QueueInOrder(<<s>>) /\ AudioIn(<<s>>) \subseteq Range(s)
BY DEF QueueInOrder, AudioIn

\* The steps that move no audio.
LEMMA QuietKeepsOrder ==
  ASSUME OrderInv,
         UNCHANGED <<sent, pcm, buffer, process, segments, judged, published>>,
         capture'.holds = capture.holds, worker'.holds = worker.holds
  PROVE  OrderInv'
<1>1. Stage' = Stage
  BY DEF Stage, AudioIn
<1>2. InPlaces'
  BY DEF OrderInv, InPlaces
<1>3. QED
  BY <1>1, <1>2, LossKeepsOrder

LEMMA ReceiveKeepsOrder ==
  ASSUME StopInv, OrderInv, Receive
  PROVE  OrderInv'
<1>1. /\ sent \in Nat /\ sent' = sent + 1 /\ capture'.holds = sent + 1 /\ capture.holds = None
      /\ UNCHANGED <<pcm, buffer, process, segments, worker, judged, published>>
  BY ThreadsTyped DEF Receive, MayCapture
<1>2. PICK X : X = Stage
  OBVIOUS
<1>3. PICK Y : Y = Stage'
  OBVIOUS
<1>4. \A s \in 1 .. 7 : Y[s] = X[s]
  <2>1. /\ Y[1] = X[1] /\ Y[2] = X[2] /\ Y[3] = X[3] /\ Y[4] = X[4]
        /\ Y[5] = X[5] /\ Y[6] = X[6] /\ Y[7] = X[7]
    BY <1>1, <1>2, <1>3, StagesAt
  <2>2. QED
    BY <2>1
<1>5. Y[8] \subseteq {sent + 1} /\ X[8] = {}
  BY <1>1, <1>2, <1>3, StagesAt
<1>6. \A s \in 1 .. 8 : X[s] \subseteq Int /\ \A c \in X[s] : c <= sent
  <2>1. \A s \in 1 .. 8 : \A c \in X[s] : c <= sent
    BY <1>2, Zenon DEF OrderInv, SentInOrder
  <2>2. \A s \in 1 .. 8 : X[s] \subseteq Int
    BY <1>2, StageTyped
  <2>3. QED
    BY <2>1, <2>2
<1>7. StagesInOrder'
  <2>1. \A s, t \in 1 .. 8 : s < t => Older(X[s], X[t])
    BY <1>2, Zenon DEF OrderInv, StagesInOrder
  <2>2. \A s, t \in 1 .. 8 : s < t => Older(Y[s], Y[t])
    <3>1. ASSUME NEW s \in 1 .. 8, NEW t \in 1 .. 8, s < t PROVE Older(Y[s], Y[t])
      <4>1. s \in 1 .. 7 /\ Y[s] = X[s]
        BY <1>4, <3>1
      <4>2. CASE t \in 1 .. 7
        BY <1>4, <2>1, <3>1, <4>1, <4>2
      <4>3. CASE t = 8
        BY <1>1, <1>5, <1>6, <4>1, <4>3 DEF Older
      <4>4. QED
        BY <4>2, <4>3
    <3>2. QED
      BY <3>1
  <2>3. QED
    BY <1>3, <2>2, Zenon DEF StagesInOrder
<1>8. SentInOrder'
  <2>1. \A s \in 1 .. 8 : \A c \in Y[s] : c <= sent'
    BY <1>1, <1>4, <1>5, <1>6
  <2>2. ASSUME NEW i \in DOMAIN judged
        PROVE  /\ judged[i].chunk <= sent'
               /\ \A c \in Y[7] \cup Y[8] : judged[i].chunk < c
    <3>1. judged[i].chunk \in Int /\ judged[i].chunk <= sent
      BY JudgedTyped DEF OrderInv, SentInOrder
    <3>2. \A c \in X[7] : judged[i].chunk < c
      BY <1>2, Zenon DEF OrderInv, SentInOrder
    <3>3. QED
      BY <1>1, <1>4, <1>5, <3>1, <3>2
  <2>3. QED
    BY <1>1, <1>3, <2>1, <2>2, Zenon DEF SentInOrder
<1>9. InPlaces'
  BY <1>1 DEF OrderInv, InPlaces
<1>10. QED
  BY <1>7, <1>8, <1>9 DEF OrderInv

LEMMA EnqueueKeepsOrder ==
  ASSUME StopInv, OrderInv, EnqueuePcm
  PROVE  OrderInv'
<1>1. /\ capture.holds \in Chunks /\ capture'.holds = None
      /\ pcm \in Seq(Chunks \cup {Stop}) /\ capture.holds # Stop
      /\ UNCHANGED <<sent, buffer, process, segments, worker, main, judged, published>>
  <2>1. capture.holds \in Chunks
    BY ThreadsTyped DEF EnqueuePcm
  <2>2. capture.holds # Stop
    BY <2>1, MarksAssumption DEF Chunks
  <2>3. QED
    BY <2>1, <2>2, ThreadsTyped DEF EnqueuePcm, StopInv, TypeOK
<1>2. PICK X : X = Stage
  OBVIOUS
<1>3. PICK Y : Y = Stage'
  OBVIOUS
<1>4. /\ Y[1] = X[1] /\ Y[2] = X[2] /\ Y[3] = X[3] /\ Y[4] = X[4] /\ Y[5] = X[5] /\ Y[6] = X[6]
      /\ Y[8] = {} /\ capture.holds \in X[8] /\ X[7] = Range(pcm) \ {Stop}
      /\ Y[7] = Range(pcm') \ {Stop} /\ X[8] = {capture.holds}
  <2>1. capture.holds # None
    BY DEF EnqueuePcm
  <2>2. QED
    BY <1>1, <1>2, <1>3, <2>1, StagesAt
<1>5. Y[7] \subseteq X[7] \cup X[8]
  <2>1. CASE pcm' = pcm
    BY <1>4, <2>1
  <2>2. CASE pcm' = Append(pcm, capture.holds)
    <3>1. Range(pcm') = Range(pcm) \cup {capture.holds}
      BY <1>1, <2>2, RangeOfAppend
    <3>2. QED
      BY <1>4, <3>1
  <2>3. QED
    BY <2>1, <2>2 DEF EnqueuePcm
<1>6. InPlaces'
  <2>1. \A i, j \in DOMAIN pcm' :
          i < j /\ pcm'[i] # Stop /\ pcm'[j] # Stop => pcm'[i] < pcm'[j]
    <3>1. CASE pcm' = pcm
      BY <3>1 DEF OrderInv, InPlaces
    <3>2. CASE pcm' = Append(pcm, capture.holds)
      <4>1. \A j \in DOMAIN pcm' : \/ j \in DOMAIN pcm /\ pcm'[j] = pcm[j]
                                   \/ j = Len(pcm) + 1 /\ pcm'[j] = capture.holds
        BY <1>1, <3>2, Added
      <4>2. \A j \in DOMAIN pcm : j < Len(pcm) + 1
        BY <1>1
      <4>3. \A j \in DOMAIN pcm : pcm[j] # Stop => pcm[j] < capture.holds
        <5>1. Older(X[7], X[8])
          BY <1>2 DEF OrderInv, StagesInOrder
        <5>2. QED
          BY <1>4, <5>1 DEF Older, Range
      <4>4. DOMAIN pcm \subseteq Nat /\ Len(pcm) \in Nat
        BY <1>1
      <4>5. \A i, j \in DOMAIN pcm :
              i < j /\ pcm[i] # Stop /\ pcm[j] # Stop => pcm[i] < pcm[j]
        BY DEF OrderInv, InPlaces
      <4>6. QED
        BY <4>1, <4>2, <4>3, <4>4, <4>5
    <3>3. QED
      BY <3>1, <3>2 DEF EnqueuePcm
  <2>2. QED
    BY <1>1, <2>1 DEF OrderInv, InPlaces
<1>7. \A i \in DOMAIN judged' :
        /\ judged'[i].chunk <= sent
        /\ \A c \in Stage'[7] \cup Stage'[8] : judged'[i].chunk < c
  BY <1>1, <1>2, <1>3, <1>4, <1>5, NothingHeard
<1>8. /\ X[8] \subseteq X[8] /\ Older(X[8], Y[8]) /\ Y[8] \subseteq X[8]
      /\ \A a \in Y[7] : a \in X[8] \/ \E u \in 7 .. 8 - 1 : a \in X[u]
      /\ \A u \in 7 + 1 .. 8 - 1 : Y[u] = {}
      /\ \A u \in 1 .. 8 : u < 7 \/ u > 8 => Y[u] \subseteq X[u]
  <2>1. \A u \in 1 .. 8 : u < 7 \/ u > 8 =>
          u = 1 \/ u = 2 \/ u = 3 \/ u = 4 \/ u = 5 \/ u = 6
    OBVIOUS
  <2>2. 7 \in 7 .. 8 - 1
    OBVIOUS
  <2>3. QED
    BY <1>4, <1>5, <2>1, <2>2 DEF Older
<1>9. QED
  BY <1>1, <1>2, <1>3, <1>6, <1>7, <1>8, MoveKeepsOrder

LEMMA PcmTail ==
  ASSUME StopInv, OrderInv, pcm # <<>>, pcm' = Tail(pcm)
  PROVE  /\ Range(pcm') \subseteq Range(pcm) /\ Head(pcm) \in Range(pcm)
         /\ \A i, j \in DOMAIN pcm' :
              i < j /\ pcm'[i] # Stop /\ pcm'[j] # Stop => pcm'[i] < pcm'[j]
         /\ Head(pcm) # Stop => Older({Head(pcm)}, Range(pcm') \ {Stop})
<1>1. /\ pcm \in Seq(Chunks \cup {Stop}) /\ pcm' \in Seq(Chunks \cup {Stop})
      /\ Head(pcm) = pcm[1] /\ 1 \in DOMAIN pcm
      /\ \A j \in DOMAIN pcm' : pcm'[j] = pcm[j + 1] /\ j + 1 \in DOMAIN pcm
  BY Taken DEF StopInv, TypeOK
<1>2. \A j \in DOMAIN pcm' : j \in Nat /\ 1 < j + 1
  BY <1>1
<1>3. \A i, j \in DOMAIN pcm : i < j /\ pcm[i] # Stop /\ pcm[j] # Stop => pcm[i] < pcm[j]
  BY DEF OrderInv, InPlaces
<1>4. Range(pcm') \subseteq Range(pcm) /\ Head(pcm) \in Range(pcm)
  BY <1>1 DEF Range
<1>5. ASSUME NEW i \in DOMAIN pcm', NEW j \in DOMAIN pcm', i < j, pcm'[i] # Stop, pcm'[j] # Stop
      PROVE  pcm'[i] < pcm'[j]
  <2>1. i + 1 < j + 1
    BY <1>2, <1>5
  <2>2. QED
    BY <1>1, <1>3, <1>5, <2>1
<1>6. Head(pcm) # Stop => Older({Head(pcm)}, Range(pcm') \ {Stop})
  <2>1. ASSUME Head(pcm) # Stop, NEW j \in DOMAIN pcm', pcm'[j] # Stop PROVE Head(pcm) < pcm'[j]
    BY <1>1, <1>2, <1>3, <2>1
  <2>2. QED
    BY <2>1 DEF Older, Range
<1>7. QED
  BY <1>4, <1>5, <1>6

LEMMA HearKeepsOrder ==
  ASSUME StopInv, OrderInv, Hear
  PROVE  OrderInv'
<1>1. PICK c \in Chunks, speech \in BOOLEAN :
        /\ pcm # <<>> /\ c = Head(pcm) /\ pcm' = Tail(pcm) /\ c # Stop
        /\ judged' = Append(judged, [chunk |-> c, speech |-> speech])
        /\ HeardAs(c, speech)
  <2>1. \A c \in Chunks : c # Stop
    BY MarksAssumption DEF Chunks
  <2>2. QED
    BY <2>1, HearOutcome DEF StopInv
<1>2. /\ process.out = <<>>
      /\ UNCHANGED <<sent, capture, segments, worker, published>>
  BY DEF Hear, MayProcess
<1>3. /\ buffer.speech \in Seq(Chunks) /\ buffer.silence \in Seq(Chunks)
      /\ InOrder(buffer.speech) /\ InOrder(buffer.silence)
  BY DEF StopInv, TypeOK, OrderInv, InPlaces
<1>4. PICK X : X = Stage
  OBVIOUS
<1>5. PICK Y : Y = Stage'
  OBVIOUS
<1>6. /\ Y[1] = X[1] /\ Y[2] = X[2] /\ Y[3] = X[3] /\ Y[8] = X[8] /\ X[4] = {}
      /\ X[5] = Range(buffer.speech) /\ X[6] = Range(buffer.silence)
      /\ Y[5] = Range(buffer'.speech) /\ Y[6] = Range(buffer'.silence)
      /\ Y[4] = AudioIn(process'.out)
  <2>1. AudioIn(<<>>) = {}
    BY DEF AudioIn
  <2>2. QED
    BY <1>2, <1>4, <1>5, <2>1, StagesAt
<1>7. /\ c \in X[7] /\ Y[7] \subseteq X[7] /\ Older({c}, Y[7])
      /\ \A i, j \in DOMAIN pcm' :
           i < j /\ pcm'[i] # Stop /\ pcm'[j] # Stop => pcm'[i] < pcm'[j]
  <2>1. X[7] = Range(pcm) \ {Stop} /\ Y[7] = Range(pcm') \ {Stop}
    BY <1>4, <1>5, StagesAt
  <2>2. QED
    BY <1>1, <2>1, PcmTail
<1>8. Older(X[5], {c}) /\ Older(X[6], {c}) /\ Older(X[5], X[6]) /\ Older({c}, X[8])
  <2>1. Older(X[5], X[6]) /\ Older(X[5], X[7]) /\ Older(X[6], X[7]) /\ Older(X[7], X[8])
    BY <1>4 DEF OrderInv, StagesInOrder
  <2>2. QED
    BY <1>7, <2>1 DEF Older
<1>9. \A i \in DOMAIN judged' :
        /\ judged'[i].chunk <= sent
        /\ \A d \in Stage'[7] \cup Stage'[8] : judged'[i].chunk < d
  <2>1. ASSUME NEW i \in DOMAIN judged
        PROVE  judged[i].chunk <= sent /\ \A d \in X[7] \cup X[8] : judged[i].chunk < d
    BY <1>4, Zenon DEF OrderInv, SentInOrder
  <2>2. c <= sent /\ \A d \in Y[7] \cup Y[8] : c < d
    <3>1. c <= sent
      BY <1>4, <1>7 DEF OrderInv, SentInOrder
    <3>2. QED
      BY <1>6, <1>7, <1>8, <3>1 DEF Older
  <2>3. PICK e \in [chunk : Chunks, speech : BOOLEAN] :
          judged' = Append(judged, e) /\ e.chunk = c
    BY <1>1
  <2>4. PICK R : R = [chunk : Chunks, speech : BOOLEAN]
    OBVIOUS
  <2>5. \A i \in DOMAIN judged' : (i \in DOMAIN judged /\ judged'[i] = judged[i]) \/ judged'[i] = e
    <3>1. judged \in Seq(R) /\ e \in R
      BY <2>4, JudgedTyped
    <3>2. QED
      BY <2>3, <3>1, Added
  <2>6. QED
    BY <1>5, <1>6, <1>7, <2>1, <2>2, <2>3, <2>5
<1>10. ASSUME NEW s \in 4 .. 6,
              \A a \in Y[s] : a = c \/ \E u \in s .. 6 : a \in X[u],
              \A u \in s + 1 .. 6 : Y[u] = {}, \A u \in 4 .. s - 1 : Y[u] \subseteq X[u],
              InOrder(buffer'.speech), InOrder(buffer'.silence), QueueInOrder(process'.out)
       PROVE  OrderInv'
  <2>1. InPlaces'
    BY <1>2, <1>7, <1>10 DEF OrderInv, InPlaces
  <2>2. /\ {c} \subseteq X[7] /\ Older({c}, Y[7]) /\ Y[7] \subseteq X[7]
        /\ \A a \in Y[s] : a \in {c} \/ \E u \in s .. 7 - 1 : a \in X[u]
        /\ \A u \in s + 1 .. 7 - 1 : Y[u] = {}
        /\ \A u \in 1 .. 8 : u < s \/ u > 7 => Y[u] \subseteq X[u]
    <3>1. \A u \in 1 .. 8 : u < s \/ u > 7 => u \in 4 .. s - 1 \/ u = 1 \/ u = 2 \/ u = 3 \/ u = 8
      OBVIOUS
    <3>2. 7 - 1 = 6
      OBVIOUS
    <3>3. QED
      BY <1>6, <1>7, <1>10, <3>1, <3>2
  <2>3. s \in 1 .. 8 /\ 7 \in 1 .. 8 /\ s < 7
    OBVIOUS
  <2>4. QED
    BY <1>2, <1>4, <1>5, <1>9, <2>1, <2>2, <2>3, MoveKeepsOrder
<1>11. /\ 4 \in 4 .. 6 /\ 5 \in 4 .. 6 /\ 6 \in 4 .. 6
       /\ 4 + 1 .. 6 = {5, 6} /\ 5 + 1 .. 6 = {6} /\ 6 + 1 .. 6 = {}
       /\ 4 .. 4 - 1 = {} /\ 4 .. 5 - 1 = {4} /\ 4 .. 6 - 1 = {4, 5}
  OBVIOUS
<1>12. QueueInOrder(<<>>) /\ AudioIn(<<>>) = {} /\ InOrder(<<>>) /\ Range(<<>>) = {}
  BY DEF QueueInOrder, AudioIn, InOrder, Range
<1>13. /\ InOrder(Append(buffer.speech, c)) /\ Append(buffer.speech, c) \in Seq(Chunks)
       /\ Range(Append(buffer.speech, c)) = X[5] \cup {c}
       /\ InOrder(Append(buffer.silence, c)) /\ Append(buffer.silence, c) \in Seq(Chunks)
       /\ Range(Append(buffer.silence, c)) = X[6] \cup {c}
  BY <1>3, <1>6, <1>8, AppendInOrder, RangeOfAppend, Added
<1>14. /\ buffer' = Silent => /\ InOrder(buffer'.speech) /\ InOrder(buffer'.silence)
                              /\ Y[5] = {} /\ Y[6] = {}
       /\ process'.out = <<>> => QueueInOrder(process'.out) /\ Y[4] = {}
  BY <1>6, <1>12, SilentTyped
<1>15. CASE SpeechGrows(c)
  <2>1. buffer'.speech = Append(buffer.speech, c) /\ buffer'.silence = <<>> /\ process'.out = <<>>
    BY <1>15 DEF SpeechGrows
  <2>2. /\ \A a \in Y[5] : a = c \/ a \in X[5]
        /\ Y[6] = {} /\ Y[4] = {} /\ InOrder(buffer'.speech) /\ InOrder(buffer'.silence)
        /\ QueueInOrder(process'.out)
    BY <1>6, <1>12, <1>13, <1>14, <2>1
  <2>3. 5 \in 5 .. 6
    OBVIOUS
  <2>4. QED
    BY <1>10, <1>11, <2>2, <2>3
<1>16. CASE SpeechFull(c)
  <2>1. QueueInOrder(process'.out) /\ Y[4] \subseteq X[5] \cup {c}
    BY <1>6, <1>13, <1>16, OneInOrder DEF SpeechFull
  <2>2. 5 \in 4 .. 6
    OBVIOUS
  <2>3. QED
    BY <1>10, <1>11, <1>14, <1>16, <2>1, <2>2 DEF SpeechFull
<1>17. CASE NotRecording
  <2>1. /\ Y[5] = X[5] /\ Y[6] = X[6] /\ Y[4] = {} /\ QueueInOrder(process'.out)
        /\ InOrder(buffer'.speech) /\ InOrder(buffer'.silence)
    BY <1>3, <1>6, <1>14, <1>17 DEF NotRecording
  <2>2. 6 \in 6 .. 6
    OBVIOUS
  <2>3. QED
    BY <1>10, <1>11, <2>1, <2>2
<1>18. CASE SilenceGrows(c)
  <2>1. /\ buffer'.speech = buffer.speech /\ buffer'.silence = Append(buffer.silence, c)
        /\ process'.out = <<>>
    BY <1>18 DEF SilenceGrows, StopInv, TypeOK
  <2>2. /\ Y[5] = X[5] /\ Y[6] = X[6] \cup {c} /\ Y[4] = {} /\ QueueInOrder(process'.out)
        /\ InOrder(buffer'.speech) /\ InOrder(buffer'.silence)
    BY <1>3, <1>6, <1>13, <1>14, <2>1
  <2>3. 6 \in 6 .. 6
    OBVIOUS
  <2>4. QED
    BY <1>10, <1>11, <2>2, <2>3
<1>19. CASE TooShort
  BY <1>10, <1>11, <1>14, <1>19 DEF TooShort
<1>20. CASE Pause(c)
  <2>1. PICK n \in 0 .. Len(buffer.silence) + 1 :
          process'.out = <<buffer.speech \o
                           SubSeq(Append(buffer.silence, c), n + 1, Len(buffer.silence) + 1)>>
    BY <1>20 DEF Pause
  <2>2. PICK s \in Seq(Chunks) : s = Append(buffer.silence, c)
    BY <1>13
  <2>3. Len(s) = Len(buffer.silence) + 1 /\ n \in 0 .. Len(s) /\ InOrder(s)
        /\ Range(s) = X[6] \cup {c}
    BY <1>3, <1>13, <2>2, Added
  <2>4. PICK k \in Seq(Chunks) : k = SubSeq(s, n + 1, Len(s))
    BY <2>3, Rest
  <2>5. InOrder(k) /\ Range(k) \subseteq Range(s)
    BY <2>3, <2>4, RestInOrder
  <2>6. Older(Range(buffer.speech), Range(k))
    BY <1>6, <1>8, <2>3, <2>5 DEF Older
  <2>7. PICK t \in Seq(Chunks) : t = buffer.speech \o k
    BY <1>3, ConcatProperties
  <2>8. InOrder(t) /\ Range(t) \subseteq X[5] \cup X[6] \cup {c}
    BY <1>3, <1>6, <2>3, <2>5, <2>6, <2>7, ConcatInOrder, RangeOfConcat
  <2>9. process'.out = <<t>>
    BY <2>1, <2>2, <2>3, <2>4, <2>7, Zenon
  <2>10. QueueInOrder(process'.out) /\ Y[4] \subseteq X[5] \cup X[6] \cup {c}
    BY <1>6, <2>8, <2>9, OneInOrder
  <2>11. 5 \in 4 .. 6 /\ 6 \in 4 .. 6
    OBVIOUS
  <2>12. QED
    BY <1>10, <1>11, <1>14, <1>20, <2>10, <2>11 DEF Pause
<1>21. QED
  BY <1>1, <1>15, <1>16, <1>17, <1>18, <1>19, <1>20 DEF HeardAs

LEMMA CloseOutcome ==
  ASSUME StopInv, Close
  PROVE  /\ buffer' = Silent
         /\ \/ process'.out = <<Stop>> /\ buffer = Silent
            \/ process'.out = Append(<<buffer.speech>>, Stop)
<1>1. /\ buffer \in [speech : Seq(Chunks), silence : Seq(Chunks), recording : BOOLEAN]
      /\ Recording /\ process \in [out : Seq(Item), closing : BOOLEAN, ended : BOOLEAN]
  BY DEF StopInv, TypeOK
<1>2. \A l, d : [left |-> l, done |-> d].left = l /\ [left |-> l, done |-> d].done = d
  OBVIOUS
<1>3. \A o : process' = [process EXCEPT !.out = o, !.closing = TRUE] => process'.out = o
  BY <1>1
<1>4. CASE buffer.recording
  <2>1. ForceComplete = [left |-> Silent, done |-> <<buffer.speech>>]
    BY <1>1, <1>4 DEF ForceComplete, Recording
  <2>2. /\ buffer' = Silent
        /\ process' = [process EXCEPT !.out = <<buffer.speech>> \o <<Stop>>, !.closing = TRUE]
    BY <1>2, <2>1, Zenon DEF Close
  <2>3. <<buffer.speech>> \o <<Stop>> = Append(<<buffer.speech>>, Stop)
    <3>1. <<buffer.speech>> \in Seq(Item) /\ Stop \in Item
      BY <1>1 DEF Item
    <3>2. QED
      BY <3>1, AppendIsConcat
  <2>4. QED
    BY <1>3, <2>2, <2>3, Zenon
<1>5. CASE ~buffer.recording
  <2>1. ForceComplete = [left |-> buffer, done |-> <<>>] /\ buffer = Silent
    BY <1>1, <1>5 DEF ForceComplete, Recording
  <2>2. /\ buffer' = Silent
        /\ process' = [process EXCEPT !.out = <<>> \o <<Stop>>, !.closing = TRUE]
    BY <1>2, <2>1, Zenon DEF Close
  <2>3. <<>> \o <<Stop>> = <<Stop>>
    <3>1. <<Stop>> \in Seq(Item)
      BY DEF Item
    <3>2. QED
      BY <3>1, ConcatEmptySeq
  <2>4. QED
    BY <1>3, <2>1, <2>2, <2>3, Zenon
<1>6. QED
  BY <1>4, <1>5

LEMMA CloseKeepsOrder ==
  ASSUME StopInv, OrderInv, Close
  PROVE  OrderInv'
<1>1. /\ pcm # <<>> /\ pcm' = Tail(pcm) /\ process.out = <<>>
      /\ UNCHANGED <<sent, capture, segments, worker, judged, published>>
  BY DEF Close, MayProcess
<1>2. PICK X : X = Stage
  OBVIOUS
<1>3. PICK Y : Y = Stage'
  OBVIOUS
<1>4. buffer.speech \in Seq(Chunks) /\ InOrder(buffer.speech) /\ Stop \in Item /\ buffer.speech # Stop
  BY MarksAreNoText DEF StopInv, TypeOK, OrderInv, InPlaces, Item
<1>5. QueueInOrder(process'.out) /\ AudioIn(process'.out) \subseteq Range(buffer.speech)
  <2>1. CASE process'.out = <<Stop>>
    BY <2>1 DEF QueueInOrder, AudioIn
  <2>2. CASE process'.out = Append(<<buffer.speech>>, Stop)
    <3>1. PICK q \in Seq(Item) : q = <<buffer.speech>>
      <4>1. \A e \in Item : <<e>> \in Seq(Item)
        OBVIOUS
      <4>2. buffer.speech \in Item
        BY <1>4 DEF Item
      <4>3. QED
        BY <4>1, <4>2
    <3>2. QueueInOrder(q) /\ AudioIn(q) \subseteq Range(buffer.speech)
      BY <1>4, <3>1, OneInOrder
    <3>3. QED
      BY <1>4, <2>2, <3>1, <3>2, QueueAppend
  <2>3. QED
    BY <2>1, <2>2, CloseOutcome
<1>6. InOrder(<<>>) /\ Range(<<>>) = {} /\ buffer'.speech = <<>> /\ buffer'.silence = <<>>
  BY CloseOutcome, SilentTyped DEF InOrder, Range
<1>7. /\ Y[1] = X[1] /\ Y[2] = X[2] /\ Y[3] = X[3] /\ Y[8] = X[8]
      /\ Y[4] \subseteq X[5] /\ Y[5] = {} /\ Y[6] = {}
  BY <1>1, <1>2, <1>3, <1>5, <1>6, StagesAt
<1>8. Y[7] \subseteq X[7]
  <2>1. X[7] = Range(pcm) \ {Stop} /\ Y[7] = Range(pcm') \ {Stop}
    BY <1>2, <1>3, StagesAt
  <2>2. QED
    BY <1>1, <2>1, PcmTail
<1>9. InPlaces'
  <2>1. \A i, j \in DOMAIN pcm' :
          i < j /\ pcm'[i] # Stop /\ pcm'[j] # Stop => pcm'[i] < pcm'[j]
    BY <1>1, PcmTail
  <2>2. QED
    BY <1>1, <1>5, <1>6, <2>1 DEF OrderInv, InPlaces
<1>10. \A i \in DOMAIN judged' :
         /\ judged'[i].chunk <= sent
         /\ \A c \in Stage'[7] \cup Stage'[8] : judged'[i].chunk < c
  BY <1>1, <1>2, <1>3, <1>7, <1>8, NothingHeard
<1>11. /\ {} \subseteq X[7] /\ Older({}, Y[7]) /\ Y[7] \subseteq X[7]
       /\ \A a \in Y[4] : a \in {} \/ \E u \in 4 .. 7 - 1 : a \in X[u]
       /\ \A u \in 4 + 1 .. 7 - 1 : Y[u] = {}
       /\ \A u \in 1 .. 8 : u < 4 \/ u > 7 => Y[u] \subseteq X[u]
  <2>1. 5 \in 4 .. 7 - 1 /\ \A u \in 4 + 1 .. 7 - 1 : u = 5 \/ u = 6
    OBVIOUS
  <2>2. \A u \in 1 .. 8 : u < 4 \/ u > 7 => u = 1 \/ u = 2 \/ u = 3 \/ u = 8
    OBVIOUS
  <2>3. QED
    BY <1>7, <1>8, <2>1, <2>2 DEF Older
<1>12. QED
  BY <1>1, <1>2, <1>3, <1>9, <1>10, <1>11, MoveKeepsOrder

LEMMA PutSegmentKeepsOrder ==
  ASSUME StopInv, OrderInv, PutSegment
  PROVE  OrderInv'
<1>1. /\ process.out \in Seq(Item) /\ process.out # <<>> /\ segments \in Seq(Item)
      /\ QueueInOrder(process.out) /\ QueueInOrder(segments)
  BY ThreadsTyped DEF PutSegment, StopInv, TypeOK, OrderInv, InPlaces
<1>2. /\ process'.out = Tail(process.out)
      /\ UNCHANGED <<sent, capture, pcm, buffer, worker, judged, published>>
  BY ThreadsTyped DEF PutSegment
<1>3. PICK item \in Item : item = Head(process.out)
  BY <1>1, Taken
<1>4. PICK M : M = IF item = Stop THEN {} ELSE Range(item)
  OBVIOUS
<1>5. PICK X : X = Stage
  OBVIOUS
<1>6. PICK Y : Y = Stage'
  OBVIOUS
<1>7. /\ Y[1] = X[1] /\ Y[2] = X[2] /\ Y[5] = X[5] /\ Y[6] = X[6] /\ Y[7] = X[7] /\ Y[8] = X[8]
      /\ X[3] = AudioIn(segments) /\ Y[3] = AudioIn(segments')
      /\ X[4] = AudioIn(process.out) /\ Y[4] = AudioIn(process'.out)
  BY <1>2, <1>5, <1>6, StagesAt
<1>8. /\ QueueInOrder(process'.out) /\ Y[4] \subseteq X[4] /\ M \subseteq X[4] /\ Older(M, Y[4])
      /\ item # Stop => InOrder(item)
  <2>1. Older({}, Y[4])
    BY DEF Older
  <2>2. QED
    BY <1>1, <1>2, <1>3, <1>4, <1>7, <2>1, QueueTail
<1>9. QueueInOrder(segments') /\ Y[3] \subseteq X[3] \cup M
  <2>1. CASE segments' = Append(segments, item)
    <3>1. item # Stop => Older(X[3], Range(item))
      <4>1. Older(X[3], X[4])
        BY <1>5 DEF OrderInv, StagesInOrder
      <4>2. QED
        BY <1>4, <1>8, <4>1 DEF Older
    <3>2. QED
      BY <1>1, <1>3, <1>4, <1>7, <1>8, <2>1, <3>1, QueueAppend
  <2>2. CASE segments' = segments
    BY <1>1, <1>7, <2>2
  <2>3. QED
    BY <1>3, <2>1, <2>2 DEF PutSegment
<1>10. InPlaces'
  BY <1>2, <1>8, <1>9 DEF OrderInv, InPlaces
<1>11. \A i \in DOMAIN judged' :
         /\ judged'[i].chunk <= sent
         /\ \A c \in Stage'[7] \cup Stage'[8] : judged'[i].chunk < c
  BY <1>2, <1>5, <1>6, <1>7, NothingHeard
<1>12. /\ M \subseteq X[4] /\ Older(M, Y[4]) /\ Y[4] \subseteq X[4]
       /\ \A a \in Y[3] : a \in M \/ \E u \in 3 .. 4 - 1 : a \in X[u]
       /\ \A u \in 3 + 1 .. 4 - 1 : Y[u] = {}
       /\ \A u \in 1 .. 8 : u < 3 \/ u > 4 => Y[u] \subseteq X[u]
  <2>1. 3 \in 3 .. 4 - 1 /\ 3 + 1 .. 4 - 1 = {}
    OBVIOUS
  <2>2. \A u \in 1 .. 8 : u < 3 \/ u > 4 => u = 1 \/ u = 2 \/ u = 5 \/ u = 6 \/ u = 7 \/ u = 8
    OBVIOUS
  <2>3. QED
    BY <1>7, <1>8, <1>9, <2>1, <2>2
<1>13. QED
  BY <1>2, <1>5, <1>6, <1>10, <1>11, <1>12, MoveKeepsOrder

LEMMA TakeSegmentKeepsOrder ==
  ASSUME StopInv, OrderInv, TakeSegment
  PROVE  OrderInv'
<1>1. /\ segments \in Seq(Item) /\ segments # <<>> /\ QueueInOrder(segments)
      /\ worker.holds = None /\ segments' = Tail(segments)
      /\ UNCHANGED <<sent, capture, pcm, buffer, process, judged, published>>
  BY DEF TakeSegment, MayTake, StopInv, TypeOK, OrderInv, InPlaces
<1>2. PICK item \in Item : item = Head(segments)
  BY <1>1, Taken
<1>3. worker'.holds = IF item = Stop THEN None ELSE item
  BY <1>1, <1>2, ThreadsTyped DEF TakeSegment
<1>4. PICK M : M = IF item = Stop THEN {} ELSE Range(item)
  OBVIOUS
<1>5. PICK X : X = Stage
  OBVIOUS
<1>6. PICK Y : Y = Stage'
  OBVIOUS
<1>7. /\ Y[1] = X[1] /\ Y[4] = X[4] /\ Y[5] = X[5] /\ Y[6] = X[6] /\ Y[7] = X[7] /\ Y[8] = X[8]
      /\ X[3] = AudioIn(segments) /\ Y[3] = AudioIn(segments') /\ Y[2] \subseteq M
  BY <1>1, <1>3, <1>4, <1>5, <1>6, StagesAt
<1>8. /\ QueueInOrder(segments') /\ Y[3] \subseteq X[3] /\ M \subseteq X[3] /\ Older(M, Y[3])
      /\ item # Stop => InOrder(item)
  <2>1. Older({}, Y[3])
    BY DEF Older
  <2>2. QED
    BY <1>1, <1>2, <1>4, <1>7, <2>1, QueueTail
<1>9. InPlaces'
  BY <1>1, <1>3, <1>8 DEF OrderInv, InPlaces
<1>10. \A i \in DOMAIN judged' :
         /\ judged'[i].chunk <= sent
         /\ \A c \in Stage'[7] \cup Stage'[8] : judged'[i].chunk < c
  BY <1>1, <1>5, <1>6, <1>7, NothingHeard
<1>11. /\ M \subseteq X[3] /\ Older(M, Y[3]) /\ Y[3] \subseteq X[3]
       /\ \A a \in Y[2] : a \in M \/ \E u \in 2 .. 3 - 1 : a \in X[u]
       /\ \A u \in 2 + 1 .. 3 - 1 : Y[u] = {}
       /\ \A u \in 1 .. 8 : u < 2 \/ u > 3 => Y[u] \subseteq X[u]
  <2>1. 2 + 1 .. 3 - 1 = {}
    OBVIOUS
  <2>2. \A u \in 1 .. 8 : u < 2 \/ u > 3 => u = 1 \/ u = 4 \/ u = 5 \/ u = 6 \/ u = 7 \/ u = 8
    OBVIOUS
  <2>3. QED
    BY <1>7, <1>8, <2>1, <2>2
<1>12. QED
  BY <1>1, <1>5, <1>6, <1>9, <1>10, <1>11, MoveKeepsOrder

LEMMA WorkerKeepsOrder ==
  ASSUME StopInv, OrderInv, NoText \/ Publish \/ PublishTooLate
  PROVE  OrderInv'
<1>1. /\ worker.holds \in Seq(Chunks) /\ worker.holds # None /\ InOrder(worker.holds)
      /\ worker'.holds = None /\ worker.holds \in Item /\ worker.holds # Stop
      /\ UNCHANGED <<sent, capture, pcm, buffer, process, segments, judged>>
  <2>1. worker.holds # None
    BY DEF NoText, Publish, PublishTooLate
  <2>2. QED
    BY <2>1, ThreadsTyped, MarksAreNoText
      DEF NoText, Publish, PublishTooLate, OrderInv, InPlaces, Item
<1>2. PICK X : X = Stage
  OBVIOUS
<1>3. PICK Y : Y = Stage'
  OBVIOUS
<1>4. /\ Y[3] = X[3] /\ Y[4] = X[4] /\ Y[5] = X[5] /\ Y[6] = X[6] /\ Y[7] = X[7] /\ Y[8] = X[8]
      /\ X[1] = AudioIn(published) /\ Y[1] = AudioIn(published')
      /\ X[2] = Range(worker.holds) /\ Y[2] = {}
  BY <1>1, <1>2, <1>3, StagesAt
<1>5. QueueInOrder(published') /\ Y[1] \subseteq X[1] \cup X[2]
  <2>1. CASE published' = published
    BY <1>4, <2>1 DEF OrderInv, InPlaces
  <2>2. CASE published' = Append(published, worker.holds)
    <3>1. QueueInOrder(published) /\ published \in Seq(Item)
      BY ThreadsTyped DEF OrderInv, InPlaces, Item
    <3>2. Older(X[1], X[2])
      BY <1>2 DEF OrderInv, StagesInOrder
    <3>3. QED
      BY <1>1, <1>4, <2>2, <3>1, <3>2, QueueAppend
  <2>3. QED
    BY <2>1, <2>2 DEF NoText, Publish, PublishTooLate
<1>6. InPlaces'
  BY <1>1, <1>5 DEF OrderInv, InPlaces
<1>7. \A i \in DOMAIN judged' :
        /\ judged'[i].chunk <= sent
        /\ \A c \in Stage'[7] \cup Stage'[8] : judged'[i].chunk < c
  BY <1>1, <1>2, <1>3, <1>4, NothingHeard
<1>8. /\ X[2] \subseteq X[2] /\ Older(X[2], Y[2]) /\ Y[2] \subseteq X[2]
      /\ \A a \in Y[1] : a \in X[2] \/ \E u \in 1 .. 2 - 1 : a \in X[u]
      /\ \A u \in 1 + 1 .. 2 - 1 : Y[u] = {}
      /\ \A u \in 1 .. 8 : u < 1 \/ u > 2 => Y[u] \subseteq X[u]
  <2>1. 1 \in 1 .. 2 - 1 /\ 1 + 1 .. 2 - 1 = {}
    OBVIOUS
  <2>2. \A u \in 1 .. 8 : u < 1 \/ u > 2 => u = 3 \/ u = 4 \/ u = 5 \/ u = 6 \/ u = 7 \/ u = 8
    OBVIOUS
  <2>3. QED
    BY <1>4, <1>5, <2>1, <2>2 DEF Older
<1>9. QED
  BY <1>1, <1>2, <1>3, <1>6, <1>7, <1>8, MoveKeepsOrder

LEMMA PutSentinelKeepsOrder ==
  ASSUME StopInv, OrderInv, PutSentinel
  PROVE  OrderInv'
<1>1. /\ pcm \in Seq(Chunks \cup {Stop})
      /\ UNCHANGED <<sent, capture, buffer, process, segments, worker, judged, published>>
  BY DEF PutSentinel, StopInv, TypeOK
<1>2. Range(pcm') \subseteq Range(pcm) \cup {Stop}
  <2>1. pcm' = pcm \/ pcm' = Append(pcm, Stop)
    BY DEF PutSentinel
  <2>2. Range(Append(pcm, Stop)) = Range(pcm) \cup {Stop}
    BY <1>1, RangeOfAppend
  <2>3. QED
    BY <2>1, <2>2
<1>3. InPlaces'
  <2>1. \A j \in DOMAIN pcm' : pcm'[j] # Stop => j \in DOMAIN pcm /\ pcm'[j] = pcm[j]
    BY <1>1, Added DEF PutSentinel
  <2>2. QED
    BY <1>1, <2>1 DEF OrderInv, InPlaces
<1>4. PICK X : X = Stage
  OBVIOUS
<1>5. PICK Y : Y = Stage'
  OBVIOUS
<1>6. /\ Y[1] = X[1] /\ Y[2] = X[2] /\ Y[3] = X[3] /\ Y[4] = X[4] /\ Y[5] = X[5] /\ Y[6] = X[6]
      /\ Y[8] = X[8] /\ Y[7] \subseteq X[7]
  BY <1>1, <1>2, <1>4, <1>5, StagesAt
<1>7. \A u \in 1 .. 8 : Y[u] \subseteq X[u]
  <2>1. \A u \in 1 .. 8 :
          u = 1 \/ u = 2 \/ u = 3 \/ u = 4 \/ u = 5 \/ u = 6 \/ u = 7 \/ u = 8
    OBVIOUS
  <2>2. QED
    BY <1>6, <2>1
<1>8. QED
  BY <1>1, <1>3, <1>4, <1>5, <1>7, LossKeepsOrder

LEMMA OrderInvStep == StopInv /\ OrderInv /\ [Next]_vars => OrderInv'
<1> SUFFICES ASSUME StopInv, OrderInv, [Next]_vars PROVE OrderInv'
  OBVIOUS
<1>1. CASE Capture
  <2>1. CASE CaptureEnds \/ CaptureFails
    BY <2>1, QuietKeepsOrder, ThreadsTyped DEF CaptureEnds, CaptureFails
  <2>2. QED
    BY <1>1, <2>1, ReceiveKeepsOrder, EnqueueKeepsOrder DEF Capture
<1>2. CASE Process
  BY <1>2, HearKeepsOrder, CloseKeepsOrder, PutSegmentKeepsOrder DEF Process
<1>3. CASE Worker
  BY <1>3, TakeSegmentKeepsOrder, WorkerKeepsOrder DEF Worker
<1>4. CASE Main
  <2>1. CASE Interrupt \/ JoinCapture \/ JoinProcess \/ JoinWorker
    BY <2>1, QuietKeepsOrder, ThreadsTyped DEF Interrupt, JoinCapture, JoinProcess, JoinWorker
  <2>2. QED
    BY <1>4, <2>1, PutSentinelKeepsOrder DEF Main
<1>5. CASE UNCHANGED vars
  BY <1>5, QuietKeepsOrder DEF vars
<1>6. QED
  BY <1>1, <1>2, <1>3, <1>4, <1>5 DEF Next

LEMMA InitOrderInv == Init => OrderInv
<1> SUFFICES ASSUME Init PROVE OrderInv
  OBVIOUS
<1>1. Range(<<>>) = {} /\ AudioIn(<<>>) = {} /\ QueueInOrder(<<>>) /\ InOrder(<<>>)
  BY DEF Range, AudioIn, QueueInOrder, InOrder
<1>2. PICK X : X = Stage
  OBVIOUS
<1>3. /\ X[1] = {} /\ X[2] = {} /\ X[3] = {} /\ X[4] = {} /\ X[5] = {} /\ X[6] = {}
      /\ X[7] = {} /\ X[8] = {}
  BY <1>1, <1>2, SilentTyped, StagesAt DEF Init
<1>4. \A s \in 1 .. 8 : X[s] = {}
  BY <1>3
<1>5. StagesInOrder /\ SentInOrder
  BY <1>2, <1>4 DEF StagesInOrder, Older, SentInOrder, Init
<1>6. InPlaces
  BY <1>1, SilentTyped DEF InPlaces, Init
<1>7. QED
  BY <1>5, <1>6 DEF OrderInv

\* Audio is used once and in the order it was recorded, from the microphone to
\* the published texts, whatever was dropped on its way.
THEOREM AsrUsedOnceInOrder == Spec => []UsedOnceInOrder
<1>1. OrderInv => UsedOnceInOrder
  <2>1. DOMAIN Stage = 1 .. 8
    BY DEF Stage
  <2>2. QED
    BY <2>1 DEF OrderInv, StagesInOrder, InPlaces, UsedOnceInOrder
<1>2. QED
  BY <1>1, InitOrderInv, OrderInvStep, StopInvHolds, PTL DEF Spec

----------------------------------------------------------------------------
(* The utterances.                                                          *)

LEMMA TogetherSmaller ==
  ASSUME NEW H, NEW J, NEW S, NEW T, Together(H, J, S),
         \A i \in H : J[i].chunk \in T => J[i].chunk \in S
  PROVE  Together(H, J, T)
BY DEF Together

\* Chunk c is heard as the m-th; G and K are then what H and J were.
HeardNext(H, J, G, K, c, m) ==
  /\ H \subseteq G
  /\ \A i \in G : (i \in H /\ K[i] = J[i]) \/ (i = m /\ K[i].chunk = c)
  /\ \A i \in G : i <= m
  /\ \A i \in H : J[i].chunk # c

\* What belongs together still does when chunk c, of none of it, is the m-th heard.
LEMMA TogetherStays ==
  ASSUME NEW H, NEW J, NEW G, NEW K, NEW c, NEW m,
         HeardNext(H, J, G, K, c, m),
         NEW S, c \notin S, Together(H, J, S)
  PROVE  Together(G, K, S)
<1> SUFFICES ASSUME NEW i \in G, NEW j \in G, i <= j, K[i].chunk \in S, K[j].chunk \in S
             PROVE  Near(G, i, j)
  BY DEF Together
<1>1. i \in H /\ j \in H /\ K[i] = J[i] /\ K[j] = J[j]
  BY DEF HeardNext
<1>2. Near(H, i, j)
  BY <1>1 DEF Together
<1>3. QED
  BY <1>2 DEF Near, HeardNext

LEMMA EachStays ==
  ASSUME NEW H, NEW J, NEW G, NEW K, NEW c, NEW m,
         HeardNext(H, J, G, K, c, m),
         NEW q, c \notin AudioIn(q), EachTogether(H, J, q)
  PROVE  EachTogether(G, K, q)
<1> SUFFICES ASSUME NEW k \in DOMAIN q, q[k] # Stop
             PROVE  Together(G, K, Range(q[k]))
  BY DEF EachTogether
<1>1. c \notin Range(q[k])
  BY DEF AudioIn
<1>2. Together(H, J, Range(q[k]))
  BY DEF EachTogether
<1>3. QED
  BY <1>1, <1>2, TogetherStays

\* A chunk of speech, the m-th heard, belongs to what goes on to the last speech
\* before it, when less than MaxSilence chunks were heard in between.
LEMMA NearTheNext ==
  ASSUME NEW H, NEW G, NEW m \in Int, H \subseteq G,
         NEW l \in Int, l \in H, m - l <= MaxSilence,
         NEW i \in Int, Near(H, i, l)
  PROVE  Near(G, i, m)
<1> SUFFICES ASSUME NEW first \in i + 1 .. m - MaxSilence
             PROVE  \E k \in first .. first + MaxSilence - 1 : k \in G
  BY DEF Near
<1>1. MaxSilence \in Int /\ MaxSilence > 0 /\ first \in Int /\ first <= l
  BY LimitsAssumption
<1>2. CASE first <= l - MaxSilence
  <2>1. first \in i + 1 .. l - MaxSilence
    BY <1>1, <1>2
  <2>2. QED
    BY <2>1 DEF Near
<1>3. CASE first > l - MaxSilence
  <2>1. l \in first .. first + MaxSilence - 1
    BY <1>1, <1>3
  <2>2. QED
    BY <2>1
<1>4. QED
  BY <1>1, <1>2, <1>3

AllNear(heard, answers, chunks, G, m) ==
  \A i \in heard : answers[i].chunk \in chunks => Near(G, i, m)

LEMMA TogetherWithNext ==
  ASSUME NEW H, NEW J, NEW G, NEW K, NEW c, NEW m \in Int,
         G \subseteq Int, HeardNext(H, J, G, K, c, m),
         NEW S, c \notin S, Together(H, J, S),
         AllNear(H, J, S, G, m)
  PROVE  Together(G, K, S \cup {c}) /\ AllNear(G, K, S \cup {c}, G, m)
<1>1. Near(G, m, m)
  <2>1. MaxSilence \in Int /\ MaxSilence > 0
    BY LimitsAssumption
  <2>2. m + 1 .. m - MaxSilence = {}
    BY <2>1
  <2>3. QED
    BY <2>2 DEF Near
<1>2. ASSUME NEW i \in G, K[i].chunk \in S \cup {c} PROVE Near(G, i, m)
  <2>1. CASE i = m
    BY <1>1, <2>1
  <2>2. CASE i # m
    <3>1. i \in H /\ K[i] = J[i] /\ J[i].chunk # c
      BY <2>2 DEF HeardNext
    <3>2. QED
      BY <1>2, <3>1 DEF AllNear
  <2>3. QED
    BY <2>1, <2>2
<1>3. ASSUME NEW i \in G, NEW j \in G, i <= j,
             K[i].chunk \in S \cup {c}, K[j].chunk \in S \cup {c}
      PROVE  Near(G, i, j)
  <2>1. CASE j = m
    BY <1>2, <1>3, <2>1
  <2>2. CASE j # m
    <3>1. i # m
      <4>1. i \in Int /\ j \in Int /\ j <= m
        BY DEF HeardNext
      <4>2. QED
        BY <1>3, <2>2, <4>1
    <3>2. /\ i \in H /\ j \in H /\ K[i] = J[i] /\ K[j] = J[j]
          /\ J[i].chunk # c /\ J[j].chunk # c
      BY <2>2, <3>1 DEF HeardNext
    <3>3. J[i].chunk \in S /\ J[j].chunk \in S
      BY <1>3, <3>2
    <3>4. QED
      <4>1. Near(H, i, j)
        BY <1>3, <3>2, <3>3 DEF Together
      <4>2. QED
        BY <4>1 DEF Near, HeardNext
  <2>3. QED
    BY <2>1, <2>2
<1>4. QED
  BY <1>2, <1>3 DEF Together, AllNear

LEMMA EachTail ==
  ASSUME NEW H, NEW J, NEW q \in Seq(Item), q # <<>>, EachTogether(H, J, q)
  PROVE  /\ EachTogether(H, J, Tail(q))
         /\ Head(q) # Stop => Together(H, J, Range(Head(q)))
<1>1. PICK r \in Seq(Item) :
        /\ r = Tail(q) /\ Head(q) = q[1] /\ 1 \in DOMAIN q
        /\ \A j \in DOMAIN r : r[j] = q[j + 1] /\ j + 1 \in DOMAIN q
  <2>1. PICK r \in Seq(Item) : r = Tail(q)
    BY Taken
  <2>2. QED
    BY <2>1, Taken
<1>2. QED
  BY <1>1 DEF EachTogether

LEMMA EachAppend ==
  ASSUME NEW H, NEW J, NEW q \in Seq(Item), NEW item \in Item, EachTogether(H, J, q),
         item # Stop => Together(H, J, Range(item))
  PROVE  EachTogether(H, J, Append(q, item))
<1>1. PICK r \in Seq(Item) : r = Append(q, item)
  BY Added
<1>2. \A j \in DOMAIN r : (j \in DOMAIN q /\ r[j] = q[j]) \/ r[j] = item
  BY <1>1, Added
<1>3. EachTogether(H, J, r)
  BY <1>2 DEF EachTogether
<1>4. QED
  BY <1>1, <1>3

LEMMA EachOfOne ==
  ASSUME NEW H, NEW J, NEW s \in Seq(Chunks), Together(H, J, Range(s))
  PROVE  EachTogether(H, J, <<s>>)
BY DEF EachTogether

\* What the chunk adds to what was heard.
LEMMA HeardMore ==
  ASSUME StopInv, OrderInv, NEW c \in Chunks, NEW speech \in BOOLEAN,
         pcm # <<>>, c = Head(pcm), c # Stop,
         judged' = Append(judged, [chunk |-> c, speech |-> speech])
  PROVE  /\ Len(judged) \in Nat /\ Len(judged') = Len(judged) + 1
         /\ SpeechAt \subseteq SpeechAt' /\ SpeechAt' \subseteq 1 .. Len(judged) + 1
         /\ \A i \in SpeechAt : i <= Len(judged) /\ judged[i].chunk # c
         /\ \A i \in SpeechAt' :
              \/ i \in SpeechAt /\ judged'[i] = judged[i]
              \/ i = Len(judged) + 1 /\ judged'[i].chunk = c /\ speech
         /\ speech => Len(judged) + 1 \in SpeechAt'
<1>1. PICK R : R = [chunk : Chunks, speech : BOOLEAN]
  OBVIOUS
<1>2. PICK e \in R : /\ judged' = Append(judged, e) /\ e.chunk = c /\ e.speech = speech
  BY <1>1
<1>3. judged \in Seq(R)
  BY <1>1, JudgedTyped
<1>4. /\ Len(judged) \in Nat /\ Len(judged') = Len(judged) + 1
      /\ DOMAIN judged = 1 .. Len(judged) /\ DOMAIN judged' = 1 .. Len(judged) + 1
      /\ \A i \in DOMAIN judged : i \in DOMAIN judged' /\ judged'[i] = judged[i]
      /\ judged'[Len(judged) + 1] = e
  BY <1>2, <1>3, AppendProperties
<1>5. \A i \in DOMAIN judged' : i \in DOMAIN judged \/ i = Len(judged) + 1
  BY <1>4
<1>6. SpeechAt \subseteq SpeechAt' /\ SpeechAt' \subseteq 1 .. Len(judged) + 1
  BY <1>4 DEF SpeechAt
<1>7. \A i \in SpeechAt : i <= Len(judged) /\ judged[i].chunk # c
  <2>1. c \in Range(pcm)
    BY RangeOfTail DEF StopInv, TypeOK
  <2>2. c \in Stage[7]
    BY <2>1, StagesAt
  <2>3. \A i \in DOMAIN judged : judged[i].chunk < c /\ judged[i].chunk \in Int /\ c \in Int
    <3>1. c \in Int
      BY LimitsAssumption DEF Chunks
    <3>2. QED
      BY <2>2, <3>1, JudgedTyped DEF OrderInv, SentInOrder
  <2>4. \A i \in DOMAIN judged : judged[i].chunk # c
    BY <2>3
  <2>5. QED
    BY <1>4, <2>4 DEF SpeechAt
<1>8. \A i \in SpeechAt' :
        \/ i \in SpeechAt /\ judged'[i] = judged[i]
        \/ i = Len(judged) + 1 /\ judged'[i].chunk = c /\ speech
  BY <1>2, <1>4, <1>5 DEF SpeechAt
<1>9. speech => Len(judged) + 1 \in SpeechAt'
  BY <1>2, <1>4 DEF SpeechAt
<1>10. QED
  BY <1>4, <1>6, <1>7, <1>8, <1>9

LEMMA HearKeepsUtterances ==
  ASSUME StopInv, OrderInv, UtteranceInv, Hear
  PROVE  UtteranceInv'
<1>1. PICK c \in Chunks, speech \in BOOLEAN :
        /\ pcm # <<>> /\ c = Head(pcm) /\ pcm' = Tail(pcm) /\ c # Stop
        /\ judged' = Append(judged, [chunk |-> c, speech |-> speech])
        /\ HeardAs(c, speech)
  <2>1. \A c \in Chunks : c # Stop
    BY MarksAssumption DEF Chunks
  <2>2. QED
    BY <2>1, HearOutcome DEF StopInv
<1>2. UNCHANGED <<segments, worker, published>>
  BY DEF Hear
<1>3. /\ buffer \in [speech : Seq(Chunks), silence : Seq(Chunks), recording : BOOLEAN]
      /\ Len(buffer.silence) \in Nat /\ Len(buffer.silence) < MaxSilence /\ Recording
  BY DEF StopInv, TypeOK
<1>4. PICK H : H = SpeechAt
  OBVIOUS
<1>5. PICK G : G = SpeechAt'
  OBVIOUS
<1>6. PICK J : J = judged
  OBVIOUS
<1>7. PICK K : K = judged'
  OBVIOUS
<1>8. PICK m \in Int : m = Len(judged) + 1
  BY <1>1, HeardMore
<1>9. /\ Len(judged) \in Nat /\ Len(judged') = m
      /\ H \subseteq G /\ G \subseteq Int /\ H \subseteq Int
      /\ HeardNext(H, J, G, K, c, m)
      /\ ~speech => \A i \in G : i \in H /\ K[i] = J[i] /\ K[i].chunk # c
      /\ speech => m \in G
  <2>1. /\ Len(judged) \in Nat /\ Len(judged') = Len(judged) + 1
        /\ H \subseteq G /\ G \subseteq 1 .. Len(judged) + 1
        /\ \A i \in H : i <= Len(judged) /\ J[i].chunk # c
        /\ \A i \in G : \/ i \in H /\ K[i] = J[i]
                        \/ i = Len(judged) + 1 /\ K[i].chunk = c /\ speech
        /\ speech => Len(judged) + 1 \in G
    BY <1>1, <1>4, <1>5, <1>6, <1>7, HeardMore
  <2>2. G \subseteq Int /\ H \subseteq Int
    BY <2>1
  <2>3. HeardNext(H, J, G, K, c, m)
    <3>1. \A i \in G : i <= m
      BY <1>8, <2>1
    <3>2. \A i \in G : (i \in H /\ K[i] = J[i]) \/ (i = m /\ K[i].chunk = c)
      BY <1>8, <2>1
    <3>3. QED
      BY <2>1, <3>1, <3>2 DEF HeardNext
  <2>4. ~speech => \A i \in G : i \in H /\ K[i] = J[i] /\ K[i].chunk # c
    BY <2>1
  <2>5. QED
    BY <1>8, <2>1, <2>2, <2>3, <2>4
<1>10. PICK l \in Int : l = LastSpeech /\ m - l <= MaxSilence /\ l < m
  <2>1. PICK n \in Nat : n = Len(judged)
    BY <1>9
  <2>2. PICK k \in Nat : k = Len(buffer.silence) /\ k < MaxSilence
    BY <1>3
  <2>3. m = n + 1 /\ LastSpeech = n - k /\ MaxSilence \in Int
    BY <1>8, <2>1, <2>2, LimitsAssumption DEF LastSpeech
  <2>4. n - k \in Int /\ m - (n - k) <= MaxSilence /\ n - k < m
    <3>1. n \in Int /\ k \in Int /\ 0 <= k /\ k + 1 <= MaxSilence
      BY <2>2, <2>3
    <3>2. m - (n - k) = k + 1 /\ n - k < n + 1
      BY <2>3, <3>1
    <3>3. QED
      BY <2>3, <3>1, <3>2
  <2>5. QED
    BY <2>3, <2>4
<1>11. /\ c \notin AudioIn(published) /\ c \notin AudioIn(segments)
       /\ worker.holds # None => c \notin Range(worker.holds)
       /\ c \notin Range(buffer.speech) /\ c \notin Range(buffer.silence)
  <2>1. c \in Stage[7]
    <3>1. c \in Range(pcm)
      BY <1>1, RangeOfTail DEF StopInv, TypeOK
    <3>2. QED
      BY <1>1, <3>1, StagesAt
  <2>2. /\ Older(Stage[1], Stage[7]) /\ Older(Stage[2], Stage[7]) /\ Older(Stage[3], Stage[7])
        /\ Older(Stage[5], Stage[7]) /\ Older(Stage[6], Stage[7])
    BY DEF OrderInv, StagesInOrder
  <2>3. ~(c < c)
    BY LimitsAssumption DEF Chunks
  <2>4. /\ c \notin Stage[1] /\ c \notin Stage[2] /\ c \notin Stage[3]
        /\ c \notin Stage[5] /\ c \notin Stage[6]
    BY <2>1, <2>2, <2>3, Zenon DEF Older
  <2>5. QED
    BY <2>4, StagesAt
<1>12. /\ EachTogether(G, K, published') /\ EachTogether(G, K, segments')
       /\ worker'.holds # None => Together(G, K, Range(worker'.holds))
  <2>1. /\ EachTogether(H, J, published) /\ EachTogether(H, J, segments)
        /\ worker.holds # None => Together(H, J, Range(worker.holds))
    BY <1>4, <1>6 DEF UtteranceInv
  <2>2. EachTogether(G, K, published) /\ EachTogether(G, K, segments)
    BY <1>9, <1>11, <2>1, EachStays
  <2>3. worker.holds # None => Together(G, K, Range(worker.holds))
    BY <1>9, <1>11, <2>1, TogetherStays
  <2>4. QED
    BY <1>2, <2>2, <2>3
<1>13. PICK S : S = Range(buffer.speech)
  OBVIOUS
<1>14. /\ Together(H, J, S) /\ c \notin S
       /\ buffer.recording => l \in H
       /\ \A i \in H : /\ J[i].chunk \notin Range(buffer.silence)
                       /\ J[i].chunk \in S => i <= l /\ Near(H, i, l)
  BY <1>4, <1>6, <1>10, <1>11, <1>13, Zenon DEF UtteranceInv, OneInBuffer
<1>15. Together(G, K, S)
  BY <1>9, <1>14, TogetherStays
<1>16. buffer.speech \in Seq(Chunks) /\ Append(buffer.speech, c) \in Seq(Chunks)
       /\ Range(Append(buffer.speech, c)) = S \cup {c}
  BY <1>3, <1>13, RangeOfAppend, Added
<1>17. speech => /\ Together(G, K, S \cup {c})
                 /\ \A i \in G : K[i].chunk \in S \cup {c} => Near(G, i, m)
  <2>1. ASSUME NEW i \in H, J[i].chunk \in S PROVE Near(G, i, m)
    <3>1. buffer.recording
      <4>1. S = {} \/ buffer.recording
        <5>1. Range(<<>>) = {}
          BY DEF Range
        <5>2. QED
          BY <1>3, <1>13, <5>1, SilentTyped DEF Recording
      <4>2. QED
        BY <2>1, <4>1
    <3>2. l \in H /\ Near(H, i, l) /\ i \in Int
      BY <1>9, <1>14, <2>1, <3>1
    <3>3. QED
      BY <1>9, <1>10, <3>2, NearTheNext
  <2>2. /\ HeardNext(H, J, G, K, c, m) /\ Together(H, J, S) /\ c \notin S
        /\ G \subseteq Int /\ m \in Int
    BY <1>9, <1>14
  <2>3. AllNear(H, J, S, G, m)
    BY <2>1 DEF AllNear
  <2>4. Together(G, K, S \cup {c}) /\ AllNear(G, K, S \cup {c}, G, m)
    BY <2>2, <2>3, TogetherWithNext
  <2>5. QED
    BY <2>4 DEF AllNear
<1>18. ASSUME EachTogether(G, K, process'.out), OneInBuffer' PROVE UtteranceInv'
  BY <1>5, <1>7, <1>12, <1>18 DEF UtteranceInv
<1>19. ASSUME Together(G, K, Range(buffer'.speech)), buffer'.recording => LastSpeech' \in G,
              \A i \in G : /\ K[i].chunk \notin Range(buffer'.silence)
                           /\ K[i].chunk \in Range(buffer'.speech) =>
                                i <= LastSpeech' /\ Near(G, i, LastSpeech')
       PROVE  OneInBuffer'
  BY <1>5, <1>7, <1>19, Zenon DEF OneInBuffer
<1>20. buffer' = Silent => OneInBuffer'
  <2>1. HAVE buffer' = Silent
  <2>2. Range(buffer'.speech) = {} /\ Range(buffer'.silence) = {} /\ ~buffer'.recording
    BY <2>1, SilentTyped DEF Range
  <2>3. Together(G, K, Range(buffer'.speech))
    BY <2>2 DEF Together
  <2>4. QED
    BY <1>19, <2>2, <2>3
<1>21. process'.out = <<>> => EachTogether(G, K, process'.out)
  BY DEF EachTogether
<1>22. CASE SpeechGrows(c)
  <2>1. /\ buffer'.speech = Append(buffer.speech, c) /\ buffer'.silence = <<>>
        /\ process'.out = <<>>
    BY <1>22 DEF SpeechGrows
  <2>2. speech
    BY <1>1, <1>22
      DEF HeardAs, SpeechGrows, NotRecording, SilenceGrows, TooShort, Pause, Recording, Silent
  <2>3. LastSpeech' = m
    BY <1>9, <2>1 DEF LastSpeech
  <2>4. Range(buffer'.silence) = {}
    BY <2>1 DEF Range
  <2>5. OneInBuffer'
    <3>1. m \in G /\ \A i \in G : i <= m
      BY <1>9, <2>2 DEF HeardNext
    <3>2. Range(buffer'.speech) = S \cup {c}
      BY <1>16, <2>1
    <3>3. Together(G, K, Range(buffer'.speech))
      BY <1>17, <2>2, <3>2
    <3>4. \A i \in G : /\ K[i].chunk \notin Range(buffer'.silence)
                       /\ K[i].chunk \in Range(buffer'.speech) =>
                            i <= LastSpeech' /\ Near(G, i, LastSpeech')
      BY <1>17, <2>2, <2>3, <2>4, <3>1, <3>2
    <3>5. QED
      BY <1>19, <2>3, <3>1, <3>3, <3>4
  <2>6. QED
    BY <1>18, <1>21, <2>1, <2>5
<1>23. CASE SpeechFull(c) /\ speech
  <2>1. EachTogether(G, K, process'.out)
    BY <1>16, <1>17, <1>23, EachOfOne DEF SpeechFull
  <2>2. QED
    BY <1>18, <1>20, <1>23, <2>1 DEF SpeechFull
<1>24. CASE NotRecording
  BY <1>3, <1>18, <1>20, <1>21, <1>24 DEF NotRecording, Recording
<1>25. CASE SilenceGrows(c) /\ ~speech
  <2>1. /\ buffer'.speech = buffer.speech /\ buffer'.silence = Append(buffer.silence, c)
        /\ buffer'.recording = buffer.recording /\ buffer.recording /\ process'.out = <<>>
    BY <1>3, <1>25 DEF SilenceGrows
  <2>2. /\ Range(buffer'.silence) = Range(buffer.silence) \cup {c}
        /\ Len(buffer'.silence) = Len(buffer.silence) + 1
    BY <1>3, <2>1, RangeOfAppend, Added
  <2>3. LastSpeech' = l
    BY <1>3, <1>8, <1>9, <1>10, <2>2 DEF LastSpeech
  <2>4. l \in G /\ \A i \in Int : Near(H, i, l) => Near(G, i, l)
    BY <1>9, <1>14, <2>1 DEF Near
  <2>5. \A i \in G : /\ K[i].chunk \notin Range(buffer'.silence)
                     /\ K[i].chunk \in S => i <= l /\ Near(G, i, l)
    <3>1. TAKE i \in G
    <3>2. i \in H /\ K[i] = J[i] /\ K[i].chunk # c /\ i \in Int
      BY <1>9, <1>25
    <3>3. QED
      BY <1>14, <2>2, <2>4, <3>2
  <2>6. OneInBuffer'
    BY <1>13, <1>15, <1>19, <2>1, <2>3, <2>4, <2>5
  <2>7. QED
    BY <1>18, <1>21, <2>1, <2>6
<1>26. CASE TooShort
  BY <1>18, <1>20, <1>21, <1>26 DEF TooShort
<1>27. CASE Pause(c) /\ ~speech
  <2>1. PICK n \in 0 .. Len(buffer.silence) + 1 :
          process'.out = <<buffer.speech \o
                           SubSeq(Append(buffer.silence, c), n + 1, Len(buffer.silence) + 1)>>
    BY <1>27 DEF Pause
  <2>2. PICK s \in Seq(Chunks) : s = Append(buffer.silence, c)
    BY <1>3, Added
  <2>3. Len(s) = Len(buffer.silence) + 1 /\ n \in 0 .. Len(s)
        /\ Range(s) = Range(buffer.silence) \cup {c}
    BY <1>3, <2>2, RangeOfAppend, Added
  <2>4. PICK k \in Seq(Chunks) : k = SubSeq(s, n + 1, Len(s))
    BY <2>3, Rest
  <2>5. Range(k) \subseteq Range(buffer.silence) \cup {c}
    <3>1. \A i \in DOMAIN k : k[i] = s[n + i] /\ n + i \in DOMAIN s
      BY <2>3, <2>4, Rest
    <3>2. Range(k) \subseteq Range(s)
      BY <3>1 DEF Range
    <3>3. QED
      BY <2>3, <3>2
  <2>6. PICK t \in Seq(Chunks) : t = buffer.speech \o k
    BY <1>16, ConcatProperties
  <2>7. Range(t) \subseteq S \cup Range(k)
    BY <1>13, <1>16, <2>6, RangeOfConcat
  <2>8. process'.out = <<t>>
    BY <2>1, <2>2, <2>3, <2>4, <2>6, Zenon
  <2>9. \A i \in G : K[i].chunk \in Range(t) => K[i].chunk \in S
    <3>1. TAKE i \in G
    <3>2. i \in H /\ K[i] = J[i] /\ K[i].chunk # c
      BY <1>9, <1>27
    <3>3. K[i].chunk \notin Range(buffer.silence)
      BY <1>14, <3>2
    <3>4. QED
      BY <2>5, <2>7, <3>2, <3>3
  <2>10. Together(G, K, Range(t))
    BY <1>15, <2>9, TogetherSmaller
  <2>11. EachTogether(G, K, process'.out)
    BY <2>8, <2>10, EachOfOne
  <2>12. QED
    BY <1>18, <1>20, <1>27, <2>11 DEF Pause
<1>28. QED
  BY <1>1, <1>22, <1>23, <1>24, <1>25, <1>26, <1>27 DEF HeardAs

\* The steps that hear nothing and leave the buffer alone.
LEMMA HandingOnKeepsUtterances ==
  ASSUME UtteranceInv, judged' = judged, buffer' = buffer,
         EachTogether(SpeechAt, judged, published'),
         EachTogether(SpeechAt, judged, segments'),
         EachTogether(SpeechAt, judged, process'.out),
         worker'.holds # None => Together(SpeechAt, judged, Range(worker'.holds))
  PROVE  UtteranceInv'
<1>1. SpeechAt' = SpeechAt
  BY DEF SpeechAt
<1>2. LastSpeech' = LastSpeech
  BY DEF LastSpeech
<1>3. OneInBuffer'
  BY <1>1, <1>2 DEF UtteranceInv, OneInBuffer
<1>4. QED
  BY <1>1, <1>3 DEF UtteranceInv

LEMMA CloseKeepsUtterances ==
  ASSUME StopInv, UtteranceInv, Close
  PROVE  UtteranceInv'
<1>1. UNCHANGED <<segments, worker, judged, published>>
  BY DEF Close
<1>2. SpeechAt' = SpeechAt
  BY <1>1 DEF SpeechAt
<1>3. OneInBuffer'
  <2>1. /\ Range(buffer'.speech) = {} /\ Range(buffer'.silence) = {} /\ ~buffer'.recording
    BY CloseOutcome, SilentTyped DEF Range
  <2>2. QED
    BY <2>1 DEF OneInBuffer, Together
<1>4. EachTogether(SpeechAt, judged, process'.out)
  <2>1. CASE process'.out = <<Stop>>
    BY <2>1 DEF EachTogether
  <2>2. CASE process'.out = Append(<<buffer.speech>>, Stop)
    <3>1. buffer.speech \in Seq(Chunks) /\ Together(SpeechAt, judged, Range(buffer.speech))
      BY DEF StopInv, TypeOK, UtteranceInv, OneInBuffer
    <3>2. PICK q \in Seq(Item) : q = <<buffer.speech>>
      <4>1. \A e \in Item : <<e>> \in Seq(Item)
        OBVIOUS
      <4>2. buffer.speech \in Item
        BY <3>1 DEF Item
      <4>3. QED
        BY <4>1, <4>2
    <3>3. EachTogether(SpeechAt, judged, q)
      BY <3>1, <3>2, EachOfOne
    <3>4. Stop \in Item
      BY DEF Item
    <3>5. QED
      BY <2>2, <3>2, <3>3, <3>4, EachAppend
  <2>3. QED
    BY <2>1, <2>2, CloseOutcome
<1>5. QED
  BY <1>1, <1>2, <1>3, <1>4 DEF UtteranceInv

LEMMA PutSegmentKeepsUtterances ==
  ASSUME StopInv, UtteranceInv, PutSegment
  PROVE  UtteranceInv'
<1>1. /\ process.out \in Seq(Item) /\ process.out # <<>> /\ segments \in Seq(Item)
      /\ EachTogether(SpeechAt, judged, process.out)
      /\ EachTogether(SpeechAt, judged, segments)
  BY ThreadsTyped DEF PutSegment, StopInv, TypeOK, UtteranceInv
<1>2. /\ process'.out = Tail(process.out)
      /\ UNCHANGED <<buffer, worker, judged, published>>
  BY ThreadsTyped DEF PutSegment
<1>3. PICK item \in Item : item = Head(process.out)
  BY <1>1, Taken
<1>4. /\ EachTogether(SpeechAt, judged, process'.out)
      /\ item # Stop => Together(SpeechAt, judged, Range(item))
  BY <1>1, <1>2, <1>3, EachTail
<1>5. EachTogether(SpeechAt, judged, segments')
  <2>1. segments' = segments \/ segments' = Append(segments, item)
    BY <1>3 DEF PutSegment
  <2>2. QED
    BY <1>1, <1>4, <2>1, EachAppend
<1>6. QED
  BY <1>2, <1>4, <1>5, HandingOnKeepsUtterances DEF UtteranceInv

LEMMA WorkerKeepsUtterances ==
  ASSUME StopInv, UtteranceInv, Worker
  PROVE  UtteranceInv'
<1>1. CASE TakeSegment
  <2>1. /\ segments \in Seq(Item) /\ segments # <<>> /\ segments' = Tail(segments)
        /\ EachTogether(SpeechAt, judged, segments) /\ worker.holds = None
        /\ UNCHANGED <<buffer, process, judged, published>>
    BY <1>1 DEF TakeSegment, MayTake, StopInv, TypeOK, UtteranceInv
  <2>2. worker'.holds = IF Head(segments) = Stop THEN None ELSE Head(segments)
    BY <1>1, <2>1, ThreadsTyped DEF TakeSegment
  <2>3. /\ EachTogether(SpeechAt, judged, segments')
        /\ worker'.holds # None => Together(SpeechAt, judged, Range(worker'.holds))
    BY <2>1, <2>2, EachTail
  <2>4. QED
    BY <2>1, <2>3, HandingOnKeepsUtterances DEF UtteranceInv
<1>2. CASE NoText \/ Publish \/ PublishTooLate
  <2>1. /\ worker.holds \in Item /\ worker'.holds = None
        /\ Together(SpeechAt, judged, Range(worker.holds))
        /\ UNCHANGED <<buffer, process, segments, judged>>
    BY <1>2, ThreadsTyped DEF NoText, Publish, PublishTooLate, Item, UtteranceInv
  <2>2. EachTogether(SpeechAt, judged, published')
    <3>1. EachTogether(SpeechAt, judged, published) /\ published \in Seq(Item)
      BY ThreadsTyped DEF UtteranceInv, Item
    <3>2. published' = published \/ published' = Append(published, worker.holds)
      BY <1>2 DEF NoText, Publish, PublishTooLate
    <3>3. QED
      BY <2>1, <3>1, <3>2, EachAppend
  <2>3. QED
    BY <2>1, <2>2, HandingOnKeepsUtterances DEF UtteranceInv
<1>3. QED
  BY <1>1, <1>2 DEF Worker

LEMMA UtteranceInvStep == StopInv /\ OrderInv /\ UtteranceInv /\ [Next]_vars => UtteranceInv'
<1> SUFFICES ASSUME StopInv, OrderInv, UtteranceInv, [Next]_vars PROVE UtteranceInv'
  OBVIOUS
<1>1. ASSUME UNCHANGED <<buffer, process, segments, worker, judged, published>>
      PROVE  UtteranceInv'
  BY <1>1, HandingOnKeepsUtterances DEF UtteranceInv
<1>2. CASE Capture
  BY <1>1, <1>2 DEF Capture, Receive, EnqueuePcm, CaptureEnds, CaptureFails
<1>3. CASE Process
  BY <1>3, HearKeepsUtterances, CloseKeepsUtterances, PutSegmentKeepsUtterances DEF Process
<1>4. CASE Worker
  BY <1>4, WorkerKeepsUtterances
<1>5. CASE Main
  BY <1>1, <1>5 DEF Main, Interrupt, JoinCapture, PutSentinel, JoinProcess, JoinWorker
<1>6. CASE UNCHANGED vars
  BY <1>1, <1>6 DEF vars
<1>7. QED
  BY <1>2, <1>3, <1>4, <1>5, <1>6 DEF Next

LEMMA InitUtteranceInv == Init => UtteranceInv
<1> SUFFICES ASSUME Init PROVE UtteranceInv
  OBVIOUS
<1>1. SpeechAt = {} /\ buffer.recording = FALSE
  BY SilentTyped DEF Init, SpeechAt
<1>2. QED
  BY <1>1 DEF Init, UtteranceInv, OneInBuffer, Together, EachTogether

\* What is transcribed together was said together: a published text never
\* joins two utterances, however they were queued and whatever was dropped.
THEOREM AsrOneUtterancePerText == Spec => []OneUtterancePerText
<1>1. StopInv /\ UtteranceInv => OneUtterancePerText
  <2> SUFFICES ASSUME StopInv, UtteranceInv, NEW n \in DOMAIN published,
                      NEW i \in SpeechAt, NEW j \in SpeechAt,
                      judged[i].chunk \in Range(published[n]),
                      judged[j].chunk \in Range(published[n])
               PROVE  j \in Utterance(i)
    BY DEF OneUtterancePerText, SaidTogether
  <2>1. published[n] # Stop
    BY ThreadsTyped, MarksAreNoText
  <2>2. Together(SpeechAt, judged, Range(published[n]))
    BY <2>1 DEF UtteranceInv, EachTogether
  <2>3. i \in Int /\ j \in Int
    BY DEF SpeechAt, StopInv, TypeOK
  <2>4. i <= j => Linked(i, j)
    BY <2>2 DEF Together, Near, Linked
  <2>5. ~(i <= j) => Linked(j, i)
    BY <2>2, <2>3 DEF Together, Near, Linked
  <2>6. QED
    BY <2>4, <2>5 DEF Utterance
<1>2. QED
  BY <1>1, InitUtteranceInv, UtteranceInvStep, InitOrderInv, OrderInvStep, StopInvHolds, PTL
    DEF Spec

----------------------------------------------------------------------------
(* What is dropped.                                                         *)

AllOf(places) == UNION {places[s] : s \in 1 .. 8}

\* What is not lost without a log line.
Kept == AllOf(Stage) \cup warned

\* The utterance that chunk e, the e-th of n heard, is the last of is over.
Ends(heard, n, e) ==
  /\ e + MaxSilence <= n
  /\ \A k \in e + 1 .. e + MaxSilence : k \notin heard

Since(heard, s) == {k \in heard : s <= k}

Before(heard, s) == {k \in heard : k < s /\ Near(heard, k, s)}

\* An utterance starts with s, or goes on with it after a cut at MaxSpeech.
CutOrNew(heard, s) ==
  Before(heard, s) = {} \/ Cardinality(Before(heard, s)) >= MaxSpeech

\* The i-th chunk was among the less than MinSpeech from s to e, the end of an
\* utterance, and nothing of it before them is lost.
WasShort(heard, n, answers, kept, i) ==
  \E s, e \in heard :
    /\ s <= i /\ i <= e /\ Near(heard, s, e) /\ Ends(heard, n, e)
    /\ Cardinality({k \in heard : s <= k /\ k <= e}) < MinSpeech
    /\ CutOrNew(heard, s)
    /\ \A k \in Before(heard, s) : answers[k].chunk \in kept

\* The buffer's speech is what was heard since s.
BufferSince(heard, answers, s) ==
  /\ \A k \in heard : s <= k <=> answers[k].chunk \in Range(buffer.speech)
  /\ Cardinality(Since(heard, s)) = Len(buffer.speech)
  /\ CutOrNew(heard, s)

\* The last speech was the end of an utterance, or of a cut.
NothingOpen(heard, n) ==
  \/ heard = {}
  \/ \E e \in heard :
       /\ \A k \in heard : k <= e
       /\ \/ Ends(heard, n, e)
          \/ Cardinality({k \in heard : Near(heard, k, e)}) >= MaxSpeech

DropInv ==
  /\ \A i \in SpeechAt :
       judged[i].chunk \notin Kept => WasShort(SpeechAt, Len(judged), judged, Kept, i)
  /\ buffer.recording => \E s \in SpeechAt : BufferSince(SpeechAt, judged, s)
  /\ ~buffer.recording /\ ~process.closing => NothingOpen(SpeechAt, Len(judged))

\* The chunk heard as the m-th adds m to H, or nothing.
Grows(H, G, m) ==
  /\ H \subseteq G /\ G \subseteq 1 .. m /\ m \in Nat
  /\ \A i \in H : i < m
  /\ \A i \in G : i \in H \/ i = m

LEMMA NearGrows ==
  ASSUME NEW H, NEW G, NEW m, Grows(H, G, m), NEW i \in Int, NEW j \in Int
  PROVE  /\ Near(H, i, j) => Near(G, i, j)
         /\ j <= m /\ Near(G, i, j) => Near(H, i, j)
<1>1. MaxSilence \in Int
  BY LimitsAssumption
<1>2. Near(H, i, j) => Near(G, i, j)
  BY DEF Grows, Near
<1>3. ASSUME j <= m, Near(G, i, j), NEW first \in i + 1 .. j - MaxSilence
      PROVE  \E k \in first .. first + MaxSilence - 1 : k \in H
  <2>1. PICK k \in first .. first + MaxSilence - 1 : k \in G
    BY <1>3 DEF Near
  <2>2. k < m
    BY <1>1, <1>3 DEF Grows
  <2>3. k \in H
    BY <2>1, <2>2 DEF Grows
  <2>4. QED
    BY <2>3
<1>4. QED
  BY <1>2, <1>3 DEF Near

LEMMA NearThrough ==
  ASSUME NEW H, NEW i \in Int, NEW j \in Int, NEW k \in Int, j \in H,
         Near(H, i, j), Near(H, j, k)
  PROVE  Near(H, i, k)
<1> SUFFICES ASSUME NEW first \in i + 1 .. k - MaxSilence
             PROVE  \E n \in first .. first + MaxSilence - 1 : n \in H
  BY DEF Near
<1>1. MaxSilence \in Int /\ MaxSilence > 0
  BY LimitsAssumption
<1>2. CASE first > j
  <2>1. first \in j + 1 .. k - MaxSilence
    BY <1>1, <1>2
  <2>2. QED
    BY <2>1 DEF Near
<1>3. CASE first <= j - MaxSilence
  <2>1. first \in i + 1 .. j - MaxSilence
    BY <1>1, <1>3
  <2>2. QED
    BY <2>1 DEF Near
<1>4. CASE first <= j /\ first > j - MaxSilence
  <2>1. j \in first .. first + MaxSilence - 1
    BY <1>1, <1>4
  <2>2. QED
    BY <2>1
<1>5. QED
  BY <1>1, <1>2, <1>3, <1>4

LEMMA NearInside ==
  ASSUME NEW H, NEW i \in Int, NEW j \in Int, Near(H, i, j),
         NEW a \in Int, NEW b \in Int, i <= a, b <= j
  PROVE  Near(H, a, b)
<1>1. \A first \in a + 1 .. b - MaxSilence : first \in i + 1 .. j - MaxSilence
  BY LimitsAssumption
<1>2. QED
  BY <1>1 DEF Near

LEMMA NearItself ==
  ASSUME NEW H, NEW i \in Int
  PROVE  Near(H, i, i)
<1>1. i + 1 .. i - MaxSilence = {}
  BY LimitsAssumption
<1>2. QED
  BY <1>1 DEF Near

\* Nothing heard after the end of an utterance belongs to it.
LEMMA EndsApart ==
  ASSUME NEW H, NEW n \in Int, NEW e \in Int, Ends(H, n, e),
         NEW i \in Int, i <= e, NEW j \in Int, e < j, j \in H
  PROVE  ~Near(H, i, j)
<1>1. MaxSilence \in Int /\ MaxSilence > 0
  BY LimitsAssumption
<1>2. e + MaxSilence < j
  <2>1. j \notin e + 1 .. e + MaxSilence
    BY DEF Ends
  <2>2. QED
    BY <1>1, <2>1
<1>3. e + 1 \in i + 1 .. j - MaxSilence
  BY <1>1, <1>2
<1>4. \A k \in e + 1 .. e + 1 + MaxSilence - 1 : k \in e + 1 .. e + MaxSilence
  BY <1>1
<1>5. QED
  BY <1>3, <1>4 DEF Near, Ends

LEMMA EndsStay ==
  ASSUME NEW H, NEW G, NEW n \in Nat, Grows(H, G, n + 1), NEW e \in Int, Ends(H, n, e)
  PROVE  Ends(G, n + 1, e)
<1>1. MaxSilence \in Int
  BY LimitsAssumption
<1>2. e + MaxSilence <= n + 1
  BY <1>1 DEF Ends
<1>3. \A k \in e + 1 .. e + MaxSilence : k \notin G
  BY <1>1 DEF Ends, Grows
<1>4. QED
  BY <1>2, <1>3 DEF Ends

LEMMA BeforeStays ==
  ASSUME NEW H, NEW G, NEW m, Grows(H, G, m), NEW s \in H
  PROVE  Before(G, s) = Before(H, s) /\ (CutOrNew(H, s) => CutOrNew(G, s))
<1>1. s \in Int /\ s <= m /\ \A k \in G : k \in Int
  BY DEF Grows
<1>2. \A k \in G : k < s => k \in H
  BY <1>1 DEF Grows
<1>3. \A k \in H : k < s => (Near(H, k, s) <=> Near(G, k, s)) /\ k \in G
  BY <1>1, NearGrows DEF Grows
<1>4. Before(G, s) = Before(H, s)
  BY <1>2, <1>3 DEF Before
<1>5. QED
  BY <1>4 DEF CutOrNew

\* While the pause after l is on, no utterance that is over has to do with l's.
LEMMA OverIsApart ==
  ASSUME NEW H, NEW n \in Int, NEW l \in Int, l \in H, n - l < MaxSilence,
         NEW e \in Int, Ends(H, n, e), NEW k \in Int, k <= e
  PROVE  ~Near(H, k, l)
<1>1. e < l
  BY LimitsAssumption DEF Ends
<1>2. QED
  BY <1>1, EndsApart

\* What was dropped as too short was, when the next chunk is heard too.
LEMMA ShortStays ==
  ASSUME NEW H, NEW G, NEW n \in Nat, Grows(H, G, n + 1),
         NEW J, NEW K, NEW A, NEW B, NEW i \in Int, WasShort(H, n, J, A, i),
         \A k, e \in H : k < e /\ Ends(H, n, e) /\ J[k].chunk \in A => K[k].chunk \in B
  PROVE  WasShort(G, n + 1, K, B, i)
<1>1. PICK s, e \in H :
        /\ s <= i /\ i <= e /\ Near(H, s, e) /\ Ends(H, n, e)
        /\ Cardinality({k \in H : s <= k /\ k <= e}) < MinSpeech
        /\ CutOrNew(H, s)
        /\ \A k \in Before(H, s) : J[k].chunk \in A
  BY DEF WasShort
<1>2. s \in G /\ e \in G /\ s \in Int /\ e \in Int /\ e <= n
  BY DEF Grows
<1>3. Near(G, s, e) /\ Ends(G, n + 1, e)
  BY <1>1, <1>2, NearGrows, EndsStay
<1>4. {k \in G : s <= k /\ k <= e} = {k \in H : s <= k /\ k <= e}
  <2>1. \A k \in G : k <= e => k \in H
    BY <1>2 DEF Grows
  <2>2. H \subseteq G
    BY DEF Grows
  <2>3. QED
    BY <2>1, <2>2
<1>5. Before(G, s) = Before(H, s) /\ CutOrNew(G, s)
  BY <1>1, BeforeStays
<1>6. \A k \in Before(G, s) : K[k].chunk \in B
  <2>1. \A k \in Before(H, s) : k \in H /\ k < e
    BY <1>1, <1>2 DEF Before, Grows
  <2>2. QED
    BY <1>1, <1>5, <2>1
<1>7. QED
  BY <1>1, <1>2, <1>3, <1>4, <1>5, <1>6 DEF WasShort

LEMMA HeardFinite ==
  ASSUME NEW G, NEW m \in Nat, G \subseteq 1 .. m, NEW S, S \subseteq G
  PROVE  IsFiniteSet(S) /\ Cardinality(S) \in Nat
<1>1. IsFiniteSet(1 .. m)
  BY FS_Interval
<1>2. S \in SUBSET (1 .. m)
  OBVIOUS
<1>3. IsFiniteSet(S)
  BY <1>1, <1>2, FS_Subset
<1>4. QED
  BY <1>3, FS_CardinalityType

\* Speech after the buffer was emptied starts an utterance, or goes on after a cut.
LEMMA SpeechAgain ==
  ASSUME NEW H, NEW G, NEW n \in Nat, Grows(H, G, n + 1), n + 1 \in G,
         NothingOpen(H, n)
  PROVE  CutOrNew(G, n + 1)
<1>1. PICK m \in Nat : m = n + 1
  OBVIOUS
<1>2. H \subseteq Int /\ Before(G, m) \subseteq H
  <2>1. \A k \in G : k \in Int /\ (k < m => k \in H)
    BY <1>1 DEF Grows
  <2>2. H \subseteq G
    BY DEF Grows
  <2>3. QED
    BY <2>1, <2>2 DEF Before
<1>3. CASE H = {}
  BY <1>1, <1>2, <1>3 DEF CutOrNew
<1>4. ASSUME NEW e \in H, \A k \in H : k <= e, Near(G, e, m),
             Ends(H, n, e) \/ Cardinality({k \in H : Near(H, k, e)}) >= MaxSpeech
      PROVE  CutOrNew(G, m)
  <2>1. e \in Int /\ e < m /\ e \in G
    BY <1>1 DEF Grows
  <2>2. ~Ends(H, n, e)
    <3>1. Ends(H, n, e) => Ends(G, m, e)
      BY <1>1, <2>1, EndsStay
    <3>2. Ends(G, m, e) => ~Near(G, e, m)
      BY <1>1, <2>1, EndsApart
    <3>3. QED
      BY <1>4, <3>1, <3>2
  <2>3. PICK U : U = {k \in H : Near(H, k, e)}
    OBVIOUS
  <2>4. U \subseteq Before(G, m)
    <3>1. ASSUME NEW k \in U PROVE k \in Before(G, m)
      <4>1. k \in G /\ k \in Int /\ k < m /\ Near(H, k, e)
        BY <1>1, <2>3 DEF Grows
      <4>2. Near(G, k, e)
        BY <1>1, <2>1, <4>1, NearGrows
      <4>3. Near(G, k, m)
        BY <1>4, <2>1, <4>1, <4>2, NearThrough
      <4>4. QED
        BY <4>1, <4>3 DEF Before
    <3>2. QED
      BY <3>1
  <2>5. PICK V : V = Before(G, m)
    OBVIOUS
  <2>6. IsFiniteSet(V) /\ Cardinality(V) \in Nat /\ Cardinality(U) \in Nat
    <3>1. G \subseteq 1 .. m /\ V \subseteq G /\ U \subseteq G
      BY <1>1, <1>2, <2>3, <2>5 DEF Grows
    <3>2. QED
      BY <3>1, HeardFinite
  <2>7. Cardinality(U) <= Cardinality(V)
    BY <2>4, <2>5, <2>6, FS_Subset
  <2>8. Cardinality(V) >= MaxSpeech
    BY <1>4, <2>2, <2>3, <2>6, <2>7, LimitsAssumption
  <2>9. QED
    BY <2>5, <2>8 DEF CutOrNew
<1>5. ASSUME NEW e \in H, \A k \in H : k <= e, ~Near(G, e, m)
      PROVE  CutOrNew(G, m)
  <2>1. ASSUME NEW k \in Before(G, m) PROVE FALSE
    <3>1. k \in H /\ k \in Int /\ k <= e /\ e \in Int /\ Near(G, k, m)
      BY <1>2, <1>5 DEF Before
    <3>2. QED
      BY <1>5, <3>1, NearInside
  <2>2. QED
    BY <2>1 DEF CutOrNew
<1>6. QED
  BY <1>1, <1>3, <1>4, <1>5 DEF NothingOpen

LEMMA KeptAt ==
  /\ Kept = AudioIn(published) \cup (IF worker.holds = None THEN {} ELSE Range(worker.holds))
             \cup AudioIn(segments) \cup AudioIn(process.out)
             \cup Range(buffer.speech) \cup Range(buffer.silence)
             \cup (Range(pcm) \ {Stop}) \cup ({capture.holds} \ {None}) \cup warned
  /\ Kept' = AudioIn(published') \cup (IF worker'.holds = None THEN {} ELSE Range(worker'.holds))
              \cup AudioIn(segments') \cup AudioIn(process'.out)
              \cup Range(buffer'.speech) \cup Range(buffer'.silence)
              \cup (Range(pcm') \ {Stop}) \cup ({capture'.holds} \ {None}) \cup warned'
<1>1. ASSUME NEW X
      PROVE  AllOf(X) =
               X[1] \cup X[2] \cup X[3] \cup X[4] \cup X[5] \cup X[6] \cup X[7] \cup X[8]
  <2>1. \A s \in 1 .. 8 :
          s = 1 \/ s = 2 \/ s = 3 \/ s = 4 \/ s = 5 \/ s = 6 \/ s = 7 \/ s = 8
    OBVIOUS
  <2>2. /\ 1 \in 1 .. 8 /\ 2 \in 1 .. 8 /\ 3 \in 1 .. 8 /\ 4 \in 1 .. 8
        /\ 5 \in 1 .. 8 /\ 6 \in 1 .. 8 /\ 7 \in 1 .. 8 /\ 8 \in 1 .. 8
    OBVIOUS
  <2>3. QED
    BY <2>1, <2>2, ZenonT(30) DEF AllOf
<1>2. PICK X : X = Stage
  OBVIOUS
<1>3. PICK Y : Y = Stage'
  OBVIOUS
<1>4. Kept = AllOf(X) \cup warned
  BY <1>2 DEF Kept
<1>5. Kept' = AllOf(Y) \cup warned'
  BY <1>3 DEF Kept
<1>6. /\ X[1] = AudioIn(published) /\ X[3] = AudioIn(segments) /\ X[4] = AudioIn(process.out)
      /\ X[2] = IF worker.holds = None THEN {} ELSE Range(worker.holds)
      /\ X[5] = Range(buffer.speech) /\ X[6] = Range(buffer.silence)
      /\ X[7] = Range(pcm) \ {Stop} /\ X[8] = {capture.holds} \ {None}
  BY <1>2, StagesAt
<1>7. /\ Y[1] = AudioIn(published') /\ Y[3] = AudioIn(segments') /\ Y[4] = AudioIn(process'.out)
      /\ Y[2] = IF worker'.holds = None THEN {} ELSE Range(worker'.holds)
      /\ Y[5] = Range(buffer'.speech) /\ Y[6] = Range(buffer'.silence)
      /\ Y[7] = Range(pcm') \ {Stop} /\ Y[8] = {capture'.holds} \ {None}
  BY <1>3, StagesAt
<1>8. Kept = X[1] \cup X[2] \cup X[3] \cup X[4] \cup X[5] \cup X[6] \cup X[7] \cup X[8] \cup warned
  BY <1>1, <1>4
<1>9. Kept' = Y[1] \cup Y[2] \cup Y[3] \cup Y[4] \cup Y[5] \cup Y[6] \cup Y[7] \cup Y[8]
               \cup warned'
  BY <1>1, <1>5
<1>10. Kept = AudioIn(published) \cup (IF worker.holds = None THEN {} ELSE Range(worker.holds))
             \cup AudioIn(segments) \cup AudioIn(process.out)
             \cup Range(buffer.speech) \cup Range(buffer.silence)
             \cup (Range(pcm) \ {Stop}) \cup ({capture.holds} \ {None}) \cup warned
  BY <1>6, <1>8
<1>11. Kept' = AudioIn(published') \cup (IF worker'.holds = None THEN {} ELSE Range(worker'.holds))
              \cup AudioIn(segments') \cup AudioIn(process'.out)
              \cup Range(buffer'.speech) \cup Range(buffer'.silence)
              \cup (Range(pcm') \ {Stop}) \cup ({capture'.holds} \ {None}) \cup warned'
  BY <1>7, <1>9
<1>12. QED
  BY <1>10, <1>11

\* Steps that hear nothing, leave the buffer alone, and lose nothing unreported.
LEMMA MoveKeepsDrop ==
  ASSUME DropInv, judged' = judged, buffer' = buffer, process'.closing = process.closing,
         Kept \subseteq Kept'
  PROVE  DropInv'
<1>1. PICK H : H = SpeechAt
  OBVIOUS
<1>2. PICK A : A = Kept
  OBVIOUS
<1>3. PICK B : B = Kept'
  OBVIOUS
<1>4. SpeechAt' = H
  BY <1>1 DEF SpeechAt
<1>5. A \subseteq B
  BY <1>2, <1>3
<1>6. ASSUME NEW i \in H, judged[i].chunk \notin B
      PROVE  WasShort(H, Len(judged), judged, B, i)
  <2>1. WasShort(H, Len(judged), judged, A, i)
    BY <1>1, <1>2, <1>5, <1>6 DEF DropInv
  <2>2. QED
    BY <1>5, <2>1 DEF WasShort
<1>7. buffer.recording => \E s \in H : BufferSince(H, judged, s)
  BY <1>1 DEF DropInv
<1>8. QED
  BY <1>1, <1>3, <1>4, <1>6, <1>7 DEF DropInv, BufferSince

LEMMA InitDropInv == Init => DropInv
<1> SUFFICES ASSUME Init PROVE DropInv
  OBVIOUS
<1>1. SpeechAt = {} /\ buffer.recording = FALSE
  BY SilentTyped DEF Init, SpeechAt
<1>2. QED
  BY <1>1 DEF DropInv, NothingOpen

\* Nothing of a queue is lost by an append, and nothing but the head by a take.
LEMMA AppendLosesNothing ==
  ASSUME NEW q \in Seq(Item), NEW item \in Item
  PROVE  /\ AudioIn(q) \subseteq AudioIn(Append(q, item))
         /\ item # Stop => Range(item) \subseteq AudioIn(Append(q, item))
<1>1. PICK r \in Seq(Item) : r = Append(q, item)
  BY Added
<1>2. /\ \A j \in DOMAIN q : j \in DOMAIN r /\ r[j] = q[j]
      /\ Len(q) + 1 \in DOMAIN r /\ r[Len(q) + 1] = item
  BY <1>1, AppendProperties
<1>3. QED
  BY <1>1, <1>2 DEF AudioIn

LEMMA TakeLosesTheHead ==
  ASSUME NEW S, NEW q \in Seq(S), q # <<>>
  PROVE  \A j \in DOMAIN q :
           q[j] = Head(q) \/ \E k \in DOMAIN Tail(q) : Tail(q)[k] = q[j]
<1>1. PICK r \in Seq(S) : r = Tail(q)
  BY Taken
<1>2. /\ Head(q) = q[1] /\ Len(r) = Len(q) - 1 /\ Len(q) \in Nat
      /\ \A k \in DOMAIN r : r[k] = q[k + 1]
  BY <1>1, Taken
<1>3. ASSUME NEW j \in DOMAIN q, j # 1 PROVE \E k \in DOMAIN r : r[k] = q[j]
  <2>1. j - 1 \in DOMAIN r /\ j - 1 + 1 = j
    BY <1>2, <1>3
  <2>2. QED
    BY <1>2, <2>1
<1>4. QED
  BY <1>1, <1>2, <1>3

LEMMA QueueLosesTheHead ==
  ASSUME NEW q \in Seq(Item), q # <<>>
  PROVE  AudioIn(q) \subseteq AudioIn(Tail(q)) \cup (IF Head(q) = Stop THEN {} ELSE Range(Head(q)))
<1>1. \A j \in DOMAIN q :
        q[j] = Head(q) \/ \E k \in DOMAIN Tail(q) : Tail(q)[k] = q[j]
  BY TakeLosesTheHead
<1>2. QED
  BY <1>1 DEF AudioIn

LEMMA RangeLosesTheHead ==
  ASSUME NEW S, NEW q \in Seq(S), q # <<>>
  PROVE  Range(q) \subseteq Range(Tail(q)) \cup {Head(q)}
BY TakeLosesTheHead DEF Range

LEMMA CaptureKeepsDrop ==
  ASSUME StopInv, DropInv, Receive \/ EnqueuePcm
  PROVE  DropInv'
<1>1. /\ UNCHANGED <<buffer, process, segments, worker, judged, published>>
      /\ capture \in [running : BOOLEAN, holds : Chunks \cup {None}, ended : BOOLEAN]
      /\ pcm \in Seq(Chunks \cup {Stop})
  BY DEF Receive, EnqueuePcm, StopInv, TypeOK
<1>2. CASE Receive
  <2>1. capture.holds = None /\ pcm' = pcm /\ warned' = warned
    BY <1>2 DEF Receive, MayCapture
  <2>2. Kept \subseteq Kept'
    BY <1>1, <2>1, KeptAt
  <2>3. QED
    BY <1>1, <2>2, MoveKeepsDrop
<1>3. CASE EnqueuePcm
  <2>1. PICK c \in Chunks : c = capture.holds
    BY <1>1, <1>3 DEF EnqueuePcm
  <2>2. c # Stop
    BY MarksAssumption DEF Chunks
  <2>3. \/ Range(pcm') = Range(pcm) \cup {c} /\ warned' = warned
        \/ pcm' = pcm /\ warned' = warned \cup {c}
    <3>1. Range(Append(pcm, c)) = Range(pcm) \cup {c}
      <4>1. c \in Chunks \cup {Stop}
        OBVIOUS
      <4>2. QED
        BY <1>1, <4>1, RangeOfAppend
    <3>2. QED
      BY <1>3, <2>1, <3>1 DEF EnqueuePcm
  <2>4. Kept \subseteq Kept'
    BY <1>1, <2>1, <2>2, <2>3, KeptAt
  <2>5. QED
    BY <1>1, <2>4, MoveKeepsDrop
<1>4. QED
  BY <1>2, <1>3

LEMMA PutSegmentKeepsDrop ==
  ASSUME StopInv, DropInv, PutSegment
  PROVE  DropInv'
<1>1. /\ process.out \in Seq(Item) /\ process.out # <<>> /\ segments \in Seq(Item)
      /\ process'.out = Tail(process.out) /\ process'.closing = process.closing
      /\ UNCHANGED <<capture, pcm, buffer, worker, judged, published>>
  BY ThreadsTyped DEF PutSegment, StopInv, TypeOK
<1>2. PICK item \in Item : item = Head(process.out)
  BY <1>1, Taken
<1>3. AudioIn(process.out) \subseteq
        AudioIn(process'.out) \cup (IF item = Stop THEN {} ELSE Range(item))
  BY <1>1, <1>2, QueueLosesTheHead
<1>4. /\ AudioIn(segments) \subseteq AudioIn(segments') /\ warned \subseteq warned'
      /\ item # Stop => Range(item) \subseteq AudioIn(segments') \cup warned'
  <2>1. \/ segments' = Append(segments, item) /\ warned' = warned
        \/ /\ segments' = segments
           /\ warned' = IF item = Stop THEN warned ELSE warned \cup Range(item)
    BY <1>2 DEF PutSegment
  <2>2. QED
    BY <1>1, <2>1, AppendLosesNothing
<1>5. Kept \subseteq Kept'
  BY <1>1, <1>3, <1>4, KeptAt
<1>6. QED
  BY <1>1, <1>5, MoveKeepsDrop

LEMMA WorkerKeepsDrop ==
  ASSUME StopInv, DropInv, Worker
  PROVE  DropInv'
<1>1. UNCHANGED <<capture, pcm, buffer, process, judged>>
  BY DEF Worker, TakeSegment, NoText, Publish, PublishTooLate
<1>2. CASE TakeSegment
  <2>1. /\ segments \in Seq(Item) /\ segments # <<>> /\ segments' = Tail(segments)
        /\ worker.holds = None /\ published' = published /\ warned' = warned
    BY <1>2 DEF TakeSegment, MayTake, StopInv, TypeOK
  <2>2. worker'.holds = IF Head(segments) = Stop THEN None ELSE Head(segments)
    BY <1>2, <2>1, ThreadsTyped DEF TakeSegment
  <2>3. Head(segments) # Stop => Head(segments) # None
    <3>1. Head(segments) \in Item
      BY <2>1, Taken
    <3>2. QED
      BY <3>1, MarksAreNoText DEF Item
  <2>4. AudioIn(segments) \subseteq
          AudioIn(segments') \cup (IF worker'.holds = None THEN {} ELSE Range(worker'.holds))
    BY <2>1, <2>2, <2>3, QueueLosesTheHead
  <2>5. Kept \subseteq Kept'
    BY <1>1, <2>1, <2>4, KeptAt
  <2>6. QED
    BY <1>1, <2>5, MoveKeepsDrop
<1>3. CASE NoText \/ Publish \/ PublishTooLate
  <2>1. /\ worker.holds \in Item /\ worker.holds # None /\ worker.holds # Stop
        /\ worker'.holds = None /\ segments' = segments
    BY <1>3, ThreadsTyped, MarksAreNoText DEF NoText, Publish, PublishTooLate, Item
  <2>2. /\ AudioIn(published) \subseteq AudioIn(published') /\ warned \subseteq warned'
        /\ Range(worker.holds) \subseteq AudioIn(published') \cup warned'
    <3>1. published \in Seq(Item)
      BY ThreadsTyped DEF Item
    <3>2. \/ published' = Append(published, worker.holds) /\ warned' = warned
          \/ published' = published /\ warned' = warned \cup Range(worker.holds)
      BY <1>3 DEF NoText, Publish, PublishTooLate
    <3>3. QED
      BY <2>1, <3>1, <3>2, AppendLosesNothing
  <2>3. Kept \subseteq Kept'
    BY <1>1, <2>1, <2>2, KeptAt
  <2>4. QED
    BY <1>1, <2>3, MoveKeepsDrop
<1>4. QED
  BY <1>2, <1>3 DEF Worker

LEMMA SentinelKeepsDrop ==
  ASSUME StopInv, DropInv, PutSentinel
  PROVE  DropInv'
<1>1. /\ UNCHANGED <<capture, buffer, process, segments, worker, judged, warned, published>>
      /\ pcm \in Seq(Chunks \cup {Stop})
  BY DEF PutSentinel, StopInv, TypeOK
<1>2. Range(pcm) \subseteq Range(pcm')
  <2>1. Range(Append(pcm, Stop)) = Range(pcm) \cup {Stop}
    <3>1. Stop \in Chunks \cup {Stop}
      OBVIOUS
    <3>2. QED
      BY <1>1, <3>1, RangeOfAppend
  <2>2. QED
    BY <2>1 DEF PutSentinel
<1>3. Kept \subseteq Kept'
  BY <1>1, <1>2, KeptAt
<1>4. QED
  BY <1>1, <1>3, MoveKeepsDrop

\* Of the buffer only the pause after the last speech is left out.
LEMMA CloseKeepsDrop ==
  ASSUME StopInv, UtteranceInv, DropInv, Close
  PROVE  DropInv'
<1>1. /\ pcm # <<>> /\ Head(pcm) = Stop /\ pcm' = Tail(pcm) /\ process.out = <<>>
      /\ UNCHANGED <<capture, segments, worker, judged, warned, published>>
      /\ pcm \in Seq(Chunks \cup {Stop}) /\ buffer.speech \in Seq(Chunks)
  BY DEF Close, MayProcess, StopInv, TypeOK
<1>2. buffer' = Silent /\ ~buffer'.recording /\ process'.closing
  BY CloseOutcome, SilentTyped, ThreadsTyped DEF Close
<1>3. Range(buffer.speech) \subseteq AudioIn(process'.out)
  <2>1. CASE buffer = Silent
    BY <2>1, SilentTyped DEF Range
  <2>2. CASE process'.out = Append(<<buffer.speech>>, Stop)
    <3>1. PICK q \in Seq(Item) : q = <<buffer.speech>>
      <4>1. \A e \in Item : <<e>> \in Seq(Item)
        OBVIOUS
      <4>2. buffer.speech \in Item
        BY <1>1 DEF Item
      <4>3. QED
        BY <4>1, <4>2
    <3>2. Range(buffer.speech) \subseteq AudioIn(q)
      <4>1. buffer.speech # Stop
        BY <1>1, MarksAreNoText
      <4>2. QED
        BY <3>1, <4>1 DEF AudioIn
    <3>3. Stop \in Item
      BY DEF Item
    <3>4. QED
      BY <2>2, <3>1, <3>2, <3>3, AppendLosesNothing
  <2>3. QED
    BY <2>1, <2>2, CloseOutcome
<1>4. Range(pcm) \ {Stop} \subseteq Range(pcm') \ {Stop}
  BY <1>1, RangeLosesTheHead
<1>5. PICK H : H = SpeechAt
  OBVIOUS
<1>6. PICK A : A = Kept
  OBVIOUS
<1>7. PICK B : B = Kept'
  OBVIOUS
<1>8. A \subseteq B \cup Range(buffer.silence)
  <2>1. AudioIn(process.out) = {}
    BY <1>1 DEF AudioIn
  <2>2. QED
    BY <1>1, <1>3, <1>4, <1>6, <1>7, <2>1, KeptAt
<1>9. \A i \in H : judged[i].chunk \in A => judged[i].chunk \in B
  BY <1>5, <1>8 DEF UtteranceInv, OneInBuffer
<1>10. ASSUME NEW i \in H, judged[i].chunk \notin B
       PROVE  WasShort(H, Len(judged), judged, B, i)
  <2>1. WasShort(H, Len(judged), judged, A, i)
    BY <1>5, <1>6, <1>9, <1>10 DEF DropInv
  <2>2. QED
    BY <1>9, <2>1 DEF WasShort, Before
<1>11. SpeechAt' = H
  BY <1>1, <1>5 DEF SpeechAt
<1>12. QED
  BY <1>1, <1>2, <1>7, <1>10, <1>11 DEF DropInv

\* The numbers of the chunks that were heard as speech, before c is and after.
LEMMA HeardGrows ==
  ASSUME StopInv, OrderInv, NEW c \in Chunks, NEW speech \in BOOLEAN,
         pcm # <<>>, c = Head(pcm), c # Stop,
         judged' = Append(judged, [chunk |-> c, speech |-> speech])
  PROVE  /\ Len(judged) \in Nat /\ Len(judged') = Len(judged) + 1
         /\ Grows(SpeechAt, SpeechAt', Len(judged) + 1)
         /\ speech => Len(judged) + 1 \in SpeechAt'
         /\ ~speech => SpeechAt' = SpeechAt
         /\ \A i \in SpeechAt : judged'[i] = judged[i] /\ judged[i].chunk # c
         /\ \A i \in SpeechAt' : i \in SpeechAt \/ judged'[i].chunk = c
<1>1. PICK H : H = SpeechAt
  OBVIOUS
<1>2. PICK G : G = SpeechAt'
  OBVIOUS
<1>3. PICK n \in Nat : n = Len(judged)
  BY HeardMore
<1>4. /\ Len(judged') = n + 1 /\ H \subseteq G /\ G \subseteq 1 .. n + 1
      /\ \A i \in H : i <= n /\ judged[i].chunk # c
      /\ \A i \in G : \/ i \in H /\ judged'[i] = judged[i]
                      \/ i = n + 1 /\ judged'[i].chunk = c /\ speech
      /\ speech => n + 1 \in G
  BY <1>1, <1>2, <1>3, HeardMore
<1>5. \A i \in H : i < n + 1
  BY <1>4
<1>6. Grows(H, G, n + 1)
  BY <1>4, <1>5 DEF Grows
<1>7. \A i \in H : judged'[i] = judged[i]
  BY <1>4, <1>5
<1>8. QED
  BY <1>1, <1>2, <1>3, <1>4, <1>6, <1>7

\* The speech heard since s is the buffer's and chunk c.
SpeechSinceIs(heard, answers, c, s) ==
  /\ \A k \in heard : s <= k <=> answers[k].chunk \in Range(buffer.speech) \cup {c}
  /\ Cardinality(Since(heard, s)) = Len(buffer.speech) + 1
  /\ CutOrNew(heard, s)

\* A chunk of speech, the last of G, goes on with the buffer's or starts anew.
LEMMA SpeechSince ==
  ASSUME NEW H, NEW G, NEW n \in Nat, Grows(H, G, n + 1), n + 1 \in G,
         NEW J, NEW K, NEW c, K[n + 1].chunk = c,
         \A i \in H : K[i] = J[i] /\ J[i].chunk # c,
         Len(buffer.speech) \in Nat, Recording,
         buffer.recording => \E s \in H : BufferSince(H, J, s),
         ~buffer.recording => NothingOpen(H, n)
  PROVE  \E s \in G : SpeechSinceIs(G, K, c, s)
<1>1. PICK m \in Nat : m = n + 1
  OBVIOUS
<1>2. /\ H \subseteq G /\ G \subseteq 1 .. m /\ m \in G /\ K[m].chunk = c /\ G \subseteq Int
      /\ \A i \in H : i < m
      /\ \A i \in G : i \in H \/ i = m
  <2>1. Grows(H, G, m) /\ m \in G /\ K[m].chunk = c
    BY <1>1
  <2>2. 1 .. m \subseteq Int
    OBVIOUS
  <2>3. QED
    BY <2>1, <2>2 DEF Grows
<1>3. CASE buffer.recording
  <2>1. PICK s \in H : BufferSince(H, J, s)
    BY <1>3
  <2>2. s \in G /\ s < m /\ s \in Int
    BY <1>2
  <2>3. CutOrNew(G, s)
    BY <1>1, <2>1, BeforeStays DEF BufferSince
  <2>4. \A k \in G : s <= k <=> K[k].chunk \in Range(buffer.speech) \cup {c}
    <3>1. TAKE k \in G
    <3>2. CASE k = m
      BY <1>2, <2>2, <3>2
    <3>3. CASE k \in H
      BY <2>1, <3>3 DEF BufferSince
    <3>4. QED
      BY <1>2, <3>2, <3>3
  <2>5. PICK U : U = Since(H, s)
    OBVIOUS
  <2>6. Since(G, s) = U \cup {m} /\ m \notin U
    <3>1. \A k \in G : s <= k <=> (k \in H /\ s <= k) \/ k = m
      BY <1>2, <2>2
    <3>2. m \notin H
      BY <1>2
    <3>3. QED
      BY <1>2, <2>5, <3>1, <3>2 DEF Since
  <2>7. IsFiniteSet(U) /\ Cardinality(U) = Len(buffer.speech)
    <3>1. U \subseteq G
      BY <1>2, <2>5 DEF Since
    <3>2. QED
      BY <1>2, <2>1, <2>5, <3>1, HeardFinite DEF BufferSince
  <2>8. Cardinality(Since(G, s)) = Len(buffer.speech) + 1
    BY <2>6, <2>7, FS_AddElement
  <2>9. QED
    BY <2>2, <2>3, <2>4, <2>8 DEF SpeechSinceIs
<1>4. CASE ~buffer.recording
  <2>1. CutOrNew(G, m)
    BY <1>1, <1>4, SpeechAgain
  <2>2. Len(buffer.speech) = 0 /\ Range(buffer.speech) = {}
    BY <1>4, SilentTyped DEF Recording, Range
  <2>3. \A k \in G : m <= k <=> k = m
    BY <1>2
  <2>4. \A k \in G : m <= k <=> K[k].chunk \in Range(buffer.speech) \cup {c}
    <3>1. \A k \in H : k # m
      BY <1>2
    <3>2. \A k \in G : K[k].chunk = c <=> k = m
      BY <1>2, <3>1
    <3>3. QED
      BY <2>2, <2>3, <3>2
  <2>5. Cardinality(Since(G, m)) = 1
    <3>1. Since(G, m) = {m}
      BY <1>2, <2>3 DEF Since
    <3>2. QED
      BY <3>1, FS_Singleton
  <2>6. QED
    BY <1>2, <2>1, <2>2, <2>4, <2>5 DEF SpeechSinceIs
<1>5. QED
  BY <1>3, <1>4

LEMMA HearKeepsDrop ==
  ASSUME StopInv, OrderInv, UtteranceInv, DropInv, Hear
  PROVE  DropInv'
<1>1. PICK c \in Chunks, speech \in BOOLEAN :
        /\ pcm # <<>> /\ c = Head(pcm) /\ pcm' = Tail(pcm) /\ c # Stop
        /\ judged' = Append(judged, [chunk |-> c, speech |-> speech])
        /\ HeardAs(c, speech)
  <2>1. \A c \in Chunks : c # Stop
    BY MarksAssumption DEF Chunks
  <2>2. QED
    BY <2>1, HearOutcome DEF StopInv
<1>2. /\ process.out = <<>> /\ ~process.closing /\ ~process'.closing
      /\ UNCHANGED <<capture, segments, worker, warned, published>>
  BY <1>1, ThreadsTyped DEF Hear, MayProcess, StopInv, EndsInTurn
<1>3. /\ buffer \in [speech : Seq(Chunks), silence : Seq(Chunks), recording : BOOLEAN]
      /\ Len(buffer.speech) \in Nat /\ Len(buffer.silence) \in Nat
      /\ Len(buffer.silence) < MaxSilence /\ Recording
      /\ pcm \in Seq(Chunks \cup {Stop})
  BY DEF StopInv, TypeOK
<1>4. PICK H : H = SpeechAt
  OBVIOUS
<1>5. PICK G : G = SpeechAt'
  OBVIOUS
<1>6. PICK J : J = judged
  OBVIOUS
<1>7. PICK K : K = judged'
  OBVIOUS
<1>8. PICK n \in Nat : n = Len(judged)
  BY <1>1, HeardGrows
<1>9. /\ Len(judged') = n + 1 /\ Grows(H, G, n + 1)
      /\ speech => n + 1 \in G
      /\ ~speech => G = H
      /\ \A i \in H : K[i] = J[i] /\ J[i].chunk # c
      /\ \A i \in G : i \in H \/ K[i].chunk = c
  BY <1>1, <1>4, <1>5, <1>6, <1>7, <1>8, HeardGrows
<1>10. H \subseteq Int /\ G \subseteq Int /\ H \subseteq G /\ n + 1 \notin H
       /\ (\A i \in H : i <= n) /\ \A i \in G : i <= n + 1
  <2>1. \A i \in H : i \in Int /\ i <= n
    BY <1>9 DEF Grows
  <2>2. \A i \in G : i \in Int /\ i <= n + 1
    BY <1>9 DEF Grows
  <2>3. QED
    BY <1>9, <2>1, <2>2 DEF Grows
<1>11. PICK S : S = Range(buffer.speech)
  OBVIOUS
<1>12. PICK Q : Q = Range(buffer.silence)
  OBVIOUS
<1>13. PICK A : A = Kept
  OBVIOUS
<1>14. PICK B : B = Kept'
  OBVIOUS
<1>15. PICK l \in Int : l = n - Len(buffer.silence) /\ n - l < MaxSilence
  <2>1. PICK k \in Nat : k = Len(buffer.silence) /\ k < MaxSilence
    BY <1>3
  <2>2. n - k \in Int /\ n - (n - k) = k
    OBVIOUS
  <2>3. QED
    BY <2>1, <2>2
<1>16. /\ buffer.recording => l \in H
       /\ \A i \in H : /\ J[i].chunk \notin Q
                       /\ J[i].chunk \in S => i <= l /\ Near(H, i, l)
  <2>1. l = LastSpeech
    BY <1>8, <1>15 DEF LastSpeech
  <2>2. QED
    BY <1>4, <1>6, <1>11, <1>12, <2>1, Zenon DEF UtteranceInv, OneInBuffer
<1>17. /\ \A i \in H : J[i].chunk \notin A => WasShort(H, n, J, A, i)
       /\ buffer.recording => \E s \in H : BufferSince(H, J, s)
       /\ ~buffer.recording => NothingOpen(H, n)
  BY <1>2, <1>4, <1>6, <1>8, <1>13 DEF DropInv
<1>18. /\ AudioIn(process'.out) \subseteq B
       /\ Range(buffer'.speech) \subseteq B
       /\ A \subseteq B \cup S \cup Q \cup {c}
  <2>1. AudioIn(process.out) = {}
    BY <1>2 DEF AudioIn
  <2>2. Range(pcm) \subseteq Range(pcm') \cup {c}
    BY <1>1, <1>3, RangeLosesTheHead
  <2>3. QED
    BY <1>2, <1>11, <1>12, <1>13, <1>14, <2>1, <2>2, KeptAt
<1>19. \A i \in H : J[i].chunk \in A => K[i].chunk \in B \/ J[i].chunk \in S
  BY <1>9, <1>16, <1>18
\* No utterance that is over has to do with the buffer's.
<1>20. ASSUME NEW k \in H, NEW e \in H, k <= e, Ends(H, n, e), buffer.recording
       PROVE  ~Near(H, k, l)
  BY <1>10, <1>15, <1>16, <1>20, OverIsApart
<1>21. \A k, e \in H : k < e /\ Ends(H, n, e) /\ J[k].chunk \in A => K[k].chunk \in B
  <2>1. SUFFICES ASSUME NEW k \in H, NEW e \in H, k < e, Ends(H, n, e), J[k].chunk \in A
                 PROVE  J[k].chunk \notin S
    BY <1>19
  <2>2. ASSUME J[k].chunk \in S PROVE FALSE
    <3>1. buffer.recording
      <4>1. Range(<<>>) = {}
        BY DEF Range
      <4>2. QED
        BY <1>3, <1>11, <2>2, <4>1, SilentTyped DEF Recording
    <3>2. Near(H, k, l) /\ k <= e
      BY <1>10, <1>16, <2>1, <2>2
    <3>3. QED
      BY <1>20, <2>1, <3>1, <3>2
  <2>3. QED
    BY <2>2
<1>22. ASSUME NEW i \in H, J[i].chunk \notin A PROVE WasShort(G, n + 1, K, B, i)
  <2>1. WasShort(H, n, J, A, i) /\ i \in Int
    BY <1>10, <1>17, <1>22
  <2>2. QED
    BY <1>9, <1>21, <2>1, ShortStays
<1>23. ASSUME S \subseteq B, speech => c \in B, NEW i \in G, K[i].chunk \notin B
       PROVE  WasShort(G, n + 1, K, B, i)
  <2>1. i \in H
    BY <1>9, <1>23
  <2>2. J[i].chunk \notin A
    BY <1>9, <1>19, <1>23, <2>1
  <2>3. QED
    BY <1>22, <2>1, <2>2
<1>24. ASSUME \A i \in G : K[i].chunk \notin B => WasShort(G, n + 1, K, B, i),
              buffer'.recording =>
                \E s \in G : /\ \A k \in G : s <= k <=> K[k].chunk \in Range(buffer'.speech)
                            /\ Cardinality(Since(G, s)) = Len(buffer'.speech)
                            /\ CutOrNew(G, s),
              ~buffer'.recording => NothingOpen(G, n + 1)
       PROVE  DropInv'
  BY <1>5, <1>7, <1>9, <1>14, <1>24 DEF DropInv, BufferSince
<1>25. ~Silent.recording
  BY SilentTyped
<1>26. buffer.speech \in Seq(Chunks) /\ Append(buffer.speech, c) \in Seq(Chunks)
       /\ Range(Append(buffer.speech, c)) = S \cup {c}
       /\ Len(Append(buffer.speech, c)) = Len(buffer.speech) + 1
  BY <1>3, <1>11, RangeOfAppend, Added
<1>27. ASSUME speech
       PROVE  \E s \in G :
                /\ \A k \in G : s <= k <=> K[k].chunk \in S \cup {c}
                /\ Cardinality(Since(G, s)) = Len(buffer.speech) + 1
                /\ CutOrNew(G, s)
  <2>1. n + 1 \in G /\ K[n + 1].chunk = c
    BY <1>9, <1>10, <1>27
  <2>2. \A i \in H : K[i] = J[i] /\ J[i].chunk # c
    BY <1>9
  <2>3. /\ buffer.recording => \E s \in H : BufferSince(H, J, s)
        /\ ~buffer.recording => NothingOpen(H, n)
    BY <1>17
  <2>4. Grows(H, G, n + 1) /\ Len(buffer.speech) \in Nat /\ Recording
    BY <1>3, <1>9
  <2>5. \E s \in G : SpeechSinceIs(G, K, c, s)
    BY <2>1, <2>2, <2>3, <2>4, SpeechSince
  <2>6. QED
    BY <1>11, <2>5 DEF SpeechSinceIs
<1>28. CASE SpeechGrows(c) /\ speech
  <2>1. /\ buffer'.speech = Append(buffer.speech, c) /\ buffer'.recording
        /\ Range(buffer'.speech) = S \cup {c}
        /\ Len(buffer'.speech) = Len(buffer.speech) + 1
    BY <1>26, <1>28 DEF SpeechGrows
  <2>2. S \subseteq B /\ c \in B
    BY <1>18, <2>1
  <2>3. QED
    BY <1>23, <1>24, <1>27, <1>28, <2>1, <2>2
<1>29. CASE SpeechFull(c) /\ speech
  <2>1. PICK t \in Seq(Chunks) : t = Append(buffer.speech, c)
    BY <1>26
  <2>2. /\ process'.out = <<t>> /\ ~buffer'.recording /\ Range(t) = S \cup {c}
        /\ Len(buffer.speech) + 1 >= MaxSpeech
    BY <1>25, <1>26, <1>29, <2>1 DEF SpeechFull
  <2>3. S \subseteq B /\ c \in B
    <3>1. t # Stop
      BY MarksAreNoText
    <3>2. Range(t) \subseteq AudioIn(<<t>>)
      BY <3>1 DEF AudioIn
    <3>3. QED
      BY <1>18, <2>2, <3>2
  <2>4. Together(G, K, S \cup {c})
    <3>1. EachTogether(G, K, process'.out)
      <4>1. UtteranceInv'
        BY HearKeepsUtterances
      <4>2. QED
        BY <1>5, <1>7, <4>1 DEF UtteranceInv
    <3>2. t # Stop
      BY MarksAreNoText
    <3>3. EachTogether(G, K, <<t>>) /\ 1 \in DOMAIN <<t>> /\ <<t>>[1] = t
      BY <2>2, <3>1
    <3>4. Together(G, K, Range(t))
      BY <3>2, <3>3, Zenon DEF EachTogether
    <3>5. QED
      BY <2>2, <3>4
  <2>5. PICK s \in G :
          /\ \A k \in G : s <= k <=> K[k].chunk \in S \cup {c}
          /\ Cardinality(Since(G, s)) = Len(buffer.speech) + 1
    BY <1>27, <1>29
  <2>6. n + 1 \in G /\ K[n + 1].chunk = c
    BY <1>9, <1>10, <1>29
  <2>7. PICK U : U = Since(G, s)
    OBVIOUS
  <2>8. PICK V : V = {k \in G : Near(G, k, n + 1)}
    OBVIOUS
  <2>9. U \subseteq V
    <3>1. ASSUME NEW k \in G, s <= k PROVE Near(G, k, n + 1)
      <4>1. K[k].chunk \in S \cup {c} /\ K[n + 1].chunk \in S \cup {c} /\ k <= n + 1
        BY <1>10, <2>5, <2>6, <3>1
      <4>2. QED
        BY <2>4, <2>6, <4>1 DEF Together
    <3>2. QED
      BY <2>7, <2>8, <3>1 DEF Since
  <2>10. Cardinality(V) >= MaxSpeech
    <3>1. V \subseteq G /\ G \subseteq 1 .. n + 1 /\ n + 1 \in Nat
      BY <1>9, <2>8 DEF Grows
    <3>2. IsFiniteSet(V) /\ Cardinality(V) \in Nat
      BY <3>1, HeardFinite
    <3>3. Cardinality(U) <= Cardinality(V)
      BY <2>9, <3>2, FS_Subset
    <3>4. QED
      BY <1>3, <2>2, <2>5, <2>7, <3>2, <3>3, LimitsAssumption
  <2>11. NothingOpen(G, n + 1)
    BY <1>10, <2>6, <2>8, <2>10 DEF NothingOpen
  <2>12. QED
    BY <1>23, <1>24, <2>2, <2>3, <2>11
<1>30. CASE NotRecording /\ ~speech
  <2>1. ~buffer.recording /\ buffer' = buffer /\ S \subseteq B /\ G = H
    BY <1>9, <1>11, <1>18, <1>30 DEF NotRecording
  <2>2. NothingOpen(G, n + 1)
    <3>1. NothingOpen(H, n)
      BY <1>17, <2>1
    <3>2. \A e \in H : Ends(H, n, e) => Ends(G, n + 1, e)
      BY <1>9, <1>10, EndsStay
    <3>3. QED
      BY <2>1, <3>1, <3>2 DEF NothingOpen
  <2>3. QED
    BY <1>23, <1>24, <1>30, <2>1, <2>2
<1>31. CASE SilenceGrows(c) /\ ~speech
  <2>1. /\ buffer'.speech = buffer.speech /\ buffer.recording /\ buffer'.recording
        /\ S \subseteq B /\ G = H
    BY <1>3, <1>9, <1>11, <1>18, <1>31 DEF SilenceGrows
  <2>2. PICK s \in H : BufferSince(H, J, s)
    BY <1>17, <2>1
  <2>3. \A k \in G : s <= k <=> K[k].chunk \in Range(buffer'.speech)
    BY <1>9, <2>1, <2>2 DEF BufferSince
  <2>4. Cardinality(Since(G, s)) = Len(buffer'.speech) /\ CutOrNew(G, s)
    BY <2>1, <2>2 DEF BufferSince
  <2>5. QED
    BY <1>23, <1>24, <1>31, <2>1, <2>3, <2>4
\* The pause is over, and the last speech the end of its utterance.
<1>32. ASSUME PauseOver, ~speech, buffer' = Silent
       PROVE  /\ l \in H /\ G = H /\ Ends(G, n + 1, l) /\ NothingOpen(G, n + 1)
              /\ \E s \in H : BufferSince(H, J, s) /\ s <= l
              /\ \A k \in H : k <= l
  <2>1. buffer.recording /\ Len(buffer.silence) + 1 >= MaxSilence
    BY <1>32 DEF PauseOver
  <2>2. PICK s \in H : BufferSince(H, J, s)
    BY <1>17, <2>1
  <2>3. l \in H /\ s \in Int /\ s <= l
    <3>1. J[s].chunk \in S
      BY <1>10, <1>11, <2>2 DEF BufferSince
    <3>2. QED
      BY <1>10, <1>16, <2>1, <3>1
  <2>4. \A k \in H : k <= l
    <3>1. ASSUME NEW k \in H, l < k PROVE FALSE
      <4>1. s <= k /\ k \in Int
        BY <1>10, <2>3, <3>1
      <4>2. J[k].chunk \in S
        BY <1>11, <2>2, <4>1 DEF BufferSince
      <4>3. QED
        BY <1>16, <3>1, <4>1, <4>2
    <3>2. QED
      BY <1>10, <3>1
  <2>5. Ends(H, n + 1, l)
    <3>1. l + MaxSilence <= n + 1
      BY <1>3, <1>15, <2>1, LimitsAssumption
    <3>2. \A k \in l + 1 .. l + MaxSilence : k \notin H
      BY <2>4, LimitsAssumption
    <3>3. QED
      BY <3>1, <3>2 DEF Ends
  <2>6. G = H
    BY <1>9, <1>32
  <2>7. QED
    BY <2>2, <2>3, <2>4, <2>5, <2>6 DEF NothingOpen
<1>33. CASE Pause(c) /\ ~speech
  <2>1. S \subseteq B
    <3>1. PICK k \in 0 .. Len(buffer.silence) + 1 :
            process'.out = <<buffer.speech \o
                             SubSeq(Append(buffer.silence, c), k + 1, Len(buffer.silence) + 1)>>
      BY <1>33 DEF Pause
    <3>2. PICK p \in Seq(Chunks) : p = Append(buffer.silence, c) /\ Len(p) = Len(buffer.silence) + 1
      <4>1. buffer.silence \in Seq(Chunks)
        BY <1>3
      <4>2. QED
        BY <4>1, Added
    <3>3. PICK q \in Seq(Chunks) : q = SubSeq(p, k + 1, Len(p))
      BY <3>2, Rest
    <3>4. PICK t \in Seq(Chunks) : t = buffer.speech \o q
      BY <1>26, ConcatProperties
    <3>5. process'.out = <<t>>
      BY <3>1, <3>2, <3>3, <3>4, Zenon
    <3>6. S \subseteq Range(t)
      <4>1. \A i \in DOMAIN buffer.speech : i \in DOMAIN t /\ t[i] = buffer.speech[i]
        BY <1>26, <3>4, ConcatProperties
      <4>2. QED
        BY <1>11, <4>1 DEF Range
    <3>7. Range(t) \subseteq AudioIn(<<t>>)
      <4>1. t # Stop
        BY MarksAreNoText
      <4>2. QED
        BY <4>1 DEF AudioIn
    <3>8. QED
      BY <1>18, <3>5, <3>6, <3>7
  <2>2. PauseOver /\ buffer' = Silent
    BY <1>33 DEF Pause
  <2>3. QED
    BY <1>23, <1>24, <1>25, <1>32, <1>33, <2>1, <2>2
<1>34. CASE TooShort /\ ~speech
  <2>1. PauseOver /\ buffer' = Silent /\ Len(buffer.speech) < MinSpeech /\ buffer.recording
    BY <1>34 DEF TooShort, PauseOver
  <2>2. /\ l \in H /\ G = H /\ Ends(G, n + 1, l) /\ NothingOpen(G, n + 1)
        /\ \A k \in H : k <= l
    BY <1>32, <1>34, <2>1
  <2>3. PICK s \in H : BufferSince(H, J, s) /\ s <= l
    BY <1>32, <1>34, <2>1
  <2>4. s \in Int /\ Near(H, s, l) /\ \A k \in H : s <= k <=> J[k].chunk \in S
    BY <1>10, <1>11, <1>16, <2>3 DEF BufferSince
  <2>5. Cardinality({k \in H : s <= k /\ k <= l}) < MinSpeech
    <3>1. {k \in H : s <= k /\ k <= l} = Since(H, s)
      BY <2>2 DEF Since
    <3>2. QED
      BY <2>1, <2>3, <3>1 DEF BufferSince
  <2>6. \A k \in Before(H, s) : K[k].chunk \in B
    <3>1. TAKE k \in Before(H, s)
    <3>2. k \in H /\ k \in Int /\ k < s /\ Near(H, k, s)
      BY <1>10 DEF Before
    <3>3. J[k].chunk \notin S
      BY <2>4, <3>2
    <3>4. Near(H, k, l)
      BY <2>4, <3>2, NearThrough
    <3>5. J[k].chunk \in A
      <4>1. ASSUME WasShort(H, n, J, A, k) PROVE FALSE
        <5>1. PICK e \in H : k <= e /\ Ends(H, n, e)
          BY <4>1 DEF WasShort
        <5>2. QED
          BY <1>20, <2>1, <3>2, <3>4, <5>1
      <4>2. QED
        BY <1>17, <3>2, <4>1
    <3>6. QED
      BY <1>19, <3>2, <3>3, <3>5
  <2>7. ASSUME NEW i \in G, K[i].chunk \notin B PROVE WasShort(G, n + 1, K, B, i)
    <3>1. i \in H /\ i \in Int
      BY <1>10, <2>2
    <3>2. CASE J[i].chunk \notin A
      BY <1>22, <3>1, <3>2
    <3>3. CASE J[i].chunk \in A
      <4>1. s <= i /\ i <= l
        BY <1>19, <2>2, <2>4, <2>7, <3>1, <3>3
      <4>2. CutOrNew(H, s)
        BY <2>3 DEF BufferSince
      <4>3. QED
        BY <2>2, <2>4, <2>5, <2>6, <4>1, <4>2 DEF WasShort
    <3>4. QED
      BY <3>2, <3>3
  <2>8. QED
    BY <1>24, <1>25, <2>1, <2>2, <2>7
<1>35. QED
  BY <1>1, <1>28, <1>29, <1>30, <1>31, <1>33, <1>34 DEF HeardAs

LEMMA DropInvStep ==
  StopInv /\ OrderInv /\ UtteranceInv /\ DropInv /\ [Next]_vars => DropInv'
<1> SUFFICES ASSUME StopInv, OrderInv, UtteranceInv, DropInv, [Next]_vars PROVE DropInv'
  OBVIOUS
<1>1. ASSUME UNCHANGED <<pcm, buffer, process, segments, worker, judged, warned, published>>,
             capture'.holds = capture.holds
      PROVE  DropInv'
  <2>1. Kept \subseteq Kept'
    BY <1>1, KeptAt
  <2>2. QED
    BY <1>1, <2>1, MoveKeepsDrop
<1>2. CASE Capture
  <2>1. CASE Receive \/ EnqueuePcm
    BY <2>1, CaptureKeepsDrop
  <2>2. CASE CaptureEnds \/ CaptureFails
    BY <1>1, <2>2, ThreadsTyped DEF CaptureEnds, CaptureFails
  <2>3. QED
    BY <1>2, <2>1, <2>2 DEF Capture
<1>3. CASE Process
  BY <1>3, HearKeepsDrop, CloseKeepsDrop, PutSegmentKeepsDrop DEF Process
<1>4. CASE Worker
  BY <1>4, WorkerKeepsDrop
<1>5. CASE Main
  <2>1. CASE PutSentinel
    BY <2>1, SentinelKeepsDrop
  <2>2. CASE Interrupt \/ JoinCapture \/ JoinProcess \/ JoinWorker
    BY <1>1, <2>2, ThreadsTyped DEF Interrupt, JoinCapture, JoinProcess, JoinWorker
  <2>3. QED
    BY <1>5, <2>1, <2>2 DEF Main
<1>6. CASE UNCHANGED vars
  BY <1>1, <1>6 DEF vars
<1>7. QED
  BY <1>2, <1>3, <1>4, <1>5, <1>6 DEF Next

\* No speech disappears without a log line but what is too short: of an
\* utterance between the minimum and the maximum length nothing is dropped, of
\* any other less than the minimum.
THEOREM AsrDroppedIsShort == Spec => []DroppedIsShort
<1>1. StopInv /\ DropInv => DroppedIsShort
  <2> SUFFICES ASSUME StopInv, DropInv, NEW i \in SpeechAt,
                      {j \in Utterance(i) : Silently(j)} # {}
               PROVE  /\ Cardinality({j \in Utterance(i) : Silently(j)}) < MinSpeech
                      /\ \/ Cardinality(Utterance(i)) < MinSpeech
                         \/ Cardinality(Utterance(i)) > MaxSpeech
    BY DEF DroppedIsShort
  <2>1. PICK H : H = SpeechAt
    OBVIOUS
  <2>2. PICK n \in Nat : n = Len(judged) /\ H \subseteq 1 .. n
    <3>1. Len(judged) \in Nat /\ DOMAIN judged = 1 .. Len(judged)
      <4>1. PICK R : R = [chunk : Chunks, speech : BOOLEAN]
        OBVIOUS
      <4>2. judged \in Seq(R)
        BY <4>1, JudgedTyped
      <4>3. QED
        BY <4>2
    <3>2. QED
      BY <2>1, <3>1 DEF SpeechAt
  <2>3. PICK A : A = Kept
    OBVIOUS
  <2>4. H \subseteq Int /\ i \in H /\ i \in Int
    BY <2>1, <2>2
  <2>5. \A j \in H : Silently(j) <=> judged[j].chunk \notin A
    <3>1. UNION Range(Stage) = AllOf(Stage)
      <4>1. PICK X : X = Stage
        OBVIOUS
      <4>2. DOMAIN X = 1 .. 8
        BY <4>1 DEF Stage
      <4>3. UNION Range(X) = AllOf(X)
        BY <4>2 DEF AllOf, Range
      <4>4. QED
        BY <4>1, <4>3
    <3>2. QED
      BY <2>3, <3>1 DEF Silently, Kept
  <2>6. PICK U : U = Utterance(i)
    OBVIOUS
  <2>7. U = {j \in H : IF i <= j THEN Near(H, i, j) ELSE Near(H, j, i)}
    BY <2>1, <2>6 DEF Utterance, Linked, Near
  <2>8. PICK D : D = {j \in U : Silently(j)}
    OBVIOUS
  <2>9. PICK d \in U : d \in D /\ d \in H /\ d \in Int
    BY <2>4, <2>6, <2>7, <2>8
  <2>10. PICK s, e \in H :
          /\ s <= d /\ d <= e /\ Near(H, s, e) /\ Ends(H, n, e)
          /\ Cardinality({k \in H : s <= k /\ k <= e}) < MinSpeech
          /\ CutOrNew(H, s)
          /\ \A k \in Before(H, s) : judged[k].chunk \in A
    BY <2>1, <2>2, <2>3, <2>5, <2>8, <2>9 DEF DropInv, WasShort
  <2>11. s \in Int /\ e \in Int
    BY <2>4
  \* The utterance ends with e, and what of it is not of s to e is before s.
  <2>12. i <= e /\ Near(H, i, e)
    <3>1. CASE i <= d
      <4>1. Near(H, i, d) /\ Near(H, d, e)
        BY <2>7, <2>9, <2>10, <2>11, <3>1, NearInside
      <4>2. QED
        BY <2>4, <2>9, <2>10, <2>11, <3>1, <4>1, NearThrough
    <3>2. CASE d < i
      <4>1. Near(H, d, i)
        BY <2>4, <2>7, <2>9, <3>2
      <4>2. i <= e
        BY <2>4, <2>9, <2>10, <2>11, <4>1, EndsApart, <2>2
      <4>3. QED
        BY <2>4, <2>9, <2>10, <2>11, <3>2, <4>2, NearInside
    <3>3. QED
      BY <2>4, <2>9, <3>1, <3>2
  <2>13. ASSUME NEW j \in U PROVE j \in H /\ j <= e /\ (s <= j \/ j \in Before(H, s))
    <3>1. j \in H /\ j \in Int
      BY <2>4, <2>7
    <3>2. j <= e
      <4>1. CASE i <= j
        <5>1. Near(H, i, j)
          BY <2>7, <4>1
        <5>2. QED
          BY <2>2, <2>4, <2>10, <2>11, <2>12, <3>1, <5>1, EndsApart
      <4>2. CASE j < i
        BY <2>4, <2>11, <2>12, <3>1, <4>2
      <4>3. QED
        BY <2>4, <3>1, <4>1, <4>2
    <3>3. Near(H, j, e)
      <4>1. CASE i <= j
        BY <2>4, <2>11, <2>12, <3>1, <3>2, <4>1, NearInside
      <4>2. CASE j < i
        <5>1. Near(H, j, i)
          BY <2>4, <2>7, <3>1, <4>2
        <5>2. QED
          BY <2>4, <2>11, <2>12, <3>1, <5>1, NearThrough
      <4>3. QED
        BY <2>4, <3>1, <4>1, <4>2
    <3>4. j < s => Near(H, j, s)
      BY <2>9, <2>10, <2>11, <3>1, <3>3, NearInside
    <3>5. QED
      BY <2>11, <3>1, <3>2, <3>4 DEF Before
  <2>14. PICK W : W = {k \in H : s <= k /\ k <= e}
    OBVIOUS
  <2>15. PICK V : V = Before(H, s)
    OBVIOUS
  <2>16. /\ IsFiniteSet(W) /\ Cardinality(W) \in Nat /\ IsFiniteSet(V) /\ Cardinality(V) \in Nat
         /\ IsFiniteSet(U) /\ Cardinality(U) \in Nat /\ Cardinality(D) \in Nat
    <3>1. W \subseteq H /\ V \subseteq H /\ U \subseteq H /\ D \subseteq H
      BY <2>7, <2>8, <2>14, <2>15 DEF Before
    <3>2. QED
      BY <2>2, <3>1, HeardFinite
  <2>17. Cardinality(D) < MinSpeech
    <3>1. D \subseteq W
      BY <2>5, <2>8, <2>10, <2>13, <2>14
    <3>2. Cardinality(D) <= Cardinality(W)
      BY <2>16, <3>1, FS_Subset
    <3>3. QED
      BY <2>10, <2>14, <2>16, <3>2, LimitsAssumption
  <2>18. CASE V = {}
    <3>1. U \subseteq W
      BY <2>13, <2>14, <2>15, <2>18
    <3>2. Cardinality(U) <= Cardinality(W)
      BY <2>16, <3>1, FS_Subset
    <3>3. Cardinality(U) < MinSpeech
      BY <2>10, <2>14, <2>16, <3>2, LimitsAssumption
    <3>4. QED
      BY <2>6, <2>8, <2>17, <3>3
  <2>19. CASE Cardinality(V) >= MaxSpeech
    <3>1. V \subseteq U
      <4>1. ASSUME NEW k \in V PROVE k \in U
        <5>1. k \in H /\ k \in Int /\ k < s /\ Near(H, k, s)
          BY <2>4, <2>15 DEF Before
        <5>2. Near(H, k, e)
          BY <2>10, <2>11, <5>1, NearThrough
        <5>3. k < e
          BY <2>9, <2>10, <2>11, <5>1
        <5>4. CASE i <= k
          <6>1. Near(H, i, k)
            BY <2>4, <2>11, <2>12, <5>1, <5>3, <5>4, NearInside
          <6>2. QED
            BY <2>7, <5>1, <5>4, <6>1
        <5>5. CASE k < i
          <6>1. Near(H, k, i)
            BY <2>4, <2>11, <2>12, <5>1, <5>2, <5>5, NearInside
          <6>2. QED
            BY <2>4, <2>7, <5>1, <5>5, <6>1
        <5>6. QED
          BY <2>4, <5>1, <5>4, <5>5
      <4>2. QED
        BY <4>1
    <3>2. d \notin V
      BY <2>9, <2>10, <2>11, <2>15 DEF Before
    <3>3. IsFiniteSet(V \cup {d}) /\ Cardinality(V \cup {d}) = Cardinality(V) + 1
      BY <2>16, <3>2, FS_AddElement
    <3>4. V \cup {d} \subseteq U
      BY <2>9, <3>1
    <3>5. Cardinality(V \cup {d}) <= Cardinality(U)
      BY <2>16, <3>4, FS_Subset
    <3>6. Cardinality(U) > MaxSpeech
      BY <2>16, <2>19, <3>3, <3>5, LimitsAssumption
    <3>7. QED
      BY <2>6, <2>8, <2>17, <3>6
  <2>20. QED
    BY <2>10, <2>15, <2>18, <2>19 DEF CutOrNew
<1>2. QED
  BY <1>1, InitDropInv, DropInvStep, InitUtteranceInv, UtteranceInvStep,
     InitOrderInv, OrderInvStep, StopInvHolds, PTL DEF Spec
=============================================================================
