---------------------------- MODULE VoiceBridge ----------------------------
(***************************************************************************)
(* voice_bridge: from what was heard to the intents of the motion chain.   *)
(* Two threads share the node.  The ROS thread runs on_asr (node.py), which*)
(* moves the VoiceSession (intent.py) and publishes a stop at once or hands*)
(* the text to the agent; one worker thread runs _run_agent_request, asks  *)
(* the agent for commands, which takes as long as it likes, and publishes  *)
(* them.  AgentRequestState numbers the requests, so that an answer to a   *)
(* request that is no longer current is dropped, and _lock is held while   *)
(* an answer is published.  The session itself is moved by both threads,   *)
(* by the ROS thread without the lock, one attribute at a time.            *)
(*                                                                         *)
(* How long people are silent is not bounded, so a session may be found    *)
(* past idle_timeout_sec or max_session_sec whenever somebody speaks.      *)
(***************************************************************************)
EXTENDS Integers, Sequences, PythonNone

CONSTANTS
    Answers,    \* external: the command sequences an agent may answer with
    MaxHeard    \* bound: ASR events

(* What an answer asks for; "bad" is a command that cannot be built.       *)
Commands == {"loco", "textop", "stop", "say", "bad"}
ASSUME AnswerAssumption == Answers \subseteq Seq(Commands)
ASSUME BoundAssumption == MaxHeard \in Nat

(* What an ASR event means to handle_asr: a stop word; a wake word alone or *)
(* with a command; a command alone; nothing usable (empty, low confidence). *)
Texts == {"stop", "wake", "wakeAndCommand", "command", "unusable"}

VARIABLES
    heard,      \* how many ASR events came in
    ros,        \* the ROS thread: where it is in on_asr, and the text
    session,    \* VoiceSession: state, session_id
    requests,   \* AgentRequestState: _generation and _session_id
    queue,      \* requests submitted to the worker, not yet begun
    agent,      \* the worker thread: where it is, its request, its commands
    lock,       \* _lock: the thread that holds it, or "free"
    bus,        \* history: what was published on the command topics
    awake,      \* history: a wake word began a session not yet reset
    unasked     \* history: a text went to the agent with no wake word

vars == <<heard, ros, session, requests, queue, agent, lock, bus, awake,
          unasked>>

Sessions == {None} \cup 0 .. MaxHeard
Request == [generation : 0 .. MaxHeard, session : Sessions]
ASSUME NoRequestAssumption == None \notin Request
Published == [kind : {"loco", "textop", "stop"}, by : {"ros", "agent"},
              generation : 0 .. MaxHeard]

(* Where a thread is, and what it has.                                      *)
RosThread ==
    [at : {"idle", "expire", "expireRest", "decide", "stopRest", "invalidate",
           "stop", "abort", "submit", "state"},
     text : Texts \cup {None}]
AgentThread ==
    [at : {"idle", "asking", "answered", "publishing", "waiting", "done",
           "doneRest", "failed", "state"},
     request : Request \cup {None},
     commands : Seq(Commands)]

TypeOK ==
    /\ heard \in 0 .. MaxHeard
    /\ ros \in RosThread
    /\ session \in [state : {"IDLE", "ACTIVE", "AGENT_PENDING"}, id : Sessions]
    /\ requests \in Request
    /\ queue \in Seq(Request)
    /\ agent \in AgentThread
    /\ lock \in {"free", "ros", "agent"}
    /\ bus \in Seq(Published)
    /\ awake \in BOOLEAN /\ unasked \in BOOLEAN

Init ==
    /\ heard = 0
    /\ ros = [at |-> "idle", text |-> None]
    /\ session = [state |-> "IDLE", id |-> None]
    /\ requests = [generation |-> 0, session |-> None]
    /\ queue = <<>>
    /\ agent = [at |-> "idle", request |-> None, commands |-> <<>>]
    /\ lock = "free"
    /\ bus = <<>>
    /\ awake = FALSE
    /\ unasked = FALSE

-----------------------------------------------------------------------------
(* AgentRequestState.is_current, its own lock held only inside.             *)
Current(r) ==
    requests.generation = r.generation /\ requests.session = r.session

RosAt(place) == ros' = [ros EXCEPT !.at = place]
AgentAt(place) == agent' = [agent EXCEPT !.at = place]

Publish(kind, who, generation) ==
    bus' = Append(bus, [kind |-> kind, by |-> who, generation |-> generation])

(* A new session is named by the time, here by the number of the event.     *)
NewSession == heard

-----------------------------------------------------------------------------
(* on_asr begins.  The session is looked at for its age first; a state that *)
(* is not IDLE may or may not have outlived its timeouts by now.            *)
Hear(text) ==
    /\ ros.at = "idle"
    /\ heard < MaxHeard
    /\ heard' = heard + 1
    /\ ros' = [at |-> "expire", text |-> text]
    /\ UNCHANGED <<session, requests, queue, agent, lock, bus, awake, unasked>>

(* _expire_if_needed, and _reset, which sets the state before the rest.     *)
StillFresh ==
    /\ ros.at = "expire"
    /\ RosAt("decide")
    /\ UNCHANGED <<heard, session, requests, queue, agent, lock, bus, awake,
                   unasked>>

Expire ==
    /\ ros.at = "expire"
    /\ session.state # "IDLE"
    /\ session' = [session EXCEPT !.state = "IDLE"]
    /\ RosAt("expireRest")
    /\ UNCHANGED <<heard, requests, queue, agent, lock, bus, awake, unasked>>

ExpireRest ==
    /\ ros.at = "expireRest"
    /\ session' = [session EXCEPT !.id = None]
    /\ awake' = FALSE
    /\ RosAt("decide")
    /\ UNCHANGED <<heard, requests, queue, agent, lock, bus, unasked>>

(* handle_asr on a stop word, whatever the session is.                      *)
HearStop ==
    /\ ros.at = "decide" /\ ros.text = "stop"
    /\ session' = [session EXCEPT !.state = "IDLE"]
    /\ RosAt("stopRest")
    /\ UNCHANGED <<heard, requests, queue, agent, lock, bus, awake, unasked>>

HearStopRest ==
    /\ ros.at = "stopRest"
    /\ session' = [session EXCEPT !.id = None]
    /\ awake' = FALSE
    /\ RosAt("invalidate")
    /\ UNCHANGED <<heard, requests, queue, agent, lock, bus, unasked>>

(* handle_asr on everything else.                                           *)
Ignore ==
    /\ ros.at = "decide"
    /\ \/ ros.text = "unusable"
       \/ ros.text = "command" /\ session.state = "IDLE"
    /\ RosAt("state")
    /\ UNCHANGED <<heard, session, requests, queue, agent, lock, bus, awake,
                   unasked>>

WakeUp ==
    /\ ros.at = "decide"
    /\ ros.text = "wake" /\ session.state = "IDLE"
    /\ session' = [state |-> "ACTIVE", id |-> NewSession]
    /\ awake' = TRUE
    /\ RosAt("state")
    /\ UNCHANGED <<heard, requests, queue, agent, lock, bus, unasked>>

(* A wake word with a command, or any usable text in a session, a bare wake *)
(* word included: it goes to the agent.                                     *)
AskAgent ==
    /\ ros.at = "decide"
    /\ \/ ros.text = "wakeAndCommand"
       \/ ros.text \in {"wake", "command"} /\ session.state # "IDLE"
    /\ session' = [state |-> "AGENT_PENDING",
                   id |-> IF session.state = "IDLE" THEN NewSession
                          ELSE session.id]
    /\ awake' = (awake \/ session.state = "IDLE")
    /\ unasked' = (unasked \/ (~awake' /\ ros.text = "command"))
    /\ RosAt("submit")
    /\ UNCHANGED <<heard, requests, queue, agent, lock, bus>>

-----------------------------------------------------------------------------
(* AgentRequestState.invalidate.                                            *)
InvalidateRequests ==
    requests' = [generation |-> requests.generation + 1, session |-> None]

(* _publish_action_decision: the requests are invalidated, the stop gets a  *)
(* number, for which _lock is needed, and is published; then the agent is   *)
(* told to abort.                                                           *)
Invalidate ==
    /\ ros.at = "invalidate"
    /\ InvalidateRequests
    /\ RosAt("stop")
    /\ UNCHANGED <<heard, session, queue, agent, lock, bus, awake, unasked>>

PublishStop ==
    /\ ros.at = "stop"
    /\ lock = "free"
    /\ Publish("stop", "ros", requests.generation)
    /\ RosAt("abort")
    /\ UNCHANGED <<heard, session, requests, queue, agent, lock, awake, unasked>>

(* abort(): an agent that is asking fails soon, which AgentFails allows at  *)
(* any time.                                                                *)
Abort ==
    /\ ros.at = "abort"
    /\ RosAt("state")
    /\ UNCHANGED <<heard, session, requests, queue, agent, lock, bus, awake,
                   unasked>>

(* _call_agent: AgentRequestState.start, then the executor's queue.         *)
Submit ==
    /\ ros.at = "submit"
    /\ LET sid == IF session.id = None THEN NewSession ELSE session.id
           g == requests.generation + 1
       IN  /\ requests' = [generation |-> g, session |-> sid]
           /\ queue' = Append(queue, [generation |-> g, session |-> sid])
    /\ RosAt("state")
    /\ UNCHANGED <<heard, session, agent, lock, bus, awake, unasked>>

(* publish_state, and on_asr returns.                                       *)
RosPublishesState ==
    /\ ros.at = "state"
    /\ lock = "free"
    /\ ros' = [at |-> "idle", text |-> None]
    /\ UNCHANGED <<heard, session, requests, queue, agent, lock, bus, awake,
                   unasked>>

-----------------------------------------------------------------------------
(* _run_agent_request, up to the question.                                  *)
Begin ==
    /\ agent.at = "idle"
    /\ queue # <<>>
    /\ queue' = Tail(queue)
    /\ IF Current(Head(queue))
       THEN agent' = [agent EXCEPT !.at = "asking", !.request = Head(queue)]
       ELSE UNCHANGED agent
    /\ UNCHANGED <<heard, ros, session, requests, lock, bus, awake, unasked>>

Finished == [at |-> "idle", request |-> None, commands |-> <<>>]

(* decide() returns: the answer is dropped when the request is not current. *)
AgentAnswers(commands) ==
    /\ agent.at = "asking"
    /\ agent' = IF Current(agent.request)
                THEN [agent EXCEPT !.at = "answered", !.commands = commands]
                ELSE Finished
    /\ UNCHANGED <<heard, ros, session, requests, queue, lock, bus, awake,
                   unasked>>

(* decide() raises: aborted, timed out, or the agent failed.                *)
AgentFails ==
    /\ agent.at = "asking"
    /\ agent' = IF Current(agent.request)
                THEN [agent EXCEPT !.at = "failed"]
                ELSE Finished
    /\ UNCHANGED <<heard, ros, session, requests, queue, lock, bus, awake,
                   unasked>>

(* What the runs must notice: an answer taken without asking again.         *)
AnswerTaken == TRUE

(* The last check, made when the lock is held.                              *)
AnswerWanted == Current(agent.request)

TakeAnswer ==
    /\ agent.at = "answered"
    /\ lock = "free"
    /\ IF AnswerWanted
       THEN /\ lock' = "agent"
            /\ AgentAt("publishing")
       ELSE /\ UNCHANGED lock
            /\ agent' = Finished
    /\ UNCHANGED <<heard, ros, session, requests, queue, bus, awake, unasked>>

NextCommand == Head(agent.commands)
CommandDone(place) ==
    agent' = [agent EXCEPT !.at = place, !.commands = Tail(@)]

(* _publish_agent_result, one command at a time, the lock held.             *)
PublishCommand ==
    /\ agent.at = "publishing"
    /\ agent.commands # <<>>
    /\ NextCommand \in {"loco", "stop"}
    /\ Publish(NextCommand, "agent", agent.request.generation)
    /\ CommandDone("publishing")
    /\ UNCHANGED <<heard, ros, session, requests, queue, lock, awake, unasked>>

(* What is said, or shown by the LED, is published too; the reply text after*)
(* the last command likewise.                                               *)
Speak ==
    /\ agent.at = "publishing"
    /\ agent.commands # <<>>
    /\ NextCommand = "say"
    /\ CommandDone("publishing")
    /\ UNCHANGED <<heard, ros, session, requests, queue, lock, bus, awake,
                   unasked>>

(* _send_textop_goal waits textop_server_timeout_sec for the server, with   *)
(* the lock held, and sends a goal when it is there.                        *)
WaitForServer ==
    /\ agent.at = "publishing"
    /\ agent.commands # <<>>
    /\ NextCommand = "textop"
    /\ AgentAt("waiting")
    /\ UNCHANGED <<heard, ros, session, requests, queue, lock, bus, awake,
                   unasked>>

SendGoal ==
    /\ agent.at = "waiting"
    /\ Publish("textop", "agent", agent.request.generation)
    /\ CommandDone("publishing")
    /\ UNCHANGED <<heard, ros, session, requests, queue, lock, awake, unasked>>

ServerUnavailable ==
    /\ agent.at = "waiting"
    /\ CommandDone("publishing")
    /\ UNCHANGED <<heard, ros, session, requests, queue, lock, bus, awake,
                   unasked>>

(* A command that cannot be built (build_loco_payload raises on a missing   *)
(* field): the lock is let go, the rest of the answer is lost.              *)
PublishFails ==
    /\ agent.at = "publishing"
    /\ agent.commands # <<>>
    /\ NextCommand = "bad"
    /\ agent' = IF Current(agent.request)
                THEN [agent EXCEPT !.at = "failed", !.commands = <<>>]
                ELSE Finished
    /\ lock' = "free"
    /\ UNCHANGED <<heard, ros, session, requests, queue, bus, awake, unasked>>

(* mark_agent_done tests session_id, then sets the state.                   *)
MarkDone ==
    /\ agent.at = "publishing"
    /\ agent.commands = <<>>
    /\ AgentAt(IF session.id # None THEN "done" ELSE "doneRest")
    /\ UNCHANGED <<heard, ros, session, requests, queue, lock, bus, awake,
                   unasked>>

MarkActive ==
    /\ agent.at = "done"
    /\ session' = [session EXCEPT !.state = "ACTIVE"]
    /\ AgentAt("doneRest")
    /\ UNCHANGED <<heard, ros, requests, queue, lock, bus, awake, unasked>>

(* What the runs must notice: a lock that an answer keeps.                  *)
KeepLock ==
    /\ agent.at = "doneRest"
    /\ AgentAt("state")
    /\ UNCHANGED <<heard, ros, session, requests, queue, lock, bus, awake,
                   unasked>>

Release ==
    /\ agent.at = "doneRest"
    /\ lock' = "free"
    /\ AgentAt("state")
    /\ UNCHANGED <<heard, ros, session, requests, queue, bus, awake, unasked>>

(* What the runs must notice: a failure that is not marked in the session.  *)
ReportOnly ==
    /\ agent.at = "failed"
    /\ lock = "free"
    /\ AgentAt("state")
    /\ UNCHANGED <<heard, ros, session, requests, queue, lock, bus, awake,
                   unasked>>

(* The except branch: check, lock, check, mark_agent_failed, which does what*)
(* mark_agent_done does, and an apology is spoken.                          *)
ReportFailure ==
    /\ agent.at = "failed"
    /\ lock = "free"
    /\ IF Current(agent.request)
       THEN /\ lock' = "agent"
            /\ agent' = [agent EXCEPT !.at = "publishing", !.commands = <<>>]
       ELSE /\ UNCHANGED lock
            /\ AgentAt("state")
    /\ UNCHANGED <<heard, ros, session, requests, queue, bus, awake, unasked>>

AgentPublishesState ==
    /\ agent.at = "state"
    /\ lock = "free"
    /\ agent' = Finished
    /\ UNCHANGED <<heard, ros, session, requests, queue, lock, bus, awake,
                   unasked>>

-----------------------------------------------------------------------------
RosSteps ==
    \/ StillFresh \/ Expire \/ ExpireRest
    \/ HearStop \/ HearStopRest
    \/ Ignore \/ WakeUp \/ AskAgent
    \/ Invalidate \/ PublishStop \/ Abort
    \/ Submit
    \/ RosPublishesState

AgentSteps ==
    \/ Begin
    \/ TakeAnswer
    \/ PublishCommand \/ Speak \/ WaitForServer \/ SendGoal \/ ServerUnavailable
    \/ PublishFails
    \/ MarkDone \/ MarkActive \/ Release
    \/ ReportFailure
    \/ AgentPublishesState

AgentDecides ==
    \/ \E commands \in Answers : AgentAnswers(commands)
    \/ AgentFails

Next ==
    \/ \E text \in Texts : Hear(text)
    \/ RosSteps
    \/ AgentSteps
    \/ AgentDecides

Spec == Init /\ [][Next]_vars

(* Both threads go on when they can; the agent need not ever answer.        *)
FairSpec == Spec /\ WF_vars(RosSteps) /\ WF_vars(AgentSteps)

-----------------------------------------------------------------------------
(* Once a spoken stop is out, no motion of a request made before it follows:*)
(* not of an answer that arrived, or was even taken, while the stop was on  *)
(* its way (_publish_action_decision invalidates before it waits for the    *)
(* lock, _run_agent_request checks again after).                            *)
NoMotionAfterStop ==
    \A i, j \in DOMAIN bus :
        /\ i < j
        /\ bus[i].kind = "stop" /\ bus[i].by = "ros"
        /\ bus[j].kind \in {"loco", "textop"}
        => bus[j].generation > bus[i].generation

(* A session that shows AGENT_PENDING has an agent request on its way: the  *)
(* current one in the queue or with the worker, or one about to be made.    *)
PendingHasARequest ==
    session.state = "AGENT_PENDING" /\ session.id # None =>
        \/ ros.at # "idle"
        \/ \E k \in DOMAIN queue : Current(queue[k])
        \/ agent.request # None /\ Current(agent.request)

(* A stop that was heard is published, however busy the agent thread is     *)
(* with the lock.                                                           *)
StopIsPublished == (ros.at = "stop") ~> (ros.at = "abort")

(* Only wake words and stop words are handled before somebody woke the      *)
(* bridge: no other text starts an agent request.                           *)
WokenBeforeAsked == ~unasked

(* A stop that was heard is not kept waiting for the TextOp server, which   *)
(* takes up to textop_server_timeout_sec.                                   *)
StopWaitsForNoServer == ~(ros.at = "stop" /\ agent.at = "waiting")
=============================================================================
