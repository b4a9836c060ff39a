----------------------------- MODULE DebugPanel -----------------------------
(***************************************************************************)
(* voice_bridge_debug: how what the ROS side learns reaches a browser.     *)
(* The ROS thread changes PanelState under its lock and then, without the  *)
(* lock, hands a message to the event loop; the broadcast worker sends it  *)
(* to every web socket that is connected.  The page opens its socket and   *)
(* asks for the state and the history at the same time, shows both answers *)
(* when it has both, and takes socket messages before and after that.      *)
(* Changes are counted by kind: a message carries the count of its kind.   *)
(* Publishing ASR from the page is not part of it.                         *)
(***************************************************************************)
EXTENDS Integers, Sequences, SequencesExt, PythonNone

CONSTANTS
    MaxEvents,    \* timeline.max_events
    Shown,        \* events the page asks for, and keeps (200)
    MaxChanges,   \* bound: changes, of all kinds together
    MaxSockets    \* bound: sockets the page opens

ASSUME PanelAssumption ==
    /\ MaxEvents \in Nat \ {0} /\ Shown \in Nat \ {0} /\ MaxEvents <= Shown
    /\ MaxChanges \in Nat /\ MaxSockets \in Nat

Kinds == {"event", "robot_state", "agent_result"}
Message == [type : Kinds, n : 1 .. MaxChanges]
Sockets == 1 .. MaxSockets
Sending == [message : Message, todo : SUBSET Sockets, failed : SUBSET Sockets]
SnapshotType == [robot : 0 .. MaxChanges, result : 0 .. MaxChanges]

ASSUME NoneIsNoMessage == None \notin Message /\ None \notin Sending

VARIABLES
    state,        \* PanelState: how many changes of each kind
    ros,          \* the ROS thread: the message it has to hand over, and
                  \* whether set_agent_result follows
    queue,        \* web_broadcast_queue
    sending,      \* broadcast_worker: the message and the sockets to go
    connections,  \* WebSocketManager.connections
    socket,       \* the page's socket: its number and its status
    wire,         \* messages on their way on that socket
    answers,      \* the answers to the two requests, None before
    page,         \* what the page shows, and whether the answers were shown
    gap,          \* history: the page missed something, see Missed
    heard         \* history: the last message of each kind on this socket

panelVars == <<state, ros, queue, sending, connections, socket, wire, answers,
          page, gap, heard>>

Nothing == [k \in Kinds |-> 0]

PanelInit ==
    /\ state = Nothing
    /\ ros = [message |-> None, result |-> FALSE]
    /\ queue = <<>>
    /\ sending = None
    /\ connections = {}
    /\ socket = [number |-> 0, status |-> "closed"]
    /\ wire = <<>>
    /\ answers = [state |-> None, history |-> None]
    /\ page = [robot |-> 0, result |-> 0, timeline |-> <<>>, loaded |-> FALSE]
    /\ gap = FALSE
    /\ heard = Nothing

\* s[-k:]
Cut(s, k) == IF Len(s) <= k THEN s ELSE SubSeq(s, Len(s) - k + 1, Len(s))

\* mutant: a full timeline takes no more
TimelineFills(n) == [i \in 1 .. (IF n < MaxEvents THEN n ELSE MaxEvents) |-> i]

\* The timeline after n events.
Timeline(n) == Cut([i \in 1 .. n |-> i], MaxEvents)

-----------------------------------------------------------------------------
(* The ROS thread.                                                          *)

Idle == ros.message = None /\ ~ros.result

Change(kind, resultFollows) ==
    /\ state["event"] + state["robot_state"] + state["agent_result"] < MaxChanges
    /\ state' = [state EXCEPT ![kind] = @ + 1]
    /\ ros' = [message |-> [type |-> kind, n |-> state[kind] + 1],
               result |-> resultFollows]
    /\ UNCHANGED <<queue, sending, connections, socket, wire, answers, page,
                   gap, heard>>

\* A callback that pushes an event; on_voice_debug_event may go on to the result.
PushEvent(resultFollows) == Idle /\ Change("event", resultFollows)
SetRobotState == Idle /\ Change("robot_state", FALSE)
SetAgentResult == ros.message = None /\ ros.result /\ Change("agent_result", FALSE)

Notify ==
    /\ ros.message # None
    /\ queue' = Append(queue, ros.message)
    /\ ros' = [ros EXCEPT !.message = None]
    /\ UNCHANGED <<state, sending, connections, socket, wire, answers, page,
                   gap, heard>>

-----------------------------------------------------------------------------
(* The event loop.                                                          *)

\* broadcast_worker takes a message, broadcast copies the set of sockets.
Broadcast ==
    /\ sending = None
    /\ queue # <<>>
    /\ sending' = [message |-> Head(queue), todo |-> connections, failed |-> {}]
    /\ queue' = Tail(queue)
    /\ UNCHANGED <<state, ros, connections, socket, wire, answers, page, gap,
                   heard>>

Live(c) == c = socket.number /\ socket.status = "open"

\* A send on a socket the page has left may fail, or vanish.
SendTo(c) ==
    /\ sending # None
    /\ c \in sending.todo
    /\ IF Live(c)
       THEN /\ wire' = Append(wire, sending.message)
            /\ sending' = [sending EXCEPT !.todo = @ \ {c}]
       ELSE /\ \E failed \in {{}, {c}} :
                  sending' = [sending EXCEPT !.todo = @ \ {c}, !.failed = @ \cup failed]
            /\ UNCHANGED wire
    /\ UNCHANGED <<state, ros, queue, connections, socket, answers, page, gap, heard>>

\* mutant: the first send that fails ends the broadcast
EndsAtFailure == sending # None /\ (sending.todo = {} \/ sending.failed # {})

\* mutant: the worker does not wait for its sends
EndsAtOnce == sending # None

SentToAll == sending # None /\ sending.todo = {}

Broadcasted ==
    /\ SentToAll
    /\ connections' = connections \ sending.failed
    /\ sending' = None
    /\ UNCHANGED <<state, ros, queue, socket, wire, answers, page, gap, heard>>

Connect ==
    /\ socket.status = "opening"
    /\ socket' = [socket EXCEPT !.status = "open"]
    /\ connections' = connections \cup {socket.number}
    /\ UNCHANGED <<state, ros, queue, sending, wire, answers, page, gap, heard>>

\* receive_text finds that the page has left.
Disconnect(c) ==
    /\ c \in connections
    /\ ~Live(c)
    /\ connections' = connections \ {c}
    /\ UNCHANGED <<state, ros, queue, sending, socket, wire, answers, page,
                   gap, heard>>

\* PanelState.snapshot, without the timeline, which the page does not load from it.
Snapshot == [robot |-> state["robot_state"], result |-> state["agent_result"]]

\* An answer given before the socket is connected misses what comes in between.
AnswerState ==
    /\ answers.state = None
    /\ socket.number > 0
    /\ answers' = [answers EXCEPT !.state = Snapshot]
    /\ gap' = (gap \/ socket.status # "open")
    /\ UNCHANGED <<state, ros, queue, sending, connections, socket, wire, page, heard>>

AnswerHistory ==
    /\ answers.history = None
    /\ socket.number > 0
    /\ LET events == Timeline(state["event"])
       IN  answers' = [answers EXCEPT !.history =
                         SubSeq(events, 1, IF Len(events) < Shown THEN Len(events) ELSE Shown)]
    /\ gap' = (gap \/ socket.status # "open")
    /\ UNCHANGED <<state, ros, queue, sending, connections, socket, wire, page, heard>>

-----------------------------------------------------------------------------
(* The page.                                                                *)

\* The first socket, or another one some time after the last was closed: the
\* page does not ask for state and history again.
OpenSocket ==
    /\ socket.status = "closed"
    /\ socket.number < MaxSockets
    /\ socket' = [number |-> socket.number + 1, status |-> "opening"]
    /\ heard' = Nothing
    /\ UNCHANGED <<state, ros, queue, sending, connections, wire, answers,
                   page, gap>>

\* The connection breaks, and what was on the wire is lost.
Break ==
    /\ socket.status # "closed"
    /\ socket' = [socket EXCEPT !.status = "closed"]
    /\ wire' = <<>>
    /\ gap' = TRUE
    /\ UNCHANGED <<state, ros, queue, sending, connections, answers, page, heard>>

\* The reducer on a message of the socket.
Reduce(m) ==
    CASE m.type = "event" ->
           [page EXCEPT !.timeline = Cut(Append(@, m.n), Shown)]
      [] m.type = "robot_state" -> [page EXCEPT !.robot = m.n]
      [] m.type = "agent_result" -> [page EXCEPT !.result = m.n]

\* Shown before its answer is, and not in it: the answer will wipe it out.
WipedOut(m) ==
    /\ ~page.loaded
    /\ IF m.type = "event" THEN answers.history # None ELSE answers.state # None

Receive ==
    /\ wire # <<>>
    /\ page' = Reduce(Head(wire))
    /\ heard' = [heard EXCEPT ![Head(wire).type] = Head(wire).n]
    /\ gap' = (gap \/ WipedOut(Head(wire)))
    /\ wire' = Tail(wire)
    /\ UNCHANGED <<state, ros, queue, sending, connections, socket, answers>>

\* Promise.all: both answers are there, state_snapshot is dispatched.
Load ==
    /\ ~page.loaded
    /\ answers.state # None /\ answers.history # None
    /\ page' = [robot |-> answers.state.robot, result |-> answers.state.result,
                timeline |-> Cut(answers.history, Shown), loaded |-> TRUE]
    /\ UNCHANGED <<state, ros, queue, sending, connections, socket, wire,
                   answers, gap, heard>>

-----------------------------------------------------------------------------
PanelNext ==
    \/ \E follows \in BOOLEAN : PushEvent(follows)
    \/ SetRobotState \/ SetAgentResult \/ Notify
    \/ Broadcast \/ (\E c \in Sockets : SendTo(c)) \/ Broadcasted
    \/ Connect \/ (\E c \in Sockets : Disconnect(c))
    \/ AnswerState \/ AnswerHistory
    \/ OpenSocket \/ Break \/ Receive \/ Load

\* The two threads and the network go on.  No answer and no socket is promised.
Fairness ==
    /\ WF_panelVars(Notify) /\ WF_panelVars(SetAgentResult)
    /\ WF_panelVars(Broadcast) /\ WF_panelVars(Broadcasted)
    /\ \A c \in Sockets : WF_panelVars(SendTo(c))
    /\ WF_panelVars(Receive)

PanelSpec == PanelInit /\ [][PanelNext]_panelVars
PanelFairSpec == PanelSpec /\ Fairness

-----------------------------------------------------------------------------
(* Properties.                                                              *)

PanelTypeOK ==
    /\ state \in [Kinds -> 0 .. MaxChanges] /\ heard \in [Kinds -> 0 .. MaxChanges]
    /\ ros \in [message : Message \cup {None}, result : BOOLEAN]
    /\ queue \in Seq(Message) /\ wire \in Seq(Message)
    /\ sending \in Sending \cup {None}
    /\ connections \subseteq Sockets
    /\ socket \in [number : 0 .. MaxSockets, status : {"opening", "open", "closed"}]
    /\ answers \in [state : SnapshotType \cup {None}, history : Seq(1 .. MaxChanges) \cup {None}]
    /\ page \in [robot : 0 .. MaxChanges, result : 0 .. MaxChanges,
                 timeline : Seq(1 .. MaxChanges), loaded : BOOLEAN]
    /\ Len(page.timeline) <= Shown
    /\ gap \in BOOLEAN

OnTheWay ==
    \/ ros.message # None \/ queue # <<>> \/ wire # <<>>
    \/ sending # None

\* A socket delivers every change of a kind from some one on, once and in
\* order, whatever other sockets break in the middle of a broadcast: the one
\* thread that notifies, the queue and the one worker see to it.
SocketHasNoGap ==
    [][\A k \in Kinds :
         Receive /\ Head(wire).type = k /\ heard[k] # 0
            => heard'[k] = heard[k] + 1]_panelVars

\* When a page that missed nothing has nothing more on the way to it, it shows
\* the robot's state, the agent's result and the newest event as the server has
\* them, and no event is left out between those it shows, though its answers may
\* have been older, or newer, than the messages around them.  There are three
\* ways to miss something: an answer given before the socket was connected, a
\* message shown before the answer that wipes it out, and a socket that broke.
QuietMeansCurrent ==
    page.loaded /\ ~gap /\ ~OnTheWay =>
        /\ page.robot = state["robot_state"]
        /\ page.result = state["agent_result"]
        /\ LET shown == ToSet(page.timeline)
           IN  /\ state["event"] > 0 => state["event"] \in shown
               /\ \A d \in shown : d .. state["event"] \subseteq shown

\* What the robot does now is shown before long, on a page that has loaded
\* and missed nothing, unless its connection breaks.
NewsIsShown ==
    \A v \in 1 .. MaxChanges :
        (page.loaded /\ ~gap /\ state["robot_state"] = v)
            ~> (page.robot >= v \/ socket.status = "closed")
=============================================================================
