------------------------------- MODULE PiAgent -------------------------------
(***************************************************************************)
(* voice_bridge's agent client (pi_agent.py): PiRpcAgentClient keeps one Pi*)
(* process behind a PiRpcTransport and turns each request into a prompt,   *)
(* whose tool calls become the commands of the answer.  Threads meet here: *)
(*   - the worker runs decide(), one request after the other,              *)
(*   - the ROS thread calls abort() on a spoken stop, and close() once,    *)
(*   - the transport's reader routes what Pi says to the event queue, and  *)
(*     marks the transport closed when Pi's output ends,                   *)
(*   - one thread per abort() sends the abort command.                     *)
(* A transport is started once; the client drops it after an error and     *)
(* starts another.  Events carry the generation of their transport, which  *)
(* moves only when the process dies.  Pi itself is external: it takes its  *)
(* commands in order, works on one prompt at a time, and may refuse one,   *)
(* call its tools, retry, die or never answer.                             *)
(***************************************************************************)
EXTENDS Integers, Sequences, SequencesExt, PythonNone

CONSTANTS
    MaxTurns,       \* bound: calls of decide()
    MaxTransports,  \* bound: transports ever started
    MaxAborts,      \* bound: calls of abort() by the ROS thread
    MaxEvents       \* bound: events in a queue when Pi adds one

ASSUME PiBoundAssumption ==
    /\ MaxTurns \in Nat /\ MaxTransports \in Nat
    /\ MaxAborts \in Nat /\ MaxEvents \in Nat

Turns == 1 .. MaxTurns
Transports == 1 .. MaxTransports

VARIABLES
    turn,       \* how often decide() was called; its number names the request
    worker,     \* decide(): where it is and its locals
    aborted,    \* the _aborted event
    client,     \* _transport
    transport,  \* every PiRpcTransport
    pi,         \* external: every Pi process
    senders,    \* abort commands not yet written, by transport
    aborts,     \* how often the ROS thread aborted
    shutDown,   \* the ROS thread closed the client
    answers     \* history: what decide() returned

piVars == <<turn, worker, aborted, client, transport, pi, senders, aborts,
          shutDown, answers>>

Event == [kind : {"call", "done", "failed", "end", "retry", "wake"},
          turn : Turns \cup {None}, generation : {0, 1}]

PiTypeOK ==
    /\ turn \in 0 .. MaxTurns
    /\ worker \in [at : {"idle", "starting", "asking", "asked", "test", "get"},
                   on : Transports \cup {None},
                   generation : {0, 1},
                   late : BOOLEAN,             \* hard_deadline has passed
                   called : SUBSET Turns,      \* pending_tools, a call named
                   confirmed : SUBSET Turns]   \* by the turn that made it
    /\ worker.confirmed \subseteq worker.called
    /\ aborted \in BOOLEAN /\ shutDown \in BOOLEAN
    /\ client \in Transports \cup {None}
    /\ transport \in [Transports ->
          [state : {"new", "running", "closed"}, generation : {0, 1},
           events : Seq(Event),
           left : BOOLEAN]]                    \* history: a turn was left
    /\ pi \in [Transports ->
          [inbox : Seq(Turns \cup {None}),     \* prompts, None for an abort
           turn : Turns \cup {None},           \* the prompt it works on
           called : BOOLEAN, open : BOOLEAN, retried : BOOLEAN]]
    /\ senders \in [Transports -> Nat]
    /\ aborts \in 0 .. MaxAborts
    /\ answers \in Seq([turn : Turns, on : Transports, calls : SUBSET Turns,
                        failed : BOOLEAN, left : BOOLEAN])

Idle == [at |-> "idle", on |-> None, generation |-> 0, late |-> FALSE,
         called |-> {}, confirmed |-> {}]
(* PiRpcTransport before its start; nothing is pending, nothing was left.   *)
NewTransport == [state |-> "new", generation |-> 0, events |-> <<>>,
                 left |-> FALSE]
Resting(inbox) == [inbox |-> inbox, turn |-> None, called |-> FALSE,
                   open |-> FALSE, retried |-> FALSE]

PiInit ==
    /\ turn = 0 /\ worker = Idle /\ aborted = FALSE /\ client = None
    /\ transport = [n \in Transports |-> NewTransport]
    /\ pi = [n \in Transports |-> Resting(<<>>)]
    /\ senders = [n \in Transports |-> 0]
    /\ aborts = 0 /\ shutDown = FALSE /\ answers = <<>>

-----------------------------------------------------------------------------
(* An event goes to the queue with the generation of that moment.           *)
Queued(t, kind, who) ==
    [t EXCEPT !.events = Append(@, [kind |-> kind, turn |-> who,
                                    generation |-> t.generation])]

(* wake_events, whatever the reason.                                        *)
Woken(t) == Queued(t, "wake", None)

(* _mark_closed in the reader, when the process died by itself.             *)
Died(t) == Woken([t EXCEPT !.state = "closed", !.generation = @ + 1])

(* PiRpcTransport.close: a wake-up of its own, the process killed, the      *)
(* reader's wake-up when its output ends; nothing if it is closed already.  *)
Closed(t) ==
    IF t.state = "running" THEN Woken(Woken([t EXCEPT !.state = "closed"]))
    ELSE t

(* What the run must notice: an error that keeps the transport.             *)
KeepClient == UNCHANGED <<transport, pi, client>>

(* PiRpcAgentClient.close.                                                  *)
CloseClient ==
    /\ transport' = [n \in Transports |->
                        IF n = client THEN Closed(transport[n]) ELSE transport[n]]
    /\ pi' = [n \in Transports |->
                        IF n = client THEN Resting(<<>>) ELSE pi[n]]
    /\ client' = None

(* What decide() does last, whichever way it ends: the flag is cleared.     *)
Return(calls, failed) ==
    /\ answers' = Append(answers,
          [turn |-> turn, on |-> worker.on, calls |-> calls, failed |-> failed,
           left |-> transport[worker.on].left])
    /\ worker' = Idle
    /\ aborted' = FALSE

-----------------------------------------------------------------------------
(* What the run must notice: tools kept from the turn before.               *)
LastTools == IF answers = <<>> THEN {} ELSE answers[Len(answers)].calls

(* decide() begins, with the transport there is or with a new one whose     *)
(* start-up check is still to be answered (_ensure_transport).              *)
NoTools == {}

BeginOn(n, at) ==
    /\ worker.at = "idle" /\ turn < MaxTurns /\ ~shutDown
    /\ turn' = turn + 1
    /\ worker' = [Idle EXCEPT !.at = at, !.on = n, !.called = NoTools,
                              !.confirmed = NoTools]
    /\ aborted' = FALSE
    /\ UNCHANGED <<client, pi, senders, aborts, shutDown, answers>>

BeginAgain ==
    /\ client # None
    /\ BeginOn(client, "asking")
    /\ UNCHANGED transport

BeginAnew(n) ==
    /\ client = None
    /\ transport[n].state = "new"
    /\ BeginOn(n, "starting")
    /\ transport' = [transport EXCEPT ![n].state = "running"]

Started ==
    /\ worker.at = "starting"
    /\ transport[worker.on].state = "running"
    /\ client' = worker.on
    /\ worker' = [worker EXCEPT !.at = "asking"]
    /\ UNCHANGED <<turn, aborted, transport, pi, senders, aborts, shutDown,
                   answers>>

(* _ensure_session, then the prompt; the generation is taken in between.    *)
Ask ==
    /\ worker.at = "asking"
    /\ transport[worker.on].state = "running"
    /\ worker' = [worker EXCEPT !.at = "asked",
                                !.generation = transport[worker.on].generation]
    /\ pi' = [pi EXCEPT ![worker.on].inbox = Append(@, turn)]
    /\ UNCHANGED <<turn, aborted, client, transport, senders, aborts, shutDown,
                   answers>>

(* PiTransportError out of any send: not running, refused, closed or not    *)
(* answered in time.                                                        *)
Fails ==
    /\ worker.at \in {"starting", "asking", "asked"}
    /\ CloseClient
    /\ Return({}, TRUE)
    /\ UNCHANGED <<turn, senders, aborts, shutDown>>

-----------------------------------------------------------------------------
(* What the run must notice: a turn with no time limit.                     *)
NeverOver == FALSE

(* The loop.  Leaving it before agent_end answers without a command.        *)
TurnOver == worker.late

Interrupted ==
    aborted \/ transport[worker.on].generation # worker.generation

Leave ==
    /\ worker.at = "test" /\ Interrupted
    /\ transport' = [transport EXCEPT ![worker.on].left = TRUE]
    /\ Return({}, FALSE)
    /\ UNCHANGED <<turn, client, pi, senders, aborts, shutDown>>

(* The time is up: abort() on the client's transport, then the same.        *)
TimeUp ==
    /\ worker.at = "test" /\ ~Interrupted /\ TurnOver
    /\ transport' = [n \in Transports |->
          LET t == IF n = client THEN Woken(transport[n]) ELSE transport[n]
          IN  IF n = worker.on THEN [t EXCEPT !.left = TRUE] ELSE t]
    /\ senders' = [n \in Transports |->
                      IF n = client THEN senders[n] + 1 ELSE senders[n]]
    /\ Return({}, FALSE)
    /\ UNCHANGED <<turn, client, pi, aborts, shutDown>>

Continue ==
    /\ worker.at = "test" /\ ~Interrupted /\ ~TurnOver
    /\ worker' = [worker EXCEPT !.at = "get"]
    /\ UNCHANGED <<turn, aborted, client, transport, pi, senders, aborts,
                   shutDown, answers>>

TimePasses ==
    /\ worker.at \in {"test", "get"} /\ ~worker.late
    /\ worker' = [worker EXCEPT !.late = TRUE]
    /\ UNCHANGED <<turn, aborted, client, transport, pi, senders, aborts,
                   shutDown, answers>>

(* get_event takes the first event of the turn's generation, or a closing   *)
(* wake-up, and drops what stands before it; it waits at most a second.     *)
Queue == transport[worker.on].events

(* Of a later generation only a closing wake-up is wanted.  One by abort()  *)
(* stands behind that one, and the turn is left before it is reached.       *)
Wanted(e) == e.generation = worker.generation \/ e.kind = "wake"
Position == SelectInSeq(Queue, Wanted)

Take(i) ==
    transport' = [transport EXCEPT ![worker.on].events =
                     SubSeq(Queue, i + 1, Len(Queue))]

Confirm(w, e) ==
    [w EXCEPT !.at = "test",
              !.confirmed = IF e.turn \in w.called THEN @ \cup {e.turn} ELSE @]

GetTool ==
    /\ worker.at = "get" /\ Position # 0
    /\ Take(Position)
    /\ LET e == Queue[Position] IN
       \/ /\ e.kind = "call"
          /\ worker' = [worker EXCEPT !.at = "test", !.called = @ \cup {e.turn}]
       \/ /\ e.kind = "done"
          /\ worker' = Confirm(worker, e)
       \/ /\ e.kind \in {"failed", "retry"}
          /\ worker' = [worker EXCEPT !.at = "test"]
    /\ UNCHANGED <<turn, aborted, client, pi, senders, aborts, shutDown,
                   answers>>

(* _build_agent_result takes what was confirmed; _finalize_agent_result     *)
(* drops of that what does not validate or the backend does not do.         *)
Built(w) == w.confirmed
Finalized(calls) == SUBSET calls

GetEnd ==
    /\ worker.at = "get" /\ Position # 0
    /\ Queue[Position].kind = "end"
    /\ Take(Position)
    /\ \E calls \in Finalized(Built(worker)) : Return(calls, FALSE)
    /\ UNCHANGED <<turn, client, pi, senders, aborts, shutDown>>

GetWake ==
    /\ worker.at = "get" /\ Position # 0
    /\ Queue[Position].kind = "wake"
    /\ transport' = [transport EXCEPT
                        ![worker.on].events = SubSeq(@, Position + 1, Len(@)),
                        ![worker.on].left = TRUE]
    /\ Return({}, FALSE)
    /\ UNCHANGED <<turn, client, pi, senders, aborts, shutDown>>

GetNothing ==
    /\ worker.at = "get" /\ Position = 0
    /\ Take(Len(Queue))
    /\ worker' = [worker EXCEPT !.at = "test"]
    /\ UNCHANGED <<turn, aborted, client, pi, senders, aborts, shutDown,
                   answers>>

-----------------------------------------------------------------------------
(* abort() on a spoken stop, with a turn under way or without.              *)
AbortAgent ==
    /\ aborts < MaxAborts
    /\ aborts' = aborts + 1
    /\ aborted' = TRUE
    /\ transport' = [n \in Transports |->
                        IF n = client THEN Woken(transport[n]) ELSE transport[n]]
    /\ senders' = [n \in Transports |->
                      IF n = client THEN senders[n] + 1 ELSE senders[n]]
    /\ UNCHANGED <<turn, worker, client, pi, shutDown, answers>>

(* _send_abort, which gives up on a transport that does not run.            *)
SendAbort(n) ==
    /\ senders[n] > 0
    /\ senders' = [senders EXCEPT ![n] = @ - 1]
    /\ pi' = IF transport[n].state = "running"
             THEN [pi EXCEPT ![n].inbox = Append(@, None)]
             ELSE pi
    /\ UNCHANGED <<turn, worker, aborted, client, transport, aborts, shutDown,
                   answers>>

(* VoiceBridgeNode.shutdown: the requests still queued are cancelled.       *)
Shutdown ==
    /\ ~shutDown
    /\ shutDown' = TRUE
    /\ CloseClient
    /\ UNCHANGED <<turn, worker, aborted, senders, aborts, answers>>

-----------------------------------------------------------------------------
(* External: Pi takes the next command.  Its answer to a prompt lets the    *)
(* worker go on that still waits for it.                                    *)
PiAccepts(n) ==
    /\ pi[n].inbox # <<>> /\ Head(pi[n].inbox) # None
    /\ pi[n].turn = None
    /\ pi' = [pi EXCEPT ![n] = [Resting(Tail(@.inbox))
                                  EXCEPT !.turn = Head(pi[n].inbox)]]
    /\ worker' = IF worker.at = "asked" /\ turn = Head(pi[n].inbox)
                 THEN [worker EXCEPT !.at = "test"] ELSE worker
    /\ UNCHANGED <<turn, aborted, client, transport, senders, aborts, shutDown,
                   answers>>

PiRefuses(n) ==
    /\ pi[n].inbox # <<>> /\ Head(pi[n].inbox) # None
    /\ pi' = [pi EXCEPT ![n].inbox = Tail(@)]
    /\ UNCHANGED <<turn, worker, aborted, client, transport, senders, aborts,
                   shutDown, answers>>

Says(n, kind) ==
    /\ transport' = [transport EXCEPT ![n] = Queued(@, kind, pi[n].turn)]
    /\ UNCHANGED <<turn, worker, aborted, client, senders, aborts, shutDown,
                   answers>>

(* An abort ends the prompt Pi works on, if any.                            *)
PiAborts(n) ==
    /\ pi[n].inbox # <<>> /\ Head(pi[n].inbox) = None
    /\ pi' = [pi EXCEPT ![n] = Resting(Tail(@.inbox))]
    /\ IF pi[n].turn # None THEN Says(n, "end")
       ELSE UNCHANGED <<turn, worker, aborted, client, transport, senders,
                        aborts, shutDown, answers>>

Working(n) == pi[n].turn # None /\ Len(transport[n].events) < MaxEvents

PiCalls(n) ==
    /\ Working(n) /\ ~pi[n].called
    /\ pi' = [pi EXCEPT ![n].called = TRUE, ![n].open = TRUE]
    /\ Says(n, "call")

PiFinishesCall(n) ==
    /\ Working(n) /\ pi[n].open
    /\ pi' = [pi EXCEPT ![n].open = FALSE]
    /\ \E kind \in {"done", "failed"} : Says(n, kind)

PiEnds(n) ==
    /\ Working(n) /\ ~pi[n].open
    /\ pi' = [pi EXCEPT ![n] = Resting(@.inbox)]
    /\ Says(n, "end")

PiRetries(n) ==
    /\ Working(n) /\ ~pi[n].open /\ ~pi[n].retried
    /\ pi' = [pi EXCEPT ![n].retried = TRUE]
    /\ Says(n, "retry")

PiDies(n) ==
    /\ transport[n].state = "running"
    /\ transport' = [transport EXCEPT ![n] = Died(@)]
    /\ pi' = [pi EXCEPT ![n] = Resting(<<>>)]
    /\ UNCHANGED <<turn, worker, aborted, client, senders, aborts, shutDown,
                   answers>>

-----------------------------------------------------------------------------
DecideStep ==
    \/ Started \/ Ask \/ Fails
    \/ Leave \/ TimeUp \/ Continue
    \/ GetTool \/ GetEnd \/ GetWake \/ GetNothing

PiNext ==
    \/ BeginAgain
    \/ \E n \in Transports :
          \/ BeginAnew(n)
          \/ SendAbort(n)
          \/ PiAccepts(n) \/ PiRefuses(n) \/ PiAborts(n)
          \/ PiCalls(n) \/ PiFinishesCall(n) \/ PiEnds(n) \/ PiRetries(n)
          \/ PiDies(n)
    \/ DecideStep
    \/ TimePasses
    \/ AbortAgent
    \/ Shutdown

PiSpec == PiInit /\ [][PiNext]_piVars

(* The worker goes on, its sends time out, and time passes; Pi promises     *)
(* nothing.                                                                 *)
PiFairSpec == PiSpec /\ WF_piVars(DecideStep) /\ WF_piVars(TimePasses)

-----------------------------------------------------------------------------
(* As long as no turn of a process was left before its end, an answer has   *)
(* no command but those of its own request: whatever is refused, fails,     *)
(* times out, retries or dies, nothing of an earlier prompt is in the queue *)
(* that a later one reads (decide, get_event, close).                       *)
OwnTurnUntilLeft ==
    \A i \in DOMAIN answers :
        answers[i].left \/ answers[i].calls \subseteq {answers[i].turn}

(* No tool call becomes a command twice, even when turns are left and their *)
(* events read later: an answer collects from nothing (decide, get_event).  *)
NoCallTwice ==
    \A i, j \in DOMAIN answers :
        i # j => answers[i].calls \cap answers[j].calls = {}

(* A process that failed a request is given up: no later request goes to    *)
(* it, and the next one starts another (decide's except, close).            *)
FailedIsReplaced ==
    \A i, j \in DOMAIN answers :
        i < j /\ answers[i].failed => answers[j].on # answers[i].on

(* decide() returns, whatever Pi does: the one worker is not lost to the    *)
(* requests that follow (the timeouts of send, get_event and the turn).     *)
DecideReturns == worker.at # "idle" ~> worker.at = "idle"

(* Only the agent_end of the request's own turn lets its commands through:  *)
(* an answer has no command of another request (the rule the design states  *)
(* for decide).  A wake-up of abort() that no turn read, and the events of  *)
(* a turn that was left, are still in the queue when the next one begins.   *)
AnswersItsOwnTurn ==
    \A i \in DOMAIN answers : answers[i].calls \subseteq {answers[i].turn}
=============================================================================
