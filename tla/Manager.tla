------------------------------ MODULE Manager ------------------------------
(***************************************************************************)
(* internal/transport/manager.go and pull_client.go: the Pull loop polls   *)
(* over HTTPS while the WebSocket is not healthy, and both transports hand *)
(* their commands to one Handler.                                          *)
(*                                                                         *)
(* The WebSocket client reports its health through a channel of limited    *)
(* size and drops the event when the channel is full; a goroutine of the   *)
(* manager copies the events into wsHealthy, which the Pull loop reads     *)
(* before every poll.  Of the WebSocket client only what the others see is *)
(* kept: it connects and disconnects, and its workers handle commands.     *)
(* Module WSClient has the rest.                                           *)
(*                                                                         *)
(* A signal cancels the context of all loops.  Run returns, and the        *)
(* process exits, when the loops have returned: the Pull loop among them,  *)
(* the workers of the WebSocket not.                                       *)
(***************************************************************************)
EXTENDS Handler, Sequences, SequencesExt

CONSTANTS
    PullThread,       \* the Pull loop, one of Threads
    WSEnabled,        \* ws_enabled; Pull is enabled
    HealthSize,       \* capacity of healthCh, 8 in the code
    MaxCommands,      \* largest accepted response, 16 in the code
    Envelope,         \* what is wrong with a delivery's envelope, or "ok"
    MaxEnqueueErrors  \* bound: Enqueue calls that return an error

ASSUME PullThreadType == PullThread \in Threads
ASSUME ManagerConstants ==
    /\ WSEnabled \in BOOLEAN /\ HealthSize \in Nat \ {0}
    /\ MaxCommands \in Nat \ {0} /\ MaxEnqueueErrors \in Nat
ASSUME PullEnvelopeType ==
    Envelope \in [Deliveries -> {"ok", "invalid_payload", "no_command_id",
                                 "invalid_version", "invalid_type",
                                 "device_mismatch"}]

\* Deliveries without a command_id to answer to: the payload is no command,
\* or its id is empty, which Handle rejects before it looks at the store.
NoAnswerTo == {"invalid_payload", "no_command_id"}

VARIABLES
    wsUp,        \* a WebSocket connection is past its hello_ack
    dialled,     \* one was: its workers have been started
    healthCh,    \* the health events on their way
    missed,      \* the latest event was dropped
    wsHealthy,   \* m.wsHealthy
    phase,       \* of the process: "running", "stopping" or "exited"
    pull,        \* the Pull loop: "check", "poll", "commands", "sleep", "stopped"
    todo,        \* commands of the response that are still to be handled
    enqueueErrors,
    delivered,   \* history: deliveries the cloud has sent
    refused,     \* history: those in a response that was too long
    answered     \* history: deliveries with a result in the outbox

healthVars == <<wsUp, dialled, healthCh, missed, wsHealthy, phase>>
pullVars == <<pull, todo>>
cloudVars == <<enqueueErrors, delivered, refused, answered>>
vars == <<handlerVars, healthVars, pullVars, cloudVars>>

Workers == Threads \ {PullThread}

-----------------------------------------------------------------------------
(* Health.                                                                 *)

\* Mutant: only a new connection is reported.
ReportConnected(up) ==
    /\ missed' = FALSE
    /\ healthCh' = IF up /\ Len(healthCh) < HealthSize THEN Append(healthCh, up)
                                                       ELSE healthCh

\* reportHealth: an event that finds the channel full is dropped.
ReportHealth(up) ==
    \/ /\ Len(healthCh) < HealthSize
       /\ healthCh' = Append(healthCh, up)
       /\ missed' = FALSE
    \/ /\ Len(healthCh) >= HealthSize
       /\ UNCHANGED healthCh
       /\ missed' = TRUE

\* runOnce gets its hello_ack, or returns after that.  It does not connect
\* with a context that is cancelled; an acceptance read just before the signal
\* and reported just after it counts as reported before.
WSHealthChanges(up) ==
    /\ WSEnabled
    /\ wsUp # up
    /\ up => phase = "running"
    /\ wsUp' = up
    /\ dialled' = TRUE
    /\ ReportHealth(up)
    /\ UNCHANGED <<handlerVars, wsHealthy, phase, pullVars, cloudVars>>

\* The manager's loop takes the next event.
HealthLoop ==
    /\ phase # "exited"
    /\ healthCh # <<>>
    /\ wsHealthy' = Head(healthCh)
    /\ healthCh' = Tail(healthCh)
    /\ UNCHANGED <<handlerVars, wsUp, dialled, missed, phase, pullVars, cloudVars>>

-----------------------------------------------------------------------------
(* The Pull loop.                                                          *)

\* Mutants: Pull runs only if it is the main transport; Pull always runs.
pollIfMain == ~WSEnabled
pollAlways == TRUE

shouldPoll == ~WSEnabled \/ ~wsHealthy

\* Run: poll, or look again after 200 ms.
PullCheck ==
    /\ pull = "check" /\ phase = "running"
    /\ shouldPoll
    /\ pull' = "poll"
    /\ UNCHANGED <<handlerVars, healthVars, todo, cloudVars>>

\* Mutant: the number of commands is not limited.
PollUnlimited(cmds) ==
    /\ pull = "poll"
    /\ \A n \in DOMAIN cmds : cmds[n] \notin delivered
    /\ delivered' = delivered \cup ToSet(cmds)
    /\ pull' = "commands"
    /\ todo' = cmds
    /\ UNCHANGED <<handlerVars, healthVars, enqueueErrors, refused, answered>>

\* PollOnce: the cloud answers with some commands, each of them new.  A
\* response with too many is dropped as a whole.
PollAnswered(cmds) ==
    /\ pull = "poll"
    /\ \A n \in DOMAIN cmds : cmds[n] \notin delivered
    /\ delivered' = delivered \cup ToSet(cmds)
    /\ pull' = IF Len(cmds) <= MaxCommands THEN "commands" ELSE "sleep"
    /\ todo' = IF Len(cmds) <= MaxCommands THEN cmds ELSE <<>>
    /\ refused' = IF Len(cmds) <= MaxCommands THEN refused
                                              ELSE refused \cup ToSet(cmds)
    /\ UNCHANGED <<handlerVars, healthVars, enqueueErrors, answered>>

\* The request fails, times out or is not answered with a 2xx and JSON.
PollFails ==
    /\ pull = "poll"
    /\ pull' = "sleep"
    /\ UNCHANGED <<handlerVars, healthVars, todo, cloudVars>>

PullGoesOn ==
    /\ todo' = Tail(todo)
    /\ UNCHANGED pull

\* PollOnce returns an error: what is left of the response is forgotten.
PullAborts ==
    /\ todo' = <<>>
    /\ pull' = "sleep"

\* handleEnvelope: a good command goes to Handle.
PullHandle ==
    /\ pull = "commands" /\ todo # <<>>
    /\ Envelope[Head(todo)] = "ok"
    /\ Call(PullThread, Head(todo))
    /\ UNCHANGED <<healthVars, pullVars, cloudVars>>

\* Mutant: every bad envelope is passed over.
SkipRejected ==
    /\ pull = "commands" /\ todo # <<>>
    /\ Envelope[Head(todo)] # "ok"
    /\ PullGoesOn
    /\ UNCHANGED <<handlerVars, healthVars, cloudVars>>

\* PollOnce passes over a result without a command_id.
PullSkip ==
    /\ pull = "commands" /\ todo # <<>>
    /\ Envelope[Head(todo)] \in NoAnswerTo
    /\ PullGoesOn
    /\ UNCHANGED <<handlerVars, healthVars, cloudVars>>

\* Enqueue of a result, Handle's or the rejection of a bad envelope.
PullResult ==
    /\ pull = "commands" /\ todo # <<>>
    /\ \/ Leave(PullThread)
       \/ /\ Envelope[Head(todo)] \notin NoAnswerTo \cup {"ok"}
          /\ UNCHANGED handlerVars
    /\ UNCHANGED <<healthVars, delivered, refused>>

PullEnqueue ==
    /\ PullResult
    /\ answered' = answered \cup {Head(todo)}
    /\ PullGoesOn
    /\ UNCHANGED enqueueErrors

\* The result cannot be saved, or it is saved and the dispatch after that
\* fails: both errors end PollOnce.
PullEnqueueFails ==
    /\ PullResult
    /\ enqueueErrors < MaxEnqueueErrors
    /\ enqueueErrors' = enqueueErrors + 1
    /\ answered' \in {answered, answered \cup {Head(todo)}}
    /\ PullAborts

PullDone ==
    /\ pull = "commands" /\ todo = <<>>
    /\ pull' = "sleep"
    /\ UNCHANGED <<handlerVars, healthVars, todo, cloudVars>>

\* pull_interval_sec or the backoff is over.
PullWake ==
    /\ pull = "sleep"
    /\ pull' = "check"
    /\ UNCHANGED <<handlerVars, healthVars, todo, cloudVars>>

\* Mutant: the context is looked at only after shouldPoll.
EndsIfPolling ==
    /\ phase = "stopping"
    /\ pull = "check"
    /\ pull' = IF shouldPoll THEN "stopped" ELSE "sleep"
    /\ UNCHANGED <<handlerVars, healthVars, todo, cloudVars>>

\* The loop looks at its context before a poll and while it sleeps, not
\* between the commands of a response.
PullEnds ==
    /\ phase = "stopping"
    /\ pull \in {"check", "sleep"}
    /\ pull' = "stopped"
    /\ UNCHANGED <<handlerVars, healthVars, todo, cloudVars>>

-----------------------------------------------------------------------------
(* The workers of the WebSocket, and Handle on any thread.                 *)

\* A worker takes a command from the queue of its connection, which may be
\* over by now.  The command counts as delivered from here on: the way into the
\* queue, and what is left in a queue for ever, are in module WSClient.
WSCommand(t, d) ==
    /\ dialled /\ phase # "exited"
    /\ d \notin delivered
    /\ Envelope[d] = "ok"
    /\ delivered' = delivered \cup {d}
    /\ Call(t, d)
    /\ UNCHANGED <<healthVars, pullVars, enqueueErrors, refused, answered>>

WSResult(t) ==
    /\ phase # "exited"
    /\ answered' = answered \cup {handling[t]}
    /\ Leave(t)
    /\ UNCHANGED <<healthVars, pullVars, enqueueErrors, delivered, refused>>

\* No process is started with a context that is cancelled.
HandleStep(t) ==
    /\ phase # "exited"
    /\ Check(t) \/ (phase = "running" /\ Spawn(t)) \/ SpawnFails(t) \/ Finish(t)
    /\ UNCHANGED <<healthVars, pullVars, cloudVars>>

-----------------------------------------------------------------------------
(* The end of the process.                                                 *)

\* SIGTERM or an interrupt cancels the context.
Signal ==
    /\ phase = "running"
    /\ phase' = "stopping"
    /\ UNCHANGED <<handlerVars, wsUp, dialled, healthCh, missed, wsHealthy, pullVars,
                   cloudVars>>

\* Mutant: Run returns without waiting for its loops.
ExitAtOnce ==
    /\ phase = "stopping"
    /\ phase' = "exited"
    /\ UNCHANGED <<handlerVars, wsUp, dialled, healthCh, missed, wsHealthy, pullVars,
                   cloudVars>>

\* Run has waited for its loops; the health loop and the dispatcher return at
\* once.  A worker that is still in Handle ends here, and its process with it.
Exit ==
    /\ phase = "stopping" /\ pull = "stopped" /\ ~wsUp
    /\ phase' = "exited"
    /\ UNCHANGED <<handlerVars, wsUp, dialled, healthCh, missed, wsHealthy, pullVars,
                   cloudVars>>

Exited == phase = "exited" /\ UNCHANGED vars

Init ==
    /\ HandlerInit
    /\ wsUp = FALSE
    /\ dialled = FALSE
    /\ healthCh = <<>>
    /\ missed = FALSE
    /\ wsHealthy = FALSE
    /\ phase = "running"
    /\ pull = "check"
    /\ todo = <<>>
    /\ enqueueErrors = 0
    /\ delivered = {}
    /\ refused = {}
    /\ answered = {}

Responses == {s \in SeqOf(Deliveries, MaxCommands + 1) : IsInjective(s)}

PullStep ==
    \/ PullCheck \/ PollFails \/ PullHandle \/ PullSkip \/ PullEnqueue
    \/ PullEnqueueFails \/ PullDone \/ PullWake \/ PullEnds

Next ==
    \/ \E up \in BOOLEAN : WSHealthChanges(up)
    \/ HealthLoop \/ PullStep
    \/ \E cmds \in Responses : PollAnswered(cmds)
    \/ \E t \in Workers : WSResult(t) \/ \E d \in Deliveries : WSCommand(t, d)
    \/ \E t \in Threads : HandleStep(t)
    \/ Signal \/ Exit \/ Exited

Spec == Init /\ [][Next]_vars

\* The goroutines keep running, a request that is not answered fails by its
\* timeout.  A cancelled context ends the connection.  The signal need not come.
\* Assumption: runner.Run returns.  Module Runner shows when it does: unless a
\* child of the process keeps its output pipes open for ever.
Fairness ==
    /\ WF_vars(phase = "running" /\ HealthLoop)
    /\ WF_vars(PullStep)
    /\ WF_vars(phase = "stopping" /\ WSHealthChanges(FALSE))
    /\ WF_vars(Exit)
    /\ \A t \in Threads : WF_vars(HandleStep(t))

FairSpec == Spec /\ Fairness

-----------------------------------------------------------------------------
(* Properties.                                                             *)

\* Each variable has its type.
TypeOK ==
    /\ HandlerTypeOK
    /\ wsUp \in BOOLEAN /\ missed \in BOOLEAN /\ wsHealthy \in BOOLEAN
    /\ dialled \in BOOLEAN /\ (wsUp => dialled)
    /\ healthCh \in Seq(BOOLEAN) /\ Len(healthCh) <= HealthSize
    /\ pull \in {"check", "poll", "commands", "sleep", "stopped"}
    /\ phase \in {"running", "stopping", "exited"}
    /\ todo \in Seq(Deliveries) /\ Len(todo) <= MaxCommands
    /\ enqueueErrors \in 0 .. MaxEnqueueErrors
    /\ delivered \in SUBSET Deliveries /\ refused \in SUBSET delivered
    /\ answered \in SUBSET delivered

\* What the Pull loop will believe once the events on their way are taken.
HealthToCome == IF healthCh = <<>> THEN wsHealthy ELSE Last(healthCh)

\* reportHealth and the manager's loop: the manager ends up with the state
\* the WebSocket is in, unless the latest event found the channel full.
HealthTracksLink == ~missed => HealthToCome = wsUp

\* docs/architecture.md:76: while the WebSocket stays down, Pull goes on
\* polling, unless the event that said so was dropped or the process stops.
PullTakesOver ==
    <>[](~wsUp /\ ~missed /\ phase = "running") => []<>(pull = "poll")

\* docs/architecture.md:75: while the WebSocket stays up, Pull stops polling.
PullPauses == WSEnabled /\ <>[](wsUp /\ ~missed) => <>[](pull # "poll")

\* A command that came in a response of the right length, and that has a
\* command_id to answer to.
Owed(d) == d \in delivered \ refused /\ Envelope[d] \notin NoAnswerTo
InHand(d) == d \in ToSet(todo) \/ \E t \in Threads : handling[t] = d

\* Every command of a Pull response gets a result, as long as Enqueue does
\* not fail and runner.Run returns, whatever the WebSocket and the other threads
\* do meanwhile, and also when the process is told to stop before the response
\* is worked off.
PulledIsAnswered ==
    \A d \in Deliveries :
        d \in ToSet(todo) /\ Owed(d) ~> d \in answered \/ enqueueErrors > 0

\* PollOnce and Run: while Enqueue does not fail, a command of a Pull response
\* or one that a worker of the WebSocket has taken is answered or in hand at any
\* time, and when the process is gone only those workers have left one without
\* an answer.  Commands still queued for the workers are not counted here.
NoneForgotten ==
    enqueueErrors = 0 =>
        \A d \in Deliveries : Owed(d) =>
            \/ d \in answered
            \/ d \in ToSet(todo) /\ phase # "exited"
            \/ \E t \in Threads : handling[t] = d /\ (phase = "exited" => t \in Workers)

\* Run returns after the signal: no loop of the agent waits for another one for
\* ever, wherever the Pull loop and the WebSocket are, if runner.Run returns.
ShutdownEnds == phase = "stopping" ~> phase = "exited"

\* docs/architecture.md:99: the commands of a response are handed to the
\* Handler one by one, none of them is left out: it is still to come, or
\* Handle has put its id into the de-duplication store.
PulledIsHandled ==
    \A d \in delivered :
        Owed(d) /\ Envelope[d] = "ok" /\ ValidID(d) =>
            InHand(d) \/ IDOf[d] \in reserved

\* How far that goes wrong: each Enqueue error leaves out the rest of one
\* response at most, which is one command less than a response may hold.  No
\* other step of the Pull loop, of a worker or of the shutdown loses a command.
LeftOut ==
    {d \in delivered : /\ Owed(d) /\ Envelope[d] = "ok" /\ ValidID(d)
                       /\ ~InHand(d) /\ IDOf[d] \notin reserved}
LeftOutLimited == Cardinality(LeftOut) <= enqueueErrors * (MaxCommands - 1)
=============================================================================
