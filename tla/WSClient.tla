------------------------------ MODULE WSClient ------------------------------
(***************************************************************************)
(* internal/transport/ws_client.go: one WebSocket connection after another,*)
(* each with its own context, channels and goroutines: a reader, a writer, *)
(* a heartbeat and MaxParallelJobs workers that call Handle.               *)
(*                                                                         *)
(* runOnce does not wait for the goroutines of a connection.  When the     *)
(* connection ends its context is cancelled, and a worker or reader that   *)
(* is busy goes on until it looks at the context again, next to the        *)
(* goroutines of the following connection.                                 *)
(*                                                                         *)
(* The cloud is external: it sends any delivery once, on any connection.   *)
(* conn.Read and conn.Write may fail at any time.  Enqueue saves a result  *)
(* (module ResultDispatcher says what becomes of it) or fails.             *)
(***************************************************************************)
EXTENDS Handler, Sequences

CONSTANTS
    MaxConns,       \* bound: connections made, one after another
    ConnOf,         \* the connection a worker thread belongs to
    MaxParallelJobs,
    Envelope,       \* what is wrong with a delivery's envelope, or "ok"
    QueueSize,      \* CommandQueueSize, 16 in the code
    OutboundSize,   \* OutboundSize, 32 in the code
    MaxSaveErrors   \* bound: Enqueue calls that return an error

Conns == 1 .. MaxConns

ASSUME ConnOfType == MaxConns \in Nat /\ ConnOf \in [Threads -> Conns]
ASSUME ThreadsFinite == IsFiniteSet(Threads) /\ MaxParallelJobs \in Nat
ASSUME WorkersPerConn ==
    \A k \in Conns : Cardinality({t \in Threads : ConnOf[t] = k}) = MaxParallelJobs
ASSUME EnvelopeType ==
    Envelope \in [Deliveries -> {"ok", "invalid_version", "invalid_payload",
                                 "device_mismatch", "unknown_type"}]
ASSUME SizesPositive == QueueSize \in Nat \ {0} /\ OutboundSize \in Nat \ {0}
ASSUME MaxSaveErrorsNat == MaxSaveErrors \in Nat

VARIABLES
    link,       \* state of each connection
    failed,     \* an error waits in errCh of the connection
    reader,     \* readLoop: "off", "read", "send", "reject" or "exit"
    inHand,     \* the delivery the reader handles
    code,       \* what it answers with: an ack, an error or a rejection
    jobs,       \* the jobs channel
    outbound,   \* the outbound channel: the types of the messages in it
    writing,    \* writeLoop runs
    working,    \* worker goroutines that have not returned
    saveErrors,
    arrived,    \* history: deliveries read, with the connection that did
    acked,      \* history: deliveries whose ack went into outbound
    answers     \* history: results saved, delivery and outcome

connVars == <<link, failed, writing, working>>
readerVars == <<reader, inHand, code>>
chanVars == <<jobs, outbound>>
histVars == <<saveErrors, arrived, acked, answers>>
vars == <<handlerVars, connVars, readerVars, chanVars, histVars>>

\* unused   not dialled yet
\* hello    dialled, the hello is queued, waiting for hello_ack
\* up       hello_ack accepted, all goroutines started
\* ending   context cancelled, conn.Close in progress, the sender still set
\* closed   runOnce has returned
Links == {"unused", "hello", "up", "ending", "closed"}

\* connCtx.Err() = nil
Alive(k) == link[k] \in {"hello", "up"}

Workers(k) == {t \in Threads : ConnOf[t] = k}
Arrived == {a.d : a \in arrived}
Answered(d) == \E a \in answers : a.d = d
Answer(d, o) == answers' = answers \cup {[d |-> d, outcome |-> o]}

\* reportErr: nothing is reported once the context is over.
ReportErr(k) == failed' = [failed EXCEPT ![k] = @ \/ Alive(k)]

-----------------------------------------------------------------------------
(* Run and runOnce.                                                        *)

\* Mutant: the next connection does not wait for the end of the last one.
DialAgain(k) ==
    /\ link[k] = "unused"
    /\ \A j \in Conns : j < k => link[j] # "unused"
    /\ link' = [link EXCEPT ![k] = "hello"]
    /\ outbound' = [outbound EXCEPT ![k] = <<"hello">>]
    /\ writing' = [writing EXCEPT ![k] = TRUE]
    /\ UNCHANGED <<handlerVars, failed, working, readerVars, jobs, histVars>>

\* Run: after the previous connection has been given up, and its backoff is
\* over, the next one is dialled; writeLoop starts and the hello is queued.
\* A dial that fails changes nothing.
Dial(k) ==
    /\ link[k] = "unused"
    /\ \A j \in Conns : j < k => link[j] = "closed"
    /\ link' = [link EXCEPT ![k] = "hello"]
    /\ outbound' = [outbound EXCEPT ![k] = <<"hello">>]
    /\ writing' = [writing EXCEPT ![k] = TRUE]
    /\ UNCHANGED <<handlerVars, failed, working, readerVars, jobs, histVars>>

\* Mutant: the workers are not started.
HelloAckOnly(k) ==
    /\ link[k] = "hello"
    /\ outbound[k] = <<>>
    /\ link' = [link EXCEPT ![k] = "up"]
    /\ reader' = [reader EXCEPT ![k] = "read"]
    /\ UNCHANGED <<handlerVars, failed, writing, working, inHand, code, chanVars,
                   histVars>>

\* waitHelloAck returns nil: health is reported, the sender is set, the
\* workers, the heartbeat and the reader start.  The cloud answers a hello
\* that writeLoop gave to the connection, with a write error or without.
HelloAck(k) ==
    /\ link[k] = "hello"
    /\ outbound[k] = <<>>
    /\ link' = [link EXCEPT ![k] = "up"]
    /\ working' = working \cup Workers(k)
    /\ reader' = [reader EXCEPT ![k] = "read"]
    /\ UNCHANGED <<handlerVars, failed, writing, inHand, code, chanVars,
                   histVars>>

\* No acceptance in time, or the read fails: runOnce returns, its deferred
\* stop cancels the context.
HelloFails(k) ==
    /\ link[k] = "hello"
    /\ link' = [link EXCEPT ![k] = "closed"]
    /\ UNCHANGED <<handlerVars, failed, writing, working, readerVars,
                   chanVars, histVars>>

\* An error comes out of errCh: stop().  The other case of the select, the
\* end of the agent's own context, is part of the shutdown in module Manager.
Stop(k) ==
    /\ link[k] = "up"
    /\ failed[k]
    /\ link' = [link EXCEPT ![k] = "ending"]
    /\ UNCHANGED <<handlerVars, failed, writing, working, readerVars,
                   chanVars, histVars>>

\* conn.Close has returned: the deferred calls take back the sender and
\* report the disconnection.
Closed(k) ==
    /\ link[k] = "ending"
    /\ link' = [link EXCEPT ![k] = "closed"]
    /\ UNCHANGED <<handlerVars, failed, writing, working, readerVars,
                   chanVars, histVars>>

-----------------------------------------------------------------------------
(* writeLoop and heartbeatLoop.                                            *)

Write(k) ==
    /\ writing[k] /\ Alive(k)
    /\ outbound[k] # <<>>
    /\ outbound' = [outbound EXCEPT ![k] = Tail(@)]
    /\ UNCHANGED <<handlerVars, connVars, readerVars, jobs, histVars>>

\* Mutant: a failed write is not reported.
WriterExitsSilently(k) ==
    /\ writing[k]
    /\ \/ outbound[k] # <<>> /\ outbound' = [outbound EXCEPT ![k] = Tail(@)]
       \/ ~Alive(k) /\ UNCHANGED outbound
    /\ writing' = [writing EXCEPT ![k] = FALSE]
    /\ UNCHANGED <<handlerVars, link, failed, working, readerVars, jobs,
                   histVars>>

\* conn.Write of a message fails, or the context is over.
WriterExits(k) ==
    /\ writing[k]
    /\ \/ outbound[k] # <<>> /\ outbound' = [outbound EXCEPT ![k] = Tail(@)]
       \/ ~Alive(k) /\ UNCHANGED outbound
    /\ writing' = [writing EXCEPT ![k] = FALSE]
    /\ ReportErr(k)
    /\ UNCHANGED <<handlerVars, link, working, readerVars, jobs, histVars>>

\* sendOutbound blocks while the channel is full.
Room(k) == Len(outbound[k]) < OutboundSize

Heartbeat(k) ==
    /\ link[k] = "up"
    /\ Room(k)
    /\ outbound' = [outbound EXCEPT ![k] = Append(@, "heartbeat")]
    /\ UNCHANGED <<handlerVars, connVars, readerVars, jobs, histVars>>

-----------------------------------------------------------------------------
(* readLoop and handleCommandEnvelope.                                     *)

\* An envelope arrives.  One of another type is logged and forgotten; a
\* command becomes a job if the queue has room for it.
ReadCommand(k, d) ==
    LET full == Len(jobs[k]) >= QueueSize
        queued == Envelope[d] = "ok" /\ ~full
        answer == IF Envelope[d] # "ok" THEN Envelope[d]
                  ELSE IF full THEN "queue_full" ELSE "ack"
    IN  /\ reader[k] = "read" /\ link[k] = "up"
        /\ d \notin Arrived
        /\ arrived' = arrived \cup {[d |-> d, conn |-> k]}
        /\ jobs' = [jobs EXCEPT ![k] = IF queued THEN Append(@, d) ELSE @]
        /\ reader' = [reader EXCEPT ![k] =
              CASE answer = "unknown_type" -> "read"
                [] answer \in {"device_mismatch", "queue_full"} -> "reject"
                [] OTHER -> "send"]
        /\ inHand' = [inHand EXCEPT ![k] =
              IF answer = "unknown_type" THEN NoDelivery ELSE d]
        /\ code' = [code EXCEPT ![k] =
              IF answer = "unknown_type" THEN "none" ELSE answer]
        /\ UNCHANGED <<handlerVars, connVars, outbound, saveErrors, acked,
                       answers>>

ReaderGoesOn(k) ==
    /\ reader' = [reader EXCEPT ![k] = "read"]
    /\ inHand' = [inHand EXCEPT ![k] = NoDelivery]
    /\ code' = [code EXCEPT ![k] = "none"]

ReaderExits(k) ==
    /\ reader' = [reader EXCEPT ![k] = "exit"]
    /\ inHand' = [inHand EXCEPT ![k] = NoDelivery]
    /\ code' = [code EXCEPT ![k] = "none"]
    /\ ReportErr(k)

\* sendOutbound of the ack or of the error envelope.
ReaderSend(k) ==
    /\ reader[k] = "send"
    /\ Room(k)
    /\ outbound' = [outbound EXCEPT ![k] = Append(@, code[k])]
    /\ acked' = IF code[k] = "ack" THEN acked \cup {inHand[k]} ELSE acked
    /\ ReaderGoesOn(k)
    /\ UNCHANGED <<handlerVars, connVars, jobs, saveErrors, arrived, answers>>

\* Mutant: no return after the rejection, the command is queued as well.
RejectAndQueue(k) ==
    /\ reader[k] = "reject"
    /\ Answer(inHand[k], code[k])
    /\ jobs' = [jobs EXCEPT ![k] =
                   IF Len(@) < QueueSize THEN Append(@, inHand[k]) ELSE @]
    /\ ReaderGoesOn(k)
    /\ UNCHANGED <<handlerVars, connVars, outbound, saveErrors, arrived, acked>>

\* Mutant: no return after the rejection, the command is acked as well.
RejectAndAck(k) ==
    /\ reader[k] = "reject"
    /\ Answer(inHand[k], code[k])
    /\ reader' = [reader EXCEPT ![k] = "send"]
    /\ code' = [code EXCEPT ![k] = "ack"]
    /\ UNCHANGED <<handlerVars, connVars, inHand, chanVars, saveErrors, arrived,
                   acked>>

\* sendRejectedResult: the rejection is saved in the outbox.
ReaderReject(k) ==
    /\ reader[k] = "reject"
    /\ Answer(inHand[k], code[k])
    /\ ReaderGoesOn(k)
    /\ UNCHANGED <<handlerVars, connVars, chanVars, saveErrors, arrived, acked>>

\* Enqueue returns an error, with the rejection saved (the dispatch that
\* follows the save failed) or not: the reader gives up the connection.
ReaderRejectFails(k) ==
    /\ reader[k] = "reject"
    /\ saveErrors < MaxSaveErrors
    /\ saveErrors' = saveErrors + 1
    /\ Answer(inHand[k], code[k]) \/ UNCHANGED answers
    /\ ReaderExits(k)
    /\ UNCHANGED <<handlerVars, link, writing, working, chanVars, arrived,
                   acked>>

\* conn.Read fails, or what it reads is no envelope.
ReadFails(k) ==
    /\ reader[k] = "read"
    /\ ReaderExits(k)
    /\ UNCHANGED <<handlerVars, link, writing, working, chanVars, histVars>>

\* sendOutbound sees that the context is over.
ReaderCancelled(k) ==
    /\ reader[k] = "send"
    /\ ~Alive(k)
    /\ ReaderExits(k)
    /\ UNCHANGED <<handlerVars, link, writing, working, chanVars, histVars>>

-----------------------------------------------------------------------------
(* worker.                                                                 *)

\* A worker takes a job.  With the context over and a job ready, select
\* takes either case.
TakeJob(t) ==
    LET k == ConnOf[t] IN
    /\ t \in working
    /\ jobs[k] # <<>>
    /\ Call(t, Head(jobs[k]))
    /\ jobs' = [jobs EXCEPT ![k] = Tail(@)]
    /\ UNCHANGED <<connVars, readerVars, outbound, histVars>>

WorkerExits(t) ==
    /\ t \in working
    /\ stage[t] = "idle"
    /\ ~Alive(ConnOf[t])
    /\ working' = working \ {t}
    /\ UNCHANGED <<handlerVars, link, failed, writing, readerVars, chanVars,
                   histVars>>

\* Handle runs under the context of the connection: a process is not started
\* once it is over, and is killed when it ends.
HandleStep(t) ==
    /\ \/ Check(t)
       \/ Alive(ConnOf[t]) /\ Spawn(t)
       \/ SpawnFails(t)
       \/ Finish(t)
    /\ UNCHANGED <<connVars, readerVars, chanVars, histVars>>

\* Mutant: the result is dropped once the connection is over.
SaveIfConnected(t) ==
    /\ IF Alive(ConnOf[t]) THEN Answer(handling[t], outcome[t])
                           ELSE UNCHANGED answers
    /\ Leave(t)
    /\ UNCHANGED <<connVars, readerVars, chanVars, saveErrors, arrived, acked>>

\* Enqueue saves the result, whatever became of the connection.
SaveResult(t) ==
    /\ Answer(handling[t], outcome[t])
    /\ Leave(t)
    /\ UNCHANGED <<connVars, readerVars, chanVars, saveErrors, arrived, acked>>

\* Enqueue cannot write the result: it is logged and lost.
SaveResultFails(t) ==
    /\ saveErrors < MaxSaveErrors
    /\ saveErrors' = saveErrors + 1
    /\ Leave(t)
    /\ UNCHANGED <<connVars, readerVars, chanVars, arrived, acked, answers>>

-----------------------------------------------------------------------------
Init ==
    /\ HandlerInit
    /\ link = [k \in Conns |-> "unused"]
    /\ failed = [k \in Conns |-> FALSE]
    /\ reader = [k \in Conns |-> "off"]
    /\ inHand = [k \in Conns |-> NoDelivery]
    /\ code = [k \in Conns |-> "none"]
    /\ jobs = [k \in Conns |-> <<>>]
    /\ outbound = [k \in Conns |-> <<>>]
    /\ writing = [k \in Conns |-> FALSE]
    /\ working = {}
    /\ saveErrors = 0
    /\ arrived = {}
    /\ acked = {}
    /\ answers = {}

WriterStep(k) == Write(k) \/ WriterExits(k)
ReaderStep(k) ==
    \/ \E d \in Deliveries : ReadCommand(k, d)
    \/ ReaderSend(k) \/ ReaderReject(k) \/ ReaderRejectFails(k)
    \/ ReadFails(k) \/ ReaderCancelled(k)
WorkerStep(t) ==
    \/ TakeJob(t) \/ WorkerExits(t) \/ HandleStep(t)
    \/ SaveResult(t) \/ SaveResultFails(t)
RunStep(k) == Dial(k) \/ HelloAck(k) \/ HelloFails(k) \/ Stop(k) \/ Closed(k)

Next ==
    \/ \E k \in Conns : RunStep(k) \/ WriterStep(k) \/ ReaderStep(k) \/ Heartbeat(k)
    \/ \E t \in Threads : WorkerStep(t)

Spec == Init /\ [][Next]_vars

\* Every goroutine keeps running.  A write returns, with an error if TCP gives
\* up.  Assumption: runner.Run returns (see Runner).  A sender that
\* waits for room in a channel waits in a FIFO queue of the Go runtime, so
\* heartbeats cannot keep the reader out for ever.
Fairness ==
    /\ \A k \in Conns :
         /\ WF_vars(Stop(k) \/ Closed(k)) /\ WF_vars(WriterStep(k))
         /\ SF_vars(ReaderSend(k))
         /\ WF_vars(ReaderReject(k) \/ ReaderRejectFails(k))
         /\ WF_vars(ReaderCancelled(k))
    /\ \A t \in Threads : WF_vars(WorkerStep(t))

FairSpec == Spec /\ Fairness

-----------------------------------------------------------------------------
(* Properties.                                                             *)

Running == {t \in Threads : stage[t] = "running"}

\* Each variable has its type, at most one connection is in use, and the
\* channels keep to their sizes.
TypeOK ==
    /\ HandlerTypeOK
    /\ link \in [Conns -> Links]
    /\ \A j, k \in Conns : j < k /\ link[k] # "unused" => link[j] = "closed"
    /\ failed \in [Conns -> BOOLEAN] /\ writing \in [Conns -> BOOLEAN]
    /\ working \in SUBSET Threads
    /\ reader \in [Conns -> {"off", "read", "send", "reject", "exit"}]
    /\ inHand \in [Conns -> Deliveries \cup {NoDelivery}]
    /\ \A k \in Conns :
         /\ inHand[k] # NoDelivery <=> reader[k] \in {"send", "reject"}
         /\ jobs[k] \in Seq(Deliveries) /\ Len(jobs[k]) <= QueueSize
         /\ Len(outbound[k]) <= OutboundSize
    /\ saveErrors \in 0 .. MaxSaveErrors

\* A delivery the agent owes an answer: every command that is not turned
\* down with an error envelope.
Owed(d) == Envelope[d] \in {"ok", "device_mismatch"}
Queued(d, k) == \E n \in DOMAIN jobs[k] : jobs[k][n] = d
InWork(d, k) == \E t \in Workers(k) : handling[t] = d
InReader(d, k) == inHand[k] = d /\ reader[k] = "reject"

\* The connection is over and its workers have returned: runOnce makes a new
\* jobs channel for the next one, and nothing takes what is left in this one.
Abandoned(k) == link[k] \in {"ending", "closed"} /\ working \cap Workers(k) = {}

\* The delivery d that came on connection k is answered, or somebody has it
\* who will answer it.
InHands(d, k) ==
    \/ Answered(d)
    \/ Queued(d, k) /\ ~Abandoned(k)
    \/ InWork(d, k)
    \/ InReader(d, k)

\* ws_client.go:343-380: a command that was read is lost in two ways only.
\* The disk fails when its answer is saved: one for each failure.  Or its
\* connection ends while it waits in the queue, acked or about to be, and the
\* workers return: a queue of them for each connection that is abandoned.
NoneDropped ==
    Cardinality({a \in arrived : Owed(a.d) /\ ~InHands(a.d, a.conn)})
      <= saveErrors + QueueSize * Cardinality({k \in Conns : Abandoned(k)})

\* Nothing is answered twice: a delivery gets one result, and it is not
\* still queued or being handled after that.
AnsweredOnce ==
    /\ \A a, b \in answers : a.d = b.d => a = b
    /\ \A a \in answers, k \in Conns : ~Queued(a.d, k) /\ ~InWork(a.d, k)

\* docs/protocol.md:107: an ack says that the command was received and
\* queued.  A command with an ack is never turned down by the transport.
AckMeansQueued ==
    \A d \in acked, a \in answers :
        a.d = d => a.outcome \in HandlerCodes \cup RunStates

\* handler.go duplicate_command: the deliveries of one command_id are not all
\* turned down as duplicates of each other.  Where one was, another one with
\* the same id has arrived, whose answer, if it has one, says something else.
DuplicateOfAnother ==
    \A a \in answers : a.outcome = "duplicate_command" =>
        \E e \in Arrived \ {a.d} :
            /\ IDOf[e] = IDOf[a.d]
            /\ \A b \in answers : b.d = e => b.outcome # "duplicate_command"

\* A command that waits in the queue of a connection is answered in the
\* end, if the connection stays up, the disk does not fail and runner.Run
\* returns for the commands before it.
QueuedIsAnswered ==
    \A k \in Conns, d \in Deliveries :
        Queued(d, k) ~> Answered(d) \/ link[k] # "up" \/ saveErrors > 0

\* A command that a worker has taken is answered once runner.Run returns, also
\* when its connection ends meanwhile: the result waits in the outbox for the
\* next one.
TakenIsAnswered ==
    \A t \in Threads, d \in Deliveries :
        handling[t] = d ~> Answered(d) \/ saveErrors > 0

\* The reader never waits for ever for room in outbound: the writer makes
\* room, or its failure ends the connection and the context with it.
ReaderNotStuck == \A k \in Conns : reader[k] = "send" ~> reader[k] # "send"

\* configs/agent.example.yaml:56, max_parallel_jobs is "the largest number of
\* concurrent tasks": so many processes run at a time.
ParallelJobsLimited == Cardinality(Running) <= MaxParallelJobs
=============================================================================
