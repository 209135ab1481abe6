# TLA+ specifications of mgate-agent

mgate-agent runs on a gateway device. A cloud sends it commands over a
WebSocket, or over HTTPS polling ("Pull") while the WebSocket is down; the agent
runs the local `mgate` program for each permitted command and returns a result.
Results go through an outbox on disk, so that they survive lost connections and
restarts. These modules model the part of the agent where the order of events
matters: the way of a command from a transport to a process, the process itself,
the way of its result back to the cloud, and the start and the end of the agent.

## The system

| component | state it keeps | operations | talks to |
|---|---|---|---|
| `commands.DedupeStore` | map command_id -> time, TTL, capacity, one mutex | `Reserve` `Mark` `Seen` `Prune` | called by the Handler |
| `commands.Handler` | the DedupeStore, constant tables | `Handle` | called by WebSocket workers and the Pull loop at once; calls the runner |
| `runner` | one process, an output limiter for its two streams | `Run` | `mgate`, over os/exec |
| `mgate.Client` | none | `Capabilities` `Snapshot` `Summary` | `mgate`, over os/exec; called at start, by heartbeats and polls |
| `outbox.Store` | one JSON file per record id, one mutex | `Save` `Due` `MarkFailure` `Delete` `Load` `PendingCount` | called by the dispatcher; `doctor` opens the same directory from another process |
| `transport.ResultDispatcher` | the `sending` flag, the two senders | `Enqueue` `DispatchOnce` `Run` `SetWebSocketSender` | store below, transports as senders, every transport as caller |
| `transport.WSClient` | per connection: context, `jobs`, `outbound`, `errCh`, goroutines | `Run`/`runOnce`, `readLoop`, `writeLoop`, `heartbeatLoop`, `worker` | Handler, dispatcher, `healthCh` |
| `transport.PullClient` | the response it works on | `Run`, `PollOnce`, `SendRecord` | Handler, dispatcher |
| `transport.Manager` | `wsHealthy` | `Run` | starts the three loops, copies `healthCh` into `wsHealthy`, which Pull reads |
| `app` | none | `run` `check` `doctor` | loads configuration, credentials and actions, opens the store, starts the manager |

Backoff, the table of actions, protocol types, authentication, audit and redaction,
logging and the installation scripts are sequential or pure.
PROJECT.json lists every component with what is left out of it and why.

What is hard here, and what correct means:

- **Many callers, one Handler.** Workers of one connection, workers that outlive
  their connection, and the Pull loop call `Handle` with repetitions of one
  command. Only one may enter execution (docs/security.md:76), and not all of
  them may be turned down as duplicates of each other.
- **A connection ends while goroutines are busy.** `runOnce` waits for none of
  them. Commands with a worker or with the reader must be answered, no more may be
  lost than what is left in its queue, an ack must not contradict a result, nobody may
  stay blocked on a full channel.
- **At-least-once results.** A pass of the dispatcher reads a batch, sends
  without a lock and then deletes or puts off by record id. In between results are
  saved and dropped, the clock runs, the connection or the process goes away. A
  result must not disappear unsent, a record must not be sent before its time, a
  forgotten flag must not stop all sending, and the outbox must drain.
- **Limits and times.** The outbox drops its oldest records, the de-duplication store
  its oldest ids, and records wait for their retry time, all on a wall clock that may be
  set in either direction while its readings are kept in files.
- **A change of transport.** The health of the WebSocket reaches the Pull loop
  through a channel that drops events when it is full.
- **The process.** The deadline, the exit, the kill and the last bytes of output may
  come in any order, and a child may keep the pipes open. What is reported must agree
  with what the process did, and the call must return.
- **The directory.** Every write is several system calls, each of which can fail or be
  the last one before a kill or a power failure, and `doctor` opens the outbox of the
  running agent without a lock between the two processes.
- **The end.** A signal cancels everything at once; `Manager.Run` waits for its loops
  and not for the workers.
- **The start.** systemd starts the agent again after a crash, on a device that may have
  been changed meanwhile: `run` ends with an error, waits without a transport, or goes on
  with the outbox it finds.
- **Arithmetic.** Delays are doubled, a timeout in seconds is multiplied by 10^9.

The list of hazards in PROJECT.json names each of these at its line, together with
the properties that would notice it going wrong.

## The modules

Definitions keep the names of the code where they stand for a function. PROJECT.json
"map" gives the lines each definition stands for.

| module | models | kind |
|---|---|---|
| `Dedupe` | internal/commands/dedupe.go | one atomic action per method (each holds the mutex) |
| `IDSet` | the store as the Handler sees it | abstract specification, implemented by `Dedupe` within TTL and capacity |
| `Records` | internal/outbox | what is in a record, which one is readable, oldest or due, what the limits drop: operators only |
| `Outbox` | internal/outbox/store.go, extends `Records` | one atomic action per method, over the directory as a function from record ids to records |
| `Startup` | internal/config/load.go, identity, app: what `run` makes of a device | operators on the set of the device's faults |
| `Device` | internal/outbox/store.go again, and the commands, extends `Records` and `Startup` | one action per system call or group of calls that nobody can tell apart; two processes, failures of the disk |
| `ResultDispatcher` | internal/transport/result_dispatcher.go, extends `Outbox` | one action per stretch of code between two points where another goroutine can run |
| `ResultBox` | the promise of outbox and dispatcher together | abstract specification, implemented by `ResultDispatcher` |
| `Handler` | internal/commands/handler.go, internal/runner/runner.go | actions of a thread inside `Handle`; has no Next of its own |
| `WSClient` | internal/transport/ws_client.go, extends `Handler` | connections, reader, writer, heartbeat, workers |
| `Manager` | internal/transport/manager.go and pull_client.go, extends `Handler` | health, the Pull loop, and workers of the WebSocket next to it |
| `Timeout` | `resolveTimeout` and the head of `runner.Run` | arithmetic on words of `Width` bits |
| `Runner` | internal/runner and internal/mgate/client.go, extends `Timeout` | one call of either, over a model of os/exec and of the process |
| `DedupeProofs`, `OutboxProofs`, `ResultDispatcherProofs`, `HandlerProofs`, `WSClientProofs`, `ManagerProofs`, `RunnerProofs`, `DeviceProofs` | | theorems and proofs |
| `MC_*` | | constants for TLC |

An operator whose comment begins with "Mutant:" is the definition after it with a
plausible bug. No specification uses it: it is put in place of that definition to see
that the property it is paired with in PROJECT.json notices the bug.

### Dedupe

`seen` is the map, `now` the wall clock (`time.Now().UTC()` has no monotonic
reading, so that `Clock` sets it to any value). `reply` is the answer of the last
call. `stamp`, `high` and `newer` are history: the last stamp of each id, the highest
clock since, and the ids stamped no earlier. `trimLocked` is a relation because
Go's map order decides between equal times. `Fresh` says that every id the store was
given is within its TTL and the capacity; until that ends the store acts as `IDSet`.

### Outbox

(With `Records`.) `files` maps a record id to a record or `NoFile`. A record has the result it holds
(`env`), `created`, `attempts` and `next`. Which command a result answers
(`CommandOf`), the file name of a command (`SanitizedID`, not injective) and its size
(`Bytes`, plus `ErrorBytes` once it has a `last_error`) are constants. `Save` includes
what the code does in it: taking over the times of a record it replaces, and
enforcing the limits. A record with an empty command_id is written and cannot be read
back, as in the code. `now` is the wall clock, which `Clock` sets to any value; `latest`
(the latest reading so far), `savedAt` and `dropped` are history. Old and new are by the
clock: what was saved after it was set back counts as older (`DropsOldest`), and what was
put off before that waits until the clock is there again (`BoundedWait` counts from
`latest`).

### ResultDispatcher

Each caller of `DispatchOnce` has a program counter `pc` and a `batch`. `SkipPass` and
`BeginPass` are the test of the flag under the mutex, `ListDue` is `Due`, `BeginSend`
chooses the sender, `SendOK` and `SendError` are its return, `DeleteSent`,
`RecordFailure`, `FailureNotRecorded` and `StoreError` what follows, and `Return` is
the deferred function, part of every way out. `CancelPass` is the context check at
the head of the loop. The ticker and the goroutine of a new connection call
`DispatchOnce` directly, `Enqueue` saves first. A WebSocket send that returns nil has
been written locally (`written`) and may or may not reach the cloud (`received`); an
HTTP send that returns nil has reached it. After an error it may have. `CrashRestart`
keeps the directory and loses everything else. `ClockMoves` sets the clock, in the middle
of a pass too. `listed` is history: what the clock read when a caller called `Due`, and
which results had been saved by then. `NoEarlyRetry` is about that reading, since the code
compares the retry times with it and not with the time of the send.

### Handler

`stage` is where a thread is in `Handle`, `handling` its delivery, `reserved` the
de-duplication store. `Check` is all of Handle's checks; among them only `Reserve`
touches shared state, so that they are one step. `Verdict` keeps their order, in which
an id is reserved before the action and arguments are looked at. `Spawn`, `SpawnFails` and
`Finish` are the runner. The store never forgets here: it is the set of module `IDSet`,
which `Dedupe` implements within TTL and capacity.

### WSClient

Connections 1..`MaxConns` follow one another. `Stop` is the cancellation of the
context, `Closed` the return of `runOnce`. The workers and the reader of a
connection go on after that until they look at the context. `ReadCommand` is
`handleCommandEnvelope` up to its blocking call: the command is in `jobs` before the
ack is in `outbound` (`ReaderSend`), so that a worker may be done before the ack.
`SaveResult` is `Enqueue`; what happens to the result from there is
`ResultDispatcher`. A connection is `Abandoned` when it is over and its workers have
returned: nothing takes what is still in its queue, and `NoneDropped` counts that as lost.

### Manager

`WSHealthChanges` is `reportHealth` with its drop of an event that finds the channel
full (`missed`), `HealthLoop` the manager's goroutine. The Pull loop goes through
`PullCheck`, the poll, and one `PullHandle`/`PullEnqueue` per command. `PullSkip` is a
result without a command_id. A response longer than `MaxCommands` is refused as a whole.
`WSCommand` is a worker that takes a command; it may do so after its connection is over,
since commands still wait in the queue then. A command of the WebSocket counts as
delivered from there on, and `WSClient` has its way into the queue.

`phase` is the process. `Signal` is the SIGTERM that cancels the context. After it the
Pull loop works off the response it has (`Handle` and `Save` do not stop for the
context, a new process does not start), and ends where it looks at the context
(`PullEnds`). `Exit` is the return of `Manager.Run`: the Pull loop has ended and the
WebSocket is down, while workers may be anywhere.

### Timeout and Runner

`Timeout` is all values of `timeout_sec` in two's complement of `Width` bits. `Runner`
goes on from the deadline it grants. os/exec is external and modelled as its
documentation and its use describe it: a goroutine that watches the context and kills
the process (`KillProcess`), one that copies each pipe into its writer (`CopyOutput`),
and `Wait`, which prefers an exit status to the error of the watcher (`WaitReturns`)
and then waits for both pipes (`CopyEnds`). Of the output only its length is kept. The two
callers differ where it matters: `runner.Run` looks at the deadline before the
error (`RunResult`), `runJSON` after it (`CollectResult`).

### Startup and Device

The device is the set `env` of its faults, one for each kind of reason for which a
parser, a validation or a directory keeps `run` from starting. `runOutcome` is the start of
`run`; `Reconfigure` lets a fault come or go while the transports do not run, and `Run`
starts the agent again after an error, a kill or a power failure. An agent without a
transport (`idle`) loads the outbox and waits. `Device` follows the outbox directory: `files` as
a process sees it, `disk` as a power failure is sure to leave it, `unflushed` files whose
contents were not synced. A power failure leaves each name as it is in one or the
other. The agent has one store call at a time (`call`, under its mutex), `Load` of
either process goes through the names it listed one by one (`loading`), in any order.
`WriteTmp` is open, write, sync and close together: nobody sees a .tmp file's
contents, and an error leaves the file there or not. `promised` is the promise of
`Save`: the results it returned without an error for. `unsure` are those whose directory
sync failed, and `unread` the record ids of which a `Load` could not read a listed file.
`gone` are the results that were in no file when the directory was last synced or found
after a power failure.

## The runs

| run | constants | distinct states | shows |
|---|---|---|---|
| `dedupe` | 3 ids (symmetric), TTL 1, capacity 2, clock 0..3 | 34 199 | `DedupeInv` (with `ForgottenForCause`), `NoEarlyRegrant`, `ActsAsSet` |
| `outbox` | 5 results of 1 to 3 bytes: two of one command, two of other commands, one without id; 2 records or 4 bytes; clock 0..1, set either way; 2 failures each | 216 000 | `BoundedWait`, `LimitsSlack`, `DropsOldest` |
| `dispatch` | 3 results, two of one record; ticker, connection and worker; both transports; room for 2 records and 2 bytes, batches of 2; clock 0..1, set either way; 1 crash; the two results of one record symmetric, histories that no property reads left out of the view | 601 000 | `DispatchInv`, `OnePass`, `NoEarlyRetry`, `SoleResultAccounted`, `UnsentIsShared` |
| `dispatch_live` | 2 results with records of their own, WebSocket only, room for 2 records and 2 bytes, batches of 2; 1 crash | 161 000 | `OutboxDrains`, `ImplementsBox` |
| `dispatch_shared` | 2 results of one record | stops at the violation | `DeletedResultWasSent` fails |
| `ws` | 2 connections, 1 worker each; a command and its repetition, one for another device; queue and channel of 1; 1 disk error | 1 539 000 | `TypeOK`, `OneExecution`, `NoneDropped`, `AnsweredOnce`, `AckMeansQueued`, `DuplicateOfAnother` |
| `ws_live` | 1 connection, 2 workers; a command with bad arguments and its repetition, one without valid payload | 37 500 | `QueuedIsAnswered`, `TakenIsAnswered`, `ReaderNotStuck` |
| `ws_parallel` | 2 connections, 1 worker each, 2 commands | stops at the violation | `ParallelJobsLimited` fails |
| `runner` | words of 4 bits, 3 units in a second, limits 3 and 6; pipes of 2 bytes, a limit of 3, up to 3 bytes on each stream | 374 000 | `DeadlineWithinLimit`, `OutputAccounted`, `ResultTellsExit`, `SummaryTellsRun`, `CallReturns` |
| `device` | 5 results for 4 files, two of one command; room for 1 record; 2 failures, runs of doctor or changes of the device; devices with one fault or without a transport; results of the same kind symmetric | 1 413 000 | `RecordsWhole`, `SavedIsKept`, `OverfullByFailures`, `GoneStaysGone` |
| `manager` | Pull loop and one worker; a command and its repetition, one for another device, one without payload; channel of 1; responses of up to 3 where 2 are accepted; 1 Enqueue error; a signal | 173 000 | `TypeOK`, `OneExecution`, `HealthTracksLink`, `NoneForgotten`, `LeftOutLimited`, `PullTakesOver`, `PullPauses`, `PulledIsAnswered`, `ShutdownEnds` |
| `manager_abort` | two commands | stops at the violation | `PulledIsHandled` fails |

Why the bounds are enough. Every limit in the code (capacity, records, bytes, queue,
channels, batch, response) is set so small that runs reach it. Two
connections suffice for goroutines of an old one next to a new one; one worker per
connection makes the queue fill up. Two results of one record id and one other are the smallest case in
which a batch, a replacement and a drop meet: with room for two bytes a record that
failed, and so has a `last_error`, makes the next `Save` drop one, and a batch of two
is the most the dispatcher takes at once. A clock of four values gives
`dedupe` before, at and after a TTL; two values give the outbox before and at a retry time, and
a clock set back from one to the other. The view of `dispatch` leaves out the readings in
`latest` and `savedAt`, with which `outbox` is checked, and which of the two transports sent a
result: no step reads them, and the properties of the run only ask for `Saved` and for
`written` and `received` together. Words of 4 bits
have positive, negative and small wrapped products. `MaxTime`, `MaxAttempts`, `MaxConns`, `MaxCrashes`, `MaxSaveErrors` and
`MaxEnqueueErrors`, `MaxEmitted` and `MaxTroubles` are the bounds that the code does not
have. Two troubles are a crash after an error, a crash during a second crash's
recovery, a power failure that saves a record and one that brings it back, a restart on a
changed device, or a run of doctor next to either. With four record files
and room for one, `device` has files to exceed the bound of `OverfullByFailures` while there
was no failure (two records). With one failure it reaches the bound (four records: one record
less for each failure would be wrong) and has no file to exceed it: that it does not is left to
the theorem. `ws`, `ws_live` and `ws_parallel` do not check deadlock:
after `MaxConns` connections nothing is left to do; nor do `runner`, where one call ends,
and `device`, where the results are used up. In `manager` the exited process is a step
of its own, so that any other deadlock is noticed.

### Fairness

- The ticker of `Run` never stops and goroutines keep running: weak fairness of
  the steps of each caller, worker and loop. A connection goroutine need not begin a
  pass.
- A send returns: HTTP has a request timeout, and TCP gives up on a peer that
  acknowledges nothing, which ends a WebSocket write. A poll that is not answered
  fails by its timeout.
- `QueuedIsAnswered`, `TakenIsAnswered`, `PulledIsAnswered` and `ShutdownEnds` assume that
  `runner.Run` returns. The kill at the deadline ends the process, and `CallReturns` shows
  that the call then returns unless a child keeps the output pipes open; such a child keeps
  a worker, or the shutdown, waiting for as long as it lives.
- In `Runner` the goroutines of the agent run and the deadline comes; nothing is
  assumed of `mgate`, which may print, run and leave children for ever. `CallReturns`
  excludes a child that never ends: the code sets no `WaitDelay`, and then the
  call really does not return.
- After a signal the WebSocket goes down and `Exit` follows; the health loop is not
  relied on any more, and the signal itself need not come.
- `OutboxDrains` assumes that neither every send nor every disk operation fails for ever
  (strong fairness of `ListDue`, `BeginSend`, `SendOK`, `DeleteSent` for the ticker and the
  connection goroutines, which call again and again), that a transport is
  usable (Pull is enabled or a WebSocket connection stays up in the end), that time passes,
  and that the clock is not set back for ever (`ClockSettles`): each time it is, the records
  that were put off wait longer.
- A sender blocked on a full Go channel waits in a FIFO queue, so that heartbeats
  cannot keep the reader out (strong fairness of `ReaderSend`).
- The environment is never forced: connections, commands, crashes and clock jumps
  of `Dedupe` need not happen.

### What the violations show

- `dispatch_shared`: while a record is being sent, a second result of the same record
  id replaces it. The Delete after the send removes the second result, which nobody sent.
  With a record id of its own a result is safe: `SoleResultAccounted`. `UnsentIsShared`,
  proved and checked, says how far this goes: a result that leaves the outbox neither sent
  nor dropped by the limits was replaced by a `Save` or deleted with an older one of its
  record id that had been sent. No error, cancellation or crash loses one.
- `ws_parallel`: a worker of a lost connection still has its process while a worker of
  the new one starts another. `max_parallel_jobs` is a limit per connection. The old
  process is killed when its context ends and `Run` waits its backoff before it dials, so
  this takes a process that is slow to die, or a child that holds its pipes. The theorem
  `LiveJobsLimited` says that processes beyond it belong to connections that have ended.
- `manager_abort`: an `Enqueue` error in the middle of a Pull response drops the rest
  of it. Without such an error every command is answered: `PulledIsAnswered`. With errors,
  each of them keeps at most `MaxCommands - 1` commands from the Handler, and nothing
  else does: `LeftOutLimited`, proved and checked.

What the passing runs say between the lines:

- `SavedIsKept` names two ways in which a saved result is lost. A failed sync of the
  directory is ignored, and a `Load` that cannot read a listed file takes that for
  damage and renames whatever has the name by then. The file may be gone since it was
  listed, or hold a result without a command_id, which is filed as `unknown` like a
  command of that name (in the proof only: the run has no result without an id). Without
  these two exceptions TLC finds the loss: doctor lists a record, the agent deletes it and saves a second
  result of the same command, doctor moves that one to .bad.
- `OverfullByFailures` counts two records too many for each failure: the one that Save
  had renamed before the limits, and, after a power failure, one that the limits had
  dropped and whose removal was not synced. Nothing but a later Save removes them.
- `DeadlineWithinLimit`: from about 9.3 * 10^9 on, `timeout_sec` wraps around and may be
  accepted although docs/actions.md:33 has it rejected; the runner replaces what is not
  positive, and the deadline never exceeds the limit of the action.
- `NoneDropped` has two terms. One command is lost for each save that fails; and when a
  connection ends, its workers may return with commands in the queue that were acked, up to
  `QueueSize` of them, and nobody answers these. TLC reaches the sum of both.
- `PulledIsAnswered` holds through a shutdown. There is no such property for commands of
  the WebSocket: the process may exit with a worker in `Handle`, and the command then
  has no result. `NoneForgotten` says that of the commands that were pulled or taken by a
  worker no others are left behind; commands that no worker has taken at the exit are left
  too, like those of any connection that ends.
- `GoneStaysGone` has a gap that the code leaves: Delete does not sync the directory, so a
  result that was sent may be back after a power failure, and is then sent twice. The next
  write closes the gap.
- `BoundedWait` counts from the latest reading of the clock: a clock that was ahead, and is
  set right, leaves records put off by the difference.
- `OutputAccounted` is about the output before redaction, which replaces a line by a
  fixed text that may be longer.

## The proofs

All theorems hold for every value of the constants that meets the ASSUMEs. Constants
that stand for the bounds of TLC are arbitrary naturals there.

- **Dedupe.** `DedupeSafe` (`DedupeInv`), `StoreForgetsForCause`, `NoEarlyRegrantHolds`.
  That an id is forgotten only for cause is not inductive: the proof needs that the map
  holds the last stamps (`SeenIsStamp`), that the recorded high covers the clock
  (`HighCoversNow`), and that two ids held at the same time know of each other's stamps
  (`PeersRecorded`). When `trimLocked` removes an id, the `MaxEntries` ids it keeps all
  carry stamps no older, and `PeersRecorded` puts them into `newer`.
  `ActsAsSetHolds`: each step taken in a `Fresh` state is one of `IDSet`, where the set is that of
  all ids ever stamped; the lemma `FreshIsHeld` says that the map then holds exactly these and
  none is old enough to be pruned. `ImplementsSet` is the refinement, for behaviours that stay
  `Fresh`. It is the assumption of module `Handler`, and the hypothesis is needed: a store that
  is asked later grants an id again.
- **Outbox.** `StoreSafe`: types, each file under its own id, and `BoundedWait`, which
  rests on the lemmas `RetryDelayBounded` and `JitterBounded` and on `now` never being past
  `latest`; the clock may move either way. `DropsOldestHolds` needs
  that a record whose id is not shared was created when its result was saved
  (`CreatedAtSave`). `LimitsSlackHolds` takes the number of records from
  `RecordsLimitedHolds`. For the bytes `LimitsSlack` is not inductive, since `MarkFailure`
  adds to one file after the other: `BodiesLimited` counts the files without their
  `last_error`, which no step but `Save` adds to, and `Save` compares the whole files with
  the limit. The laws of sums over a finite set that this takes are proved first. The
  library's induction theorems have an operator as parameter, which the SMT solver and
  Zenon cannot instantiate; the lemma `SubsetInduction` has a set of subsets in its place,
  those for which the claim holds, and rests on the well-foundedness of the subset relation.
- **ResultDispatcher.** `DispatchSafe` (`DispatchInv`), and from it `OnePassHolds`,
  `NoEarlyRetryHolds`, `SoleResultsAccounted`. With only one pass at a time nobody else
  puts a record off, and what is in a batch was due when it was listed (`BatchDue`), the records of a batch are different files
  (`BatchDistinct`), and a caller about to delete has sent what it deletes
  (`SentIsOut`). The Delete then removes either the result that was sent or, where
  the record is shared, one that `SoleResultAccounted` does not speak of.
  `ImplementsBoxHolds` is the refinement of `ResultBox`. Its hypothesis `OwnFiles`, every
  result has a command_id and a record file of its own, is the case of the run
  `dispatch_live`; where a record is shared the box is really not implemented, which
  `dispatch_shared` shows. Each action of the dispatcher has a lemma that says which step
  of the box it is: `Save` accepts and may drop, a send transmits, `DeleteSent`
  removes, everything else changes nothing the box sees.
  `DispatcherUsesStore` is a refinement as well: the dispatcher goes through steps of the
  store of module `Outbox` only, so that what was proved of the store holds under it
  (`DispatcherKeepsLimits`). `UnsentIsSharedHolds` needs a further invariant: what a caller
  has in its batch had been saved when it was listed, and what has the file now, if it is
  another result, had not (`SnapshotIsOlder`). The clock, which may have been set back in
  between, does not come into it.
- **Handler.** `OneExecutionHolds`, `OneExecutionAcrossTransports`:
  whatever entered execution is reserved (`AdmittedReserved`), and `Check` admits
  only what is not. The lemma `HandlerStepKeeps` is proved once over `HandlerStep`, any
  step of Handle, and both compositions cite it.
- **WSClient.** `TypeOKHolds` and `QueueBounded`. `AnsweredOnceHolds` and
  `AckMeansQueuedHolds` rest on `FlowInv`: a delivery is in one place at most, the reader's
  hand, a queue, a worker or the outbox (`OnePlace`), whatever is held has arrived, and
  what the reader acked or is about to ack is answered by Handle only (`AckOK`).
  `DuplicateOfAnotherHolds` needs an owner for every reserved id (`ReservedOwned`): a
  delivery that got through `Reserve` and whose answer, now or later, is its own.
  `NoneDroppedHolds` counts: the set `Lost`, of what is nowhere, grows by a failed save only,
  by one; the commands in abandoned queues (`Stranded`) have a place of `QueueSize` each to
  themselves, which is an injection into connections times places.
  `LiveJobsLimited` follows from `TypeOK`, of which one part says that only one connection
  at a time is in use.
- **Manager.** `HealthTracksLinkHolds`: the last event in the channel, or the stored
  value, is the state of the link. `ManagerTypeOKHolds` and `NoneForgottenHolds` need that the Pull loop has
  commands only while it works them off, and that its thread is in `Handle` for the
  first of them only (`PullOK`): no new response then overwrites an old one, a result
  answers the command it is taken off the list for, and the process ends with an
  empty list. `LeftOutLimitedHolds` needs besides that a thread past the checks of `Handle`
  has its id in the store (`HandledReserved`): the set `LeftOut` then grows in
  `PullEnqueueFails` only, by the tail of a list of `MaxCommands` at most.
- **Runner.** `DeadlineHolds`, for any width: a product that wraps is compared with
  the limit after it wrapped, and the runner replaces what is not positive.
  `OutputAccountedHolds`: at any time the limiter and the buffers account for exactly what the
  copiers took from the pipes (`LimiterExact`, `BufferExact`), and the call returns with empty pipes
  (`PipesEmpty`). `ResultTellsExitHolds` and `SummaryTellsRunHolds` follow what is known
  of process, exit status and error at each point of the call (`ProcessOK`, `ExitOK`,
  `ErrorOK`).
- **Device.** `RecordsWholeHolds` (`WholeInv`: nothing is renamed before it is synced).
  `SavedIsKeptHolds`: what Save promised is in the files, and on the disk unless the
  sync of the directory failed, and what a Save is about to promise is so from its rename
  on (`KeptInv`); a `Load` about to rename a file to .bad could not read it.
  `OverfullByFailuresHolds` bounds the files and, separately, files and disk together, which a
  power failure may bring back (`SizeInv`). `GoneStaysGoneHolds` needs that a
  store call before its rename does not hold a result that is gone (`GoneInv`): Save has a
  new one, MarkFailure one that was in a file, and no sync comes between.

Proof attempts have changed the project in four places. `SavedIsKept` failed for a record
without a command_id, and TLC confirmed it: such a record is one more way into the second
exception above. `OverfullByFailures` had counted one record for each failure; the
induction failed at `PowerLoss`, and with four record files TLC finds the second one.
Where the branches of a `CASE` overlapped, a proof could not rely on the first one:
these are `IF` chains in the order of the code now. And `UnsentIsShared` had at first
only a result that is still there as the reason for a replacement; the proof failed at a
`Save` that replaces a result and whose own result the limits drop in the same call.

Only model-checked: the liveness properties (`OutboxDrains`, `QueuedIsAnswered`,
`TakenIsAnswered`, `ReaderNotStuck`, `PullTakesOver`, `PullPauses`, `PulledIsAnswered`,
`ShutdownEnds`, `CallReturns`), since fairness is out of the prover's reach. Every invariant
and every action property of a passing run is proved. `LiveJobsLimited` and the two
refinements `ImplementsSet` and `DispatcherUsesStore` are proved and not the subject of a run:
the first follows from an invariant of the run `ws`, `ActsAsSet` of the run `dedupe` is the step of
the second.

## What is not modelled

- Texts, formats, signatures, audit events, heartbeat contents, redaction.
- The parsers of configuration and credentials: only what they reject.
- `Backoff.Next`: reconnections and polls may happen at any later time, which covers
  every delay it can return.
- Loss of the de-duplication store by a restart: a repetition is executed again,
  and no document promises otherwise.
- A message that cannot be marshalled; the network probe of doctor.
- `check`: it changes no state of the agent, and what it reports of a device need not hold
  any more when `run` looks. It cannot see everything either: an `mgate.sh` that only another
  user may execute, with a bad interpreter or on a noexec mount passes. The probe file
  that two checks at the same time share is left out with it.
- The installation scripts and the systemd unit.
- The components PROJECT.json lists as not modelled.

## Plan

1. Done: `Dedupe`, `Records`, `Outbox`, `ResultDispatcher` with `ResultBox`, `Handler`,
   `WSClient`, `Manager` to the end of the process, `Timeout`, `Runner`, `Startup`,
   `Device`, `IDSet`, and the theorems above. Every invariant and action property of a
   passing run is proved.
2. A composition of Handler, WSClient and Outbox for one command_id: the rejection of a
   repetition that replaces the result of the execution in a shared record.
3. `sendOutboundWait`: a send that fails by the end of the connection and is written all
   the same.
