------------------------------- MODULE Runner -------------------------------
(***************************************************************************)
(* The two places that start mgate.sh: runner.Run, for a command of the    *)
(* cloud, and runJSON of the mgate client, for the status in a heartbeat.  *)
(* One behaviour is one call of one of them.                               *)
(*                                                                         *)
(* Both leave the process to os/exec, which is external: a goroutine       *)
(* watches the context and kills the process when the context ends, one    *)
(* goroutine for each output stream copies the pipe into a writer, and     *)
(* cmd.Run returns when the process was waited for and both pipes are at   *)
(* their end.  A child of the process inherits the pipes and outlives the  *)
(* kill, which goes to the process alone.                                  *)
(*                                                                         *)
(* Output is counted in bytes.  Of the JSON that mgate.sh prints, only     *)
(* whether it is whole, and of which kind, is kept.                        *)
(***************************************************************************)
EXTENDS Timeout, FiniteSetsExt

CONSTANTS
    MaxOutputBytes,  \* max_output_bytes
    PipeSize,        \* capacity of a pipe
    SnapshotBytes,   \* length of the JSON that mgate.sh prints
    MaxEmitted       \* bound: bytes the process writes to one stream

ASSUME OutputSizes ==
    /\ MaxOutputBytes \in Int /\ PipeSize \in Nat \ {0}
    /\ SnapshotBytes \in Nat \ {0} /\ MaxEmitted \in Nat

VARIABLES
    caller,     \* "runner" or "mgate"
    pc,         \* idle, start, wait, drain, returned, done
    binary,     \* what mgate_path names: executable, plain, directory, missing
    document,   \* what mgate.sh prints: snapshot, other_schema, not_json
    proc,       \* none, running, or exited and to be waited for
    exit,       \* exit status, Killed after a kill, Nil before
    child,      \* a child of the process has the pipes open
    emitted,    \* bytes written to each stream
    pipe,       \* those of them that are still in the pipe
    ctxErr,     \* why the context is over: none, deadline or canceled
    watch,      \* armed, or the error of the goroutine that watches it
    err,        \* the error of cmd.Run: none, start, context or exit
    buf,        \* bytes kept of each stream
    remaining,  \* of the limiter both streams share
    truncated,
    result      \* state and exit code that are reported

procVars == <<proc, exit, child, emitted, pipe>>
ctxVars == <<ctxErr, watch, err>>
outVars == <<buf, remaining, truncated>>
callVars == <<caller, binary, document, timeoutVars>>
vars == <<callVars, pc, procVars, ctxVars, outVars, result>>

Streams == {"stdout", "stderr"}
Killed == -1
NoResult == [state |-> "none", code |-> Nil]
Total(f) == f["stdout"] + f["stderr"]

-----------------------------------------------------------------------------
(* The callers, up to cmd.Run.                                             *)

\* Handle and the head of runner.Run: a command whose timeout_sec is refused
\* starts nothing.  A deadline that is not in the future is over at once.
RunCommand(limit, sec) ==
    /\ pc = "idle" /\ caller = "runner"
    /\ Handle(limit, sec)
    /\ IF granted' = Nil
       THEN /\ pc' = "done"
            /\ result' = [state |-> "rejected", code |-> Killed]
            /\ UNCHANGED ctxErr
       ELSE /\ pc' = "start"
            /\ ctxErr' = IF effective' > 0 THEN "none" ELSE "deadline"
            /\ UNCHANGED result
    /\ UNCHANGED <<caller, binary, document, procVars, watch, err, outVars>>

ensureExecutable ==
    CASE binary = "missing" -> "mgate_missing"
      [] binary \in {"directory", "plain"} -> "mgate_not_executable"
      [] OTHER -> "ok"

\* runJSON, with the timeout of NewClient.
Collect ==
    /\ pc = "idle" /\ caller = "mgate"
    /\ IF ensureExecutable = "ok"
       THEN pc' = "start" /\ UNCHANGED result
       ELSE pc' = "done" /\ result' = [state |-> ensureExecutable, code |-> Nil]
    /\ UNCHANGED <<callVars, procVars, ctxVars, outVars>>

-----------------------------------------------------------------------------
(* cmd.Run.                                                                *)

\* Start returns at once when the context is over, and fails when there is
\* nothing to execute or no process to be had.
StartFails ==
    /\ pc = "start"
    /\ err' = IF ctxErr # "none" THEN "context" ELSE "start"
    /\ pc' = "returned"
    /\ UNCHANGED <<callVars, procVars, ctxErr, watch, outVars, result>>

StartProcess ==
    /\ pc = "start" /\ ctxErr = "none" /\ binary = "executable"
    /\ proc' = "running"
    /\ pc' = "wait"
    /\ UNCHANGED <<callVars, exit, child, emitted, pipe, ctxVars, outVars, result>>

\* The process or a child that it left writes to a stream.
Emit(s, n) ==
    /\ pc \in {"wait", "drain"}
    /\ proc = "running" \/ child
    /\ pipe[s] + n <= PipeSize /\ emitted[s] + n <= MaxEmitted
    /\ pipe' = [pipe EXCEPT ![s] = @ + n]
    /\ emitted' = [emitted EXCEPT ![s] = @ + n]
    /\ UNCHANGED <<callVars, pc, proc, exit, child, ctxVars, outVars, result>>

ForkChild ==
    /\ pc = "wait" /\ proc = "running" /\ ~child
    /\ child' = TRUE
    /\ UNCHANGED <<callVars, pc, proc, exit, emitted, pipe, ctxVars, outVars, result>>

ChildEnds ==
    /\ pc \in {"wait", "drain"} /\ child
    /\ child' = FALSE
    /\ UNCHANGED <<callVars, pc, proc, exit, emitted, pipe, ctxVars, outVars, result>>

ProcessExits(status) ==
    /\ pc = "wait" /\ proc = "running"
    /\ proc' = "exited"
    /\ exit' = status
    /\ UNCHANGED <<callVars, pc, child, emitted, pipe, ctxVars, outVars, result>>

\* The timeout passes, or the agent's own context is cancelled; the context
\* keeps the reason that came first.
ContextEnds(reason) ==
    /\ pc \in {"start", "wait", "drain", "returned"}
    /\ ctxErr = "none"
    /\ ctxErr' = reason
    /\ UNCHANGED <<callVars, pc, procVars, watch, err, outVars, result>>

\* Mutant: exec.Command in place of exec.CommandContext.
KillNothing ==
    /\ pc = "wait" /\ watch = "armed" /\ ctxErr # "none"
    /\ watch' = ctxErr
    /\ UNCHANGED <<callVars, pc, procVars, ctxErr, err, outVars, result>>

\* The watching goroutine kills the process.  One that has just ended may
\* still take the signal, or be found to be done.
KillProcess ==
    /\ pc = "wait" /\ watch = "armed" /\ ctxErr # "none"
    /\ \/ /\ proc = "running"
          /\ proc' = "exited" /\ exit' = Killed
          /\ watch' = ctxErr
       \/ /\ proc = "exited"
          /\ watch' \in {ctxErr, "none"}
          /\ UNCHANGED <<proc, exit>>
    /\ UNCHANGED <<callVars, pc, child, emitted, pipe, ctxErr, err, outVars, result>>

\* Process.Wait: an exit status other than 0 comes before the error of the
\* watching goroutine, which ends here.
WaitReturns ==
    /\ pc = "wait" /\ proc = "exited"
    /\ err' = IF exit # 0 THEN "exit"
              ELSE IF watch \in {"deadline", "canceled"} THEN "context" ELSE "none"
    /\ pc' = "drain"
    /\ UNCHANGED <<callVars, procVars, ctxErr, watch, outVars, result>>

\* Mutant: output past the limit is dropped without a mark.
WriteUnmarked(s, n) ==
    LET kept == Min({n, remaining}) IN
    /\ buf' = [buf EXCEPT ![s] = @ + kept]
    /\ remaining' = remaining - kept
    /\ truncated' = (truncated \/ (remaining > 0 /\ n > remaining))

\* limitedStream.Write, under the limiter's mutex.
Write(s, n) ==
    LET kept == Min({n, remaining}) IN
    /\ buf' = [buf EXCEPT ![s] = @ + kept]
    /\ remaining' = remaining - kept
    /\ truncated' = (truncated \/ kept < n)

\* The bytes.Buffer of runJSON has no limit.
BufferWrite(s, n) ==
    /\ buf' = [buf EXCEPT ![s] = @ + n]
    /\ UNCHANGED <<remaining, truncated>>

CopyOutput(s, n) ==
    /\ pc \in {"wait", "drain"}
    /\ n <= pipe[s]
    /\ pipe' = [pipe EXCEPT ![s] = @ - n]
    /\ IF caller = "runner" THEN Write(s, n) ELSE BufferWrite(s, n)
    /\ UNCHANGED <<callVars, pc, proc, exit, child, emitted, ctxVars, result>>

\* Both pipes are at their end: empty, and nobody has them open.
CopyEnds ==
    /\ pc = "drain" /\ ~child
    /\ \A s \in Streams : pipe[s] = 0
    /\ pc' = "returned"
    /\ UNCHANGED <<callVars, procVars, ctxVars, outVars, result>>

-----------------------------------------------------------------------------
(* The callers, after cmd.Run.                                             *)

\* Mutant: the error is looked at before the deadline, as runJSON does.
ErrorFirst ==
    IF err # "none" THEN [state |-> "failed",
                          code |-> IF err = "exit" THEN exit ELSE Killed]
    ELSE IF ctxErr = "deadline" THEN [state |-> "timed_out", code |-> Killed]
    ELSE [state |-> "succeeded", code |-> 0]

\* runner.Run: the deadline is looked at before the error, and after cmd.Run
\* has returned: it may have passed since.
RunResult ==
    IF ctxErr = "deadline" THEN [state |-> "timed_out", code |-> Killed]
    ELSE IF err # "none" THEN [state |-> "failed",
                               code |-> IF err = "exit" THEN exit ELSE Killed]
    ELSE [state |-> "succeeded", code |-> 0]

\* The decoder of runJSON: one JSON value, nothing after it, of schema 1.
Decoded ==
    IF buf["stdout"] # SnapshotBytes \/ document = "not_json" THEN "invalid_json"
    ELSE IF document = "other_schema" THEN "unsupported_schema"
    ELSE "available"

\* Mutant: only the deadline is looked at.
CollectUnchecked ==
    [state |-> IF ctxErr = "deadline" THEN "timeout" ELSE Decoded, code |-> Nil]

\* runJSON and Summary.
CollectResult ==
    [state |-> IF err = "none" THEN Decoded
               ELSE IF ctxErr = "deadline" THEN "timeout" ELSE "mgate_exec_failed",
     code |-> Nil]

Return ==
    /\ pc = "returned"
    /\ pc' = "done"
    /\ result' = IF caller = "runner" THEN RunResult ELSE CollectResult
    /\ UNCHANGED <<callVars, procVars, ctxVars, outVars>>

Init ==
    /\ TimeoutInit
    /\ caller \in {"runner", "mgate"}
    /\ binary \in {"executable", "plain", "directory", "missing"}
    /\ document \in {"snapshot", "other_schema", "not_json"}
    /\ pc = "idle"
    /\ proc = "none" /\ exit = Nil /\ child = FALSE
    /\ emitted = [s \in Streams |-> 0] /\ pipe = [s \in Streams |-> 0]
    /\ ctxErr = "none" /\ watch = "armed" /\ err = "none"
    /\ buf = [s \in Streams |-> 0]
    /\ remaining = IF MaxOutputBytes <= 0 THEN 1 ELSE MaxOutputBytes
    /\ truncated = FALSE
    /\ result = NoResult

Bytes == 1 .. PipeSize

Begin ==
    \/ \E limit \in SpecTimeouts, sec \in Word \cup {Nil} : RunCommand(limit, sec)
    \/ Collect

\* What os/exec, the two callers and the clock do.
AgentStep ==
    \/ StartFails \/ StartProcess \/ KillProcess \/ WaitReturns
    \/ \E s \in Streams, n \in Bytes : CopyOutput(s, n)
    \/ CopyEnds \/ Return

\* What mgate.sh and its children do, in their own time.
ProcessStep ==
    \/ \E s \in Streams, n \in Bytes : Emit(s, n)
    \/ ForkChild \/ ChildEnds
    \/ \E status \in {0, 1} : ProcessExits(status)

Next ==
    \/ Begin \/ AgentStep \/ ProcessStep
    \/ \E reason \in {"deadline", "canceled"} : ContextEnds(reason)

Spec == Init /\ [][Next]_vars

\* The agent's goroutines run, and time passes.  Nothing is assumed of
\* mgate.sh: it may print and run for ever.
Fairness ==
    /\ WF_vars(StartFails \/ StartProcess)
    /\ WF_vars(KillProcess) /\ WF_vars(WaitReturns)
    /\ \A s \in Streams : WF_vars(\E n \in Bytes : CopyOutput(s, n))
    /\ WF_vars(CopyEnds) /\ WF_vars(Return)
    /\ WF_vars(ContextEnds("deadline"))

FairSpec == Spec /\ Fairness

-----------------------------------------------------------------------------
(* Properties.                                                             *)

\* config/default.go:63, "the bytes of stdout and stderr together that are
\* returned at most, the rest is cut off": whatever the goroutines of the two
\* streams write first, and whether the process exits or is killed, the
\* result holds as many of the bytes written as the limit allows, and is
\* marked truncated exactly when there were more.
OutputAccounted ==
    LET limit == IF MaxOutputBytes <= 0 THEN 1 ELSE MaxOutputBytes IN
    pc = "done" /\ caller = "runner" =>
        /\ Total(buf) = Min({Total(emitted), limit})
        /\ truncated = (Total(emitted) > limit)

\* What runner.Run reports agrees with what the process did: success is a
\* process that exited with 0, an exit code is the one it exited with, a
\* process that the deadline killed has timed out and one that a shutdown
\* killed has failed.  A process that exited with 0 is reported otherwise
\* only when its context ended before the result was made.
ResultTellsExit ==
    pc = "done" /\ caller = "runner" /\ proc # "none" =>
        /\ result.state = "succeeded" => exit = 0
        /\ result.code # Killed => result.code = exit
        /\ exit = Killed =>
             result.state = IF ctxErr = "deadline" THEN "timed_out" ELSE "failed"
        /\ exit = 0 /\ result.state # "succeeded" => ctxErr # "none"

\* docs/mgate-sh-contract.md:466, "a command that times out is reported as
\* snapshot_timeout": the client takes no snapshot from a process that failed
\* or was killed, even when all of it had been printed, nor from a part of
\* one, and a process that the deadline killed is reported as a timeout.
SummaryTellsRun ==
    pc = "done" /\ caller = "mgate" /\ proc # "none" =>
        /\ result.state = "available" =>
             exit = 0 /\ emitted["stdout"] = SnapshotBytes /\ document = "snapshot"
        /\ exit = Killed /\ ctxErr = "deadline" => result.state = "timeout"

\* A process that never ends is ended by its deadline: the call returns,
\* unless a child keeps the pipes open for ever.
CallReturns == <>[]child \/ (pc = "start" ~> pc = "done")
=============================================================================
