---------------------------- MODULE RunnerProofs ----------------------------
(***************************************************************************)
(* The two calls of mgate.sh, for every word width and action limit, every *)
(* size of the pipes and of the output limit, and every order in which the *)
(* process, its children, the copying goroutines and the context act: the  *)
(* deadline keeps to the limit of the action, the output is accounted for, *)
(* and what is reported is what the process did.                           *)
(***************************************************************************)
EXTENDS Runner, TLAPS

-----------------------------------------------------------------------------
(* The deadline.                                                           *)

\* What the invariant needs besides the property: the limit is positive.
DeadlineInv ==
    /\ spec \in Int /\ spec > 0
    /\ effective \in Int \cup {Nil}
    /\ DeadlineWithinLimit

LEMMA WrapIsInt ==
    ASSUME NEW n \in Int
    PROVE  Wrap(n) \in Int
  <1>1. ASSUME NEW half \in Nat, NEW full \in Nat \ {0}
        PROVE  ((n + half) % full) - half \in Int
    OBVIOUS
  <1>. QED  BY <1>1, WidthPositive DEF Wrap

LEMMA SpecTimeoutsPositive ==
    ASSUME NEW limit \in SpecTimeouts
    PROVE  limit \in Int /\ limit > 0
  BY WidthPositive, DurationsAreWords DEF Word

LEMMA HandleDeadline ==
    ASSUME NEW limit \in SpecTimeouts, NEW sec \in Word \cup {Nil}, Handle(limit, sec)
    PROVE  DeadlineInv'
  <1>1. limit \in Int /\ limit > 0
    BY SpecTimeoutsPositive
  <1>2. resolveTimeout(limit, sec) = Nil
        \/ (resolveTimeout(limit, sec) \in Int /\ resolveTimeout(limit, sec) <= limit)
    <2>1. CASE sec = Nil
      BY <1>1, <2>1 DEF resolveTimeout
    <2>2. CASE sec # Nil
      <3>1. sec \in Int /\ Second \in Int
        BY <2>2, WidthPositive, DurationsAreWords DEF Word
      <3>2. Wrap(sec * Second) \in Int
        BY <3>1, WrapIsInt
      <3>. QED  BY <1>1, <2>2, <3>1, <3>2 DEF resolveTimeout
    <2>. QED  BY <2>1, <2>2
  <1>. QED
    BY <1>1, <1>2, NilIsNoWord
    DEF Handle, runTimeout, DeadlineInv, DeadlineWithinLimit

\* Only RunCommand touches the timeouts.
LEMMA CallStep ==
    ASSUME [Next]_vars
    PROVE  \/ UNCHANGED callVars
           \/ /\ UNCHANGED <<caller, binary, document>>
              /\ \E limit \in SpecTimeouts, sec \in Word \cup {Nil} : Handle(limit, sec)
  BY DEF Next, Begin, AgentStep, ProcessStep, RunCommand, Collect, StartFails,
         StartProcess, Emit, ForkChild, ChildEnds, ProcessExits, ContextEnds,
         KillProcess, WaitReturns, CopyOutput, CopyEnds, Return, vars

\* resolveTimeout and runner.Run: no command runs without a deadline or
\* beyond the limit of its action, whatever its timeout_sec wraps to.
THEOREM DeadlineHolds == Spec => []DeadlineWithinLimit
  <1>1. Init => DeadlineInv
    BY SpecTimeoutsPositive DEF Init, TimeoutInit, DeadlineInv, DeadlineWithinLimit
  <1>2. DeadlineInv /\ [Next]_vars => DeadlineInv'
    BY CallStep, HandleDeadline DEF callVars, timeoutVars, DeadlineInv, DeadlineWithinLimit
  <1>3. DeadlineInv => DeadlineWithinLimit
    BY DEF DeadlineInv
  <1>. QED  BY <1>1, <1>2, <1>3, PTL DEF Spec

-----------------------------------------------------------------------------
(* The output.                                                             *)

Limit == IF MaxOutputBytes <= 0 THEN 1 ELSE MaxOutputBytes

\* The bytes that have come out of the pipes.
Copied == Total(emitted) - Total(pipe)

OutputTypes ==
    /\ emitted \in [Streams -> Nat] /\ pipe \in [Streams -> Nat]
    /\ buf \in [Streams -> Nat] /\ remaining \in Nat /\ truncated \in BOOLEAN
    /\ caller \in {"runner", "mgate"}

\* The pipes are in use only between Start and the end of the copying.
PipesEmpty == pc \notin {"wait", "drain"} => \A s \in Streams : pipe[s] = 0

\* The limiter: what is kept and what may still be kept make up the limit,
\* and the mark tells whether more came out of the pipes than that.
LimiterExact ==
    caller = "runner" =>
        /\ Total(buf) + remaining = Limit
        /\ \/ truncated = TRUE /\ Copied > Limit /\ remaining = 0
           \/ truncated = FALSE /\ Total(buf) = Copied

\* runJSON keeps everything.
BufferExact ==
    caller = "mgate" => \A s \in Streams : buf[s] + pipe[s] = emitted[s]

OutputInv == OutputTypes /\ PipesEmpty /\ LimiterExact /\ BufferExact

LEMMA LimitPositive == Limit \in Nat /\ Limit > 0
  BY OutputSizes DEF Limit

LEMMA MinOfTwo ==
    ASSUME NEW a \in Int, NEW b \in Int
    PROVE  Min({a, b}) = IF a <= b THEN a ELSE b
  <1>. DEFINE P(x) == x \in {a, b} /\ \A y \in {a, b} : x =< y
  <1>1. Min({a, b}) = CHOOSE x : P(x)
    BY DEF Min
  <1>2. \E x : P(x)
    <2>1. CASE a <= b
      <3>1. P(a)
        BY <2>1
      <3>. QED  BY <3>1
    <2>2. CASE ~(a <= b)
      <3>1. P(b)
        BY <2>2
      <3>. QED  BY <3>1
    <2>. QED  BY <2>1, <2>2
  <1>3. P(CHOOSE x : P(x))
    BY <1>2
  <1>. HIDE DEF P
  <1>4. P(Min({a, b}))
    BY <1>1, <1>3
  <1>. QED  BY <1>4 DEF P

\* limitedStream.Write: of n bytes as many are kept as still fit.
LEMMA WriteAccounts ==
    ASSUME OutputTypes, NEW s \in Streams, NEW n \in Nat, Write(s, n)
    PROVE  /\ buf' \in [Streams -> Nat] /\ remaining' \in Nat /\ truncated' \in BOOLEAN
           /\ IF n <= remaining
              THEN /\ Total(buf)' = Total(buf) + n /\ remaining' = remaining - n
                   /\ truncated' = truncated
              ELSE /\ Total(buf)' = Total(buf) + remaining /\ remaining' = 0
                   /\ truncated' = TRUE
  <1>. DEFINE kept == IF n <= remaining THEN n ELSE remaining
  <1>1. Min({n, remaining}) = kept /\ kept \in Nat /\ kept <= n /\ kept <= remaining
    BY MinOfTwo DEF OutputTypes
  <1>2. /\ buf' = [buf EXCEPT ![s] = @ + kept] /\ remaining' = remaining - kept
        /\ truncated' = (truncated \/ kept < n)
    BY <1>1 DEF Write
  <1>3. Total(buf)' = Total(buf) + kept
    BY <1>1, <1>2 DEF OutputTypes, Total, Streams
  <1>4. /\ buf' \in [Streams -> Nat] /\ remaining' \in Nat
    BY <1>1, <1>2 DEF OutputTypes
  <1>5. ASSUME n <= remaining
        PROVE  truncated' = truncated
    <2>1. ~(kept < n)
      BY <1>5 DEF OutputTypes
    <2>. QED  BY <1>2, <2>1, Zenon DEF OutputTypes
  <1>6. ASSUME ~(n <= remaining)
        PROVE  truncated' = TRUE
    <2>1. kept < n
      BY <1>6 DEF OutputTypes
    <2>. QED  BY <1>2, <2>1, Zenon
  <1>7. truncated' \in BOOLEAN
    BY <1>5, <1>6, Zenon DEF OutputTypes
  <1>8. CASE n <= remaining
    BY <1>2, <1>3, <1>4, <1>5, <1>7, <1>8
  <1>9. CASE ~(n <= remaining)
    <2>1. remaining' = 0
      BY <1>2, <1>9 DEF OutputTypes
    <2>. QED  BY <1>3, <1>4, <1>6, <1>7, <1>9, <2>1
  <1>. QED  BY <1>8, <1>9

LEMMA EmitKeeps ==
    ASSUME OutputInv, NEW s \in Streams, NEW n \in Bytes, Emit(s, n)
    PROVE  OutputInv'
  <1>1. n \in Nat
    BY OutputSizes DEF Bytes
  <1>2. /\ pipe' = [pipe EXCEPT ![s] = @ + n] /\ emitted' = [emitted EXCEPT ![s] = @ + n]
        /\ pc \in {"wait", "drain"} /\ UNCHANGED <<caller, pc, buf, remaining, truncated>>
    BY DEF Emit, callVars, outVars
  <1>3. Total(emitted)' = Total(emitted) + n /\ Total(pipe)' = Total(pipe) + n
    BY <1>1, <1>2 DEF OutputInv, OutputTypes, Total, Streams
  <1>4. Copied' = Copied
    BY <1>1, <1>3 DEF Copied, OutputInv, OutputTypes, Total, Streams
  <1>5. OutputTypes'
    BY <1>1, <1>2 DEF OutputInv, OutputTypes
  <1>6. LimiterExact'
    BY <1>2, <1>4 DEF OutputInv, LimiterExact, Total
  <1>7. BufferExact'
    BY <1>1, <1>2 DEF OutputInv, OutputTypes, BufferExact
  <1>. QED  BY <1>2, <1>5, <1>6, <1>7 DEF OutputInv, PipesEmpty

LEMMA CopyKeeps ==
    ASSUME OutputInv, NEW s \in Streams, NEW n \in Bytes, CopyOutput(s, n)
    PROVE  OutputInv'
  <1>1. n \in Nat
    BY OutputSizes DEF Bytes
  <1>2. /\ pipe' = [pipe EXCEPT ![s] = @ - n] /\ n <= pipe[s]
        /\ pc \in {"wait", "drain"} /\ UNCHANGED <<caller, pc, emitted>>
    BY DEF CopyOutput, callVars
  <1>3. Total(pipe)' = Total(pipe) - n /\ pipe' \in [Streams -> Nat]
    BY <1>1, <1>2 DEF OutputInv, OutputTypes, Total, Streams
  <1>4. Copied' = Copied + n /\ Copied \in Int
    BY <1>1, <1>2, <1>3 DEF Copied, OutputInv, OutputTypes, Total, Streams
  <1>5. Total(buf) \in Nat
    BY DEF OutputInv, OutputTypes, Total, Streams
  <1>6. CASE caller = "runner"
    <2>1. Write(s, n)
      BY <1>6 DEF CopyOutput
    <2>2. OutputTypes'
      BY <1>1, <1>2, <1>3, <2>1, WriteAccounts DEF OutputInv, OutputTypes
    <2>3. LimiterExact'
      <3>1. /\ Total(buf) + remaining = Limit /\ remaining \in Nat
            /\ \/ truncated = TRUE /\ Copied > Limit /\ remaining = 0
               \/ truncated = FALSE /\ Total(buf) = Copied
        BY <1>6 DEF OutputInv, OutputTypes, LimiterExact
      <3>2. CASE n <= remaining
        <4>1. /\ Total(buf)' = Total(buf) + n /\ remaining' = remaining - n
              /\ truncated' = truncated
          BY <1>1, <2>1, <3>2, WriteAccounts DEF OutputInv
        <4>. QED  BY <1>1, <1>4, <1>5, <3>1, <3>2, <4>1, LimitPositive DEF LimiterExact
      <3>3. CASE ~(n <= remaining)
        <4>1. /\ Total(buf)' = Total(buf) + remaining /\ remaining' = 0
              /\ truncated' = TRUE
          BY <1>1, <2>1, <3>3, WriteAccounts DEF OutputInv
        <4>. QED  BY <1>1, <1>4, <1>5, <3>1, <3>3, <4>1, LimitPositive DEF LimiterExact
      <3>. QED  BY <3>2, <3>3
    <2>. QED  BY <1>2, <1>6, <2>2, <2>3 DEF OutputInv, PipesEmpty, BufferExact
  <1>7. CASE caller = "mgate"
    <2>1. buf' = [buf EXCEPT ![s] = @ + n] /\ UNCHANGED <<remaining, truncated>>
      BY <1>7 DEF CopyOutput, BufferWrite
    <2>2. OutputTypes'
      BY <1>1, <1>2, <1>3, <2>1 DEF OutputInv, OutputTypes
    <2>3. BufferExact'
      BY <1>1, <1>2, <2>1 DEF OutputInv, OutputTypes, BufferExact
    <2>. QED  BY <1>2, <1>7, <2>2, <2>3 DEF OutputInv, PipesEmpty, LimiterExact
  <1>. QED  BY <1>6, <1>7 DEF OutputInv, OutputTypes

LEMMA OutputStarts == Init => OutputInv
  <1>. SUFFICES ASSUME Init PROVE OutputInv
    OBVIOUS
  <1>1. Limit \in Nat
    BY LimitPositive
  <1>2. remaining = Limit
    BY DEF Init, Limit
  <1>3. Total(buf) = 0 /\ Copied = 0
    BY DEF Init, Total, Copied, Streams
  <1>4. OutputTypes
    BY <1>1, <1>2 DEF Init, OutputTypes
  <1>5. PipesEmpty /\ BufferExact
    BY DEF Init, PipesEmpty, BufferExact
  <1>6. LimiterExact
    BY <1>1, <1>2, <1>3 DEF Init, LimiterExact
  <1>. QED  BY <1>4, <1>5, <1>6 DEF OutputInv

LEMMA OutputStepKeeps ==
    ASSUME OutputInv, [Next]_vars
    PROVE  OutputInv'
  <1>1. ASSUME UNCHANGED <<caller, emitted, pipe, buf, remaining, truncated>>, PipesEmpty'
        PROVE  OutputInv'
    BY <1>1 DEF OutputInv, OutputTypes, LimiterExact, BufferExact, Copied, Total
  <1>2. ASSUME Begin
        PROVE  OutputInv'
    BY <1>1, <1>2 DEF Begin, RunCommand, Collect, procVars, outVars, callVars,
                      OutputInv, PipesEmpty
  <1>3. ASSUME AgentStep
        PROVE  OutputInv'
    <2>1. CASE StartFails \/ StartProcess \/ KillProcess \/ WaitReturns \/ Return
      BY <1>1, <2>1 DEF StartFails, StartProcess, KillProcess, WaitReturns, Return,
                        procVars, outVars, callVars, OutputInv, PipesEmpty
    <2>2. CASE CopyEnds
      BY <1>1, <2>2 DEF CopyEnds, procVars, outVars, callVars, PipesEmpty
    <2>. QED  BY <1>3, <2>1, <2>2, CopyKeeps DEF AgentStep
  <1>4. ASSUME ProcessStep
        PROVE  OutputInv'
    <2>1. CASE ForkChild \/ ChildEnds \/ \E status \in {0, 1} : ProcessExits(status)
      BY <1>1, <2>1 DEF ForkChild, ChildEnds, ProcessExits, outVars, callVars,
                        OutputInv, PipesEmpty
    <2>. QED  BY <1>4, <2>1, EmitKeeps DEF ProcessStep
  <1>5. ASSUME NEW reason, ContextEnds(reason)
        PROVE  OutputInv'
    BY <1>1, <1>5 DEF ContextEnds, procVars, outVars, callVars, OutputInv, PipesEmpty
  <1>6. CASE UNCHANGED vars
    BY <1>1, <1>6 DEF vars, procVars, outVars, callVars, OutputInv, PipesEmpty
  <1>. QED  BY <1>2, <1>3, <1>4, <1>5, <1>6 DEF Next

\* config/default.go:63: however the goroutines of the two streams share the
\* limiter, the result holds as many of the bytes written as max_output_bytes
\* allows, and is marked truncated exactly when there were more.
THEOREM OutputAccountedHolds == Spec => []OutputAccounted
  <1>1. OutputInv => OutputAccounted
    <2>. SUFFICES ASSUME OutputInv, pc = "done", caller = "runner"
                  PROVE  /\ Total(buf) = Min({Total(emitted), Limit})
                         /\ truncated = (Total(emitted) > Limit)
      BY DEF OutputAccounted, Limit
    <2>1. /\ Total(emitted) \in Nat /\ Total(buf) \in Nat /\ Total(pipe) = 0
          /\ Copied = Total(emitted) /\ truncated \in BOOLEAN /\ remaining \in Nat
      BY DEF OutputInv, OutputTypes, PipesEmpty, Total, Streams, Copied
    <2>2. Min({Total(emitted), Limit}) = IF Total(emitted) <= Limit THEN Total(emitted)
                                                                    ELSE Limit
      BY <2>1, LimitPositive, MinOfTwo
    <2>3. /\ Total(buf) + remaining = Limit
          /\ \/ truncated = TRUE /\ Copied > Limit /\ remaining = 0
             \/ truncated = FALSE /\ Total(buf) = Copied
      BY DEF OutputInv, LimiterExact
    <2>4. Total(buf) = Min({Total(emitted), Limit})
      BY <2>1, <2>2, <2>3, LimitPositive
    <2>5. CASE truncated = TRUE
      <3>1. Total(emitted) > Limit
        BY <2>1, <2>3, <2>5
      <3>. QED  BY <2>4, <2>5, <3>1, Zenon
    <2>6. CASE truncated = FALSE
      <3>1. ~(Total(emitted) > Limit)
        BY <2>1, <2>3, <2>6, LimitPositive
      <3>2. (Total(emitted) > Limit) = FALSE
        BY <3>1
      <3>. QED  BY <2>4, <2>6, <3>2
    <2>. QED  BY <2>3, <2>5, <2>6
  <1>. QED  BY <1>1, OutputStarts, OutputStepKeeps, PTL DEF Spec

-----------------------------------------------------------------------------
(* The result.                                                             *)

\* What the process is doing at each point of the call.
ProcessOK ==
    /\ pc \in {"idle", "start"} => proc = "none" /\ watch = "armed"
    /\ pc = "wait" => proc \in {"running", "exited"}
    /\ pc = "drain" => proc = "exited"
    /\ pc \in {"returned", "done"} => proc \in {"none", "exited"}

\* A process is killed only because the context is over.
ExitOK ==
    /\ proc = "exited" => exit \in {0, 1, Killed}
    /\ proc = "exited" /\ exit = Killed => ctxErr # "none"
    /\ watch \in {"deadline", "canceled"} => ctxErr # "none"

\* The error of cmd.Run.
ErrorOK ==
    pc \in {"drain", "returned", "done"} /\ proc = "exited" =>
        IF exit # 0 THEN err = "exit"
        ELSE err = "none" \/ (err = "context" /\ ctxErr # "none")

\* The result was made from what is still there: nothing happens after it.
ResultOK ==
    pc = "done" /\ proc # "none" =>
        result = IF caller = "runner" THEN RunResult ELSE CollectResult

DocumentOK == document \in {"snapshot", "other_schema", "not_json"}

ResultInv == OutputInv /\ DocumentOK /\ ProcessOK /\ ExitOK /\ ErrorOK /\ ResultOK

LEMMA ResultStarts == Init => ResultInv
  BY OutputStarts DEF Init, ResultInv, DocumentOK, ProcessOK, ExitOK, ErrorOK, ResultOK

LEMMA ResultStepKeeps ==
    ASSUME ResultInv, [Next]_vars
    PROVE  ResultInv'
  <1>. DEFINE Others == ProcessOK /\ ExitOK /\ ErrorOK /\ ResultOK
  <1>. USE DEF ResultInv
  <1>1. OutputInv' /\ DocumentOK'
    BY OutputStepKeeps, CallStep DEF DocumentOK, callVars
  <1>2. ASSUME Begin
        PROVE  Others'
    BY <1>2 DEF Begin, RunCommand, Collect, procVars, ctxVars, ProcessOK, ExitOK,
                ErrorOK, ResultOK
  <1>3. ASSUME StartFails \/ StartProcess
        PROVE  Others'
    BY <1>3 DEF StartFails, StartProcess, procVars, ctxVars, ProcessOK, ExitOK,
                ErrorOK, ResultOK
  <1>4. ASSUME KillProcess
        PROVE  Others'
    BY <1>4 DEF KillProcess, ProcessOK, ExitOK, ErrorOK, ResultOK
  <1>5. ASSUME WaitReturns
        PROVE  Others'
    BY <1>5 DEF WaitReturns, procVars, ProcessOK, ExitOK, ErrorOK, ResultOK
  <1>6. ASSUME NEW s \in Streams, NEW n \in Bytes, CopyOutput(s, n) \/ Emit(s, n)
        PROVE  Others'
    BY <1>6 DEF CopyOutput, Emit, ctxVars, ProcessOK, ExitOK, ErrorOK, ResultOK
  <1>7. ASSUME CopyEnds
        PROVE  Others'
    BY <1>7 DEF CopyEnds, procVars, ctxVars, ProcessOK, ExitOK, ErrorOK, ResultOK
  <1>8. ASSUME Return
        PROVE  Others'
    <2>1. result' = (IF caller = "runner" THEN RunResult ELSE CollectResult)'
      BY <1>8 DEF Return, callVars, procVars, ctxVars, outVars, RunResult,
                  CollectResult, Decoded
    <2>2. ResultOK'
      BY <2>1 DEF ResultOK
    <2>3. ProcessOK' /\ ExitOK' /\ ErrorOK'
      BY <1>8 DEF Return, procVars, ctxVars, ProcessOK, ExitOK, ErrorOK
    <2>. QED  BY <2>2, <2>3
  <1>9. ASSUME ForkChild \/ ChildEnds \/ \E status \in {0, 1} : ProcessExits(status)
        PROVE  Others'
    BY <1>9 DEF ForkChild, ChildEnds, ProcessExits, ctxVars, ProcessOK, ExitOK,
                ErrorOK, ResultOK, Killed
  <1>10. ASSUME NEW reason \in {"deadline", "canceled"}, ContextEnds(reason)
         PROVE  Others'
    BY <1>10 DEF ContextEnds, procVars, ProcessOK, ExitOK, ErrorOK, ResultOK
  <1>11. ASSUME UNCHANGED vars
         PROVE  Others'
    BY <1>11 DEF vars, callVars, procVars, ctxVars, outVars, ProcessOK, ExitOK, ErrorOK,
                 ResultOK, RunResult, CollectResult, Decoded
  <1>. HIDE DEF Others
  <1>12. Others'
    BY <1>2, <1>3, <1>4, <1>5, <1>6, <1>7, <1>8, <1>9, <1>10, <1>11
    DEF Next, AgentStep, ProcessStep
  <1>. QED  BY <1>1, <1>12 DEF Others

\* What runner.Run reports agrees with what the process did, in whatever
\* order its exit, the deadline, the kill and a shutdown came.
THEOREM ResultTellsExitHolds == Spec => []ResultTellsExit
  <1>1. ResultInv => ResultTellsExit
    <2>. SUFFICES ASSUME ResultInv, pc = "done", caller = "runner", proc # "none"
                  PROVE  /\ result.state = "succeeded" => exit = 0
                         /\ result.code # Killed => result.code = exit
                         /\ exit = Killed =>
                              result.state = IF ctxErr = "deadline" THEN "timed_out"
                                                                    ELSE "failed"
                         /\ exit = 0 /\ result.state # "succeeded" => ctxErr # "none"
      BY DEF ResultTellsExit
    <2>1. /\ proc = "exited" /\ exit \in {0, 1, Killed}
          /\ IF exit # 0 THEN err = "exit"
             ELSE err = "none" \/ (err = "context" /\ ctxErr # "none")
          /\ result = RunResult
      BY DEF ResultInv, ProcessOK, ExitOK, ErrorOK, ResultOK
    <2>. QED  BY <2>1 DEF RunResult, Killed
  <1>. QED  BY <1>1, ResultStarts, ResultStepKeeps, PTL DEF Spec

\* docs/mgate-sh-contract.md:466: the client takes a snapshot only from a
\* process that exited with 0 and had printed all of it and nothing else, and
\* reports a process that the deadline killed as a timeout.
THEOREM SummaryTellsRunHolds == Spec => []SummaryTellsRun
  <1>1. ResultInv => SummaryTellsRun
    <2>. SUFFICES ASSUME ResultInv, pc = "done", caller = "mgate", proc # "none"
                  PROVE  /\ result.state = "available" =>
                              /\ exit = 0 /\ emitted["stdout"] = SnapshotBytes
                              /\ document = "snapshot"
                         /\ exit = Killed /\ ctxErr = "deadline" => result.state = "timeout"
      BY DEF SummaryTellsRun
    <2>1. /\ proc = "exited" /\ exit \in {0, 1, Killed}
          /\ IF exit # 0 THEN err = "exit"
             ELSE err = "none" \/ (err = "context" /\ ctxErr # "none")
          /\ result = CollectResult
      BY DEF ResultInv, ProcessOK, ExitOK, ErrorOK, ResultOK
    <2>2. buf["stdout"] = emitted["stdout"]
      BY DEF ResultInv, OutputInv, OutputTypes, PipesEmpty, BufferExact, Streams
    <2>. QED  BY <2>1, <2>2 DEF ResultInv, DocumentOK, CollectResult, Decoded, Killed
  <1>. QED  BY <1>1, ResultStarts, ResultStepKeeps, PTL DEF Spec
=============================================================================
