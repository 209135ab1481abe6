--------------------------- MODULE WSClientProofs ---------------------------
(***************************************************************************)
(* The WebSocket client, for any number of connections, workers, commands  *)
(* and repetitions: its workers hand to Handle only what its reader queued,*)
(* so that the argument of HandlerProofs applies, and connections follow   *)
(* one another.                                                            *)
(***************************************************************************)
EXTENDS WSClient, HandlerProofs, FiniteSetTheorems

\* The queues hold deliveries, and never more than fit.
QueuesOK ==
    /\ jobs \in [Conns -> Seq(Deliveries)]
    /\ \A k \in Conns : Len(jobs[k]) <= QueueSize

ClientInv == HandlerInv /\ QueuesOK

LEMMA ClientStarts == Init => ClientInv
  <1>. SUFFICES ASSUME Init PROVE ClientInv
    OBVIOUS
  <1>1. HandlerInv
    BY HandlerStarts DEF Init
  <1>2. QueuesOK
    BY SizesPositive DEF Init, QueuesOK
  <1>. QED  BY <1>1, <1>2 DEF ClientInv

\* Steps that leave Handle and the queues alone.
LEMMA QuietSteps ==
    ASSUME NEW k \in Conns,
           \/ RunStep(k) \/ WriterStep(k) \/ Heartbeat(k) \/ ReaderSend(k)
           \/ ReaderReject(k) \/ ReaderRejectFails(k) \/ ReadFails(k)
           \/ ReaderCancelled(k)
    PROVE  UNCHANGED <<handlerVars, jobs>>
  BY DEF RunStep, Dial, HelloAck, HelloFails, Stop, Closed, WriterStep, Write,
         WriterExits, Heartbeat, ReaderSend, ReaderReject, ReaderRejectFails,
         ReadFails, ReaderCancelled, chanVars

\* The reader queues a delivery only where there is room.
LEMMA ReadCommandKeeps ==
    ASSUME ClientInv, NEW k \in Conns, NEW d \in Deliveries, ReadCommand(k, d)
    PROVE  ClientInv'
  <1>1. HandlerInv'
    <2>1. HandlerStep
      BY DEF ReadCommand, HandlerStep
    <2>. QED  BY <2>1, HandlerStepKeeps DEF ClientInv
  <1>2. QueuesOK'
    <2>1. jobs' = [jobs EXCEPT ![k] =
                     IF Envelope[d] = "ok" /\ ~(Len(jobs[k]) >= QueueSize)
                       THEN Append(jobs[k], d) ELSE jobs[k]]
      BY DEF ReadCommand
    <2>2. jobs[k] \in Seq(Deliveries) /\ Len(jobs[k]) \in Nat
      BY DEF ClientInv, QueuesOK
    <2>3. Append(jobs[k], d) \in Seq(Deliveries)
          /\ Len(Append(jobs[k], d)) = Len(jobs[k]) + 1
      BY <2>2
    <2>. QED  BY <2>1, <2>2, <2>3, SizesPositive DEF ClientInv, QueuesOK
  <1>. QED  BY <1>1, <1>2 DEF ClientInv

\* A worker takes the head of the queue and goes through Handle.
LEMMA WorkerKeeps ==
    ASSUME ClientInv, NEW t \in Threads, WorkerStep(t)
    PROVE  ClientInv'
  <1>. DEFINE k == ConnOf[t]
  <1>0. k \in Conns
    BY ConnOfType
  <1>1. CASE TakeJob(t)
    <2>1. jobs[k] \in Seq(Deliveries) /\ jobs[k] # <<>> /\ Len(jobs[k]) <= QueueSize
      BY <1>0, <1>1 DEF TakeJob, ClientInv, QueuesOK
    <2>2. /\ Head(jobs[k]) \in Deliveries /\ Tail(jobs[k]) \in Seq(Deliveries)
          /\ Len(Tail(jobs[k])) = Len(jobs[k]) - 1 /\ Len(jobs[k]) \in Nat
      BY <2>1
    <2>3. HandlerStep
      BY <1>1, <2>2 DEF TakeJob, HandlerStep
    <2>4. HandlerInv'
      BY <2>3, HandlerStepKeeps DEF ClientInv
    <2>5. QueuesOK'
      BY <1>0, <1>1, <2>1, <2>2, SizesPositive DEF TakeJob, ClientInv, QueuesOK
    <2>. QED  BY <2>4, <2>5 DEF ClientInv
  <1>2. CASE WorkerExits(t) \/ HandleStep(t) \/ SaveResult(t) \/ SaveResultFails(t)
    <2>1. HandlerStep
      BY <1>2 DEF WorkerExits, HandleStep, SaveResult, SaveResultFails, HandlerStep
    <2>2. UNCHANGED jobs
      BY <1>2 DEF WorkerExits, HandleStep, SaveResult, SaveResultFails, chanVars
    <2>3. HandlerInv'
      BY <2>1, HandlerStepKeeps DEF ClientInv
    <2>. QED  BY <2>2, <2>3 DEF ClientInv, QueuesOK
  <1>. QED  BY <1>1, <1>2 DEF WorkerStep

LEMMA ClientStepKeeps ==
    ASSUME ClientInv, [Next]_vars
    PROVE  ClientInv'
  <1>1. ASSUME UNCHANGED <<handlerVars, jobs>>
        PROVE  ClientInv'
    <2>1. HandlerStep
      BY <1>1 DEF HandlerStep
    <2>2. HandlerInv'
      BY <2>1, HandlerStepKeeps DEF ClientInv
    <2>. QED  BY <1>1, <2>2 DEF ClientInv, QueuesOK
  <1>2. ASSUME NEW k \in Conns,
               RunStep(k) \/ WriterStep(k) \/ ReaderStep(k) \/ Heartbeat(k)
        PROVE  ClientInv'
    BY <1>1, <1>2, QuietSteps, ReadCommandKeeps DEF ReaderStep
  <1>3. ASSUME NEW t \in Threads, WorkerStep(t)
        PROVE  ClientInv'
    BY <1>3, WorkerKeeps
  <1>4. CASE UNCHANGED vars
    BY <1>1, <1>4 DEF vars, chanVars
  <1>. QED  BY <1>2, <1>3, <1>4 DEF Next

\* docs/security.md:76: whichever workers of whichever connections get the
\* repetitions of a command, old workers of a lost connection included, only
\* one of them enters execution.
THEOREM OneExecutionHolds == Spec => []OneExecution
  <1>1. ClientInv => OneExecution
    BY DEF ClientInv, HandlerInv
  <1>. QED  BY ClientStarts, ClientStepKeeps, <1>1, PTL DEF Spec

\* The bounded queue never holds more than CommandQueueSize commands.
THEOREM QueueBounded == Spec => []QueuesOK
  <1>1. ClientInv => QueuesOK
    BY DEF ClientInv
  <1>. QED  BY ClientStarts, ClientStepKeeps, <1>1, PTL DEF Spec

-----------------------------------------------------------------------------
(* Types.                                                                  *)

Codes == {"none", "ack", "queue_full", "invalid_version", "invalid_payload",
          "device_mismatch", "unknown_type"}
Messages == Codes \cup {"hello", "heartbeat"}

LinkOK ==
    /\ link \in [Conns -> Links]
    /\ \A j, k \in Conns : j < k /\ link[k] # "unused" => link[j] = "closed"
    /\ failed \in [Conns -> BOOLEAN] /\ writing \in [Conns -> BOOLEAN]
    /\ working \in SUBSET Threads

\* The reader has a delivery in hand while it answers it, and does not run
\* before the hello was acknowledged.
ReaderOK ==
    /\ reader \in [Conns -> {"off", "read", "send", "reject", "exit"}]
    /\ inHand \in [Conns -> Deliveries \cup {NoDelivery}]
    /\ code \in [Conns -> Codes]
    /\ \A k \in Conns :
         /\ inHand[k] # NoDelivery <=> reader[k] \in {"send", "reject"}
         /\ link[k] \in {"unused", "hello"} => reader[k] = "off"

OutboundOK ==
    /\ outbound \in [Conns -> Seq(Messages)]
    /\ \A k \in Conns : Len(outbound[k]) <= OutboundSize

ErrorsOK == saveErrors \in 0 .. MaxSaveErrors

TypeInv == ClientInv /\ LinkOK /\ ReaderOK /\ OutboundOK /\ ErrorsOK

LEMMA TypeInvTypes == TypeInv => TypeOK
  BY DEF TypeInv, ClientInv, HandlerInv, QueuesOK, LinkOK, ReaderOK, OutboundOK,
         ErrorsOK, TypeOK

LEMMA TypeStarts == Init => TypeInv
  <1>. SUFFICES ASSUME Init PROVE TypeInv
    OBVIOUS
  <1>1. LinkOK
    BY DEF Init, LinkOK, Links
  <1>2. ReaderOK
    BY DEF Init, ReaderOK, Codes
  <1>3. OutboundOK
    BY SizesPositive DEF Init, OutboundOK
  <1>4. ErrorsOK
    BY MaxSaveErrorsNat DEF Init, ErrorsOK
  <1>. QED  BY ClientStarts, <1>1, <1>2, <1>3, <1>4 DEF TypeInv

\* Only runOnce moves a connection on, and only to the connection after the
\* last one that was closed.
LEMMA LinkStep ==
    ASSUME TypeInv, [Next]_vars
    PROVE  LinkOK'
  <1>. USE DEF TypeInv, LinkOK, Links
  <1>1. ASSUME NEW k \in Conns, RunStep(k)
        PROVE  LinkOK'
    <2>0. k \in Nat
      BY ConnOfType DEF Conns
    <2>1. CASE Dial(k)
      BY <2>0, <2>1, ConnOfType DEF Dial, Conns
    <2>2. CASE HelloAck(k)
      BY <2>0, <2>2, ConnOfType DEF HelloAck, Conns, Workers
    <2>3. CASE HelloFails(k) \/ Stop(k) \/ Closed(k)
      BY <2>0, <2>3, ConnOfType DEF HelloFails, Stop, Closed, Conns
    <2>. QED  BY <1>1, <2>1, <2>2, <2>3 DEF RunStep
  <1>2. ASSUME NEW k \in Conns, WriterStep(k) \/ Heartbeat(k)
        PROVE  LinkOK'
    BY <1>2 DEF WriterStep, Write, WriterExits, Heartbeat, ReportErr, Alive, connVars
  <1>3. ASSUME NEW k \in Conns, ReaderStep(k)
        PROVE  LinkOK'
    BY <1>3 DEF ReaderStep, ReadCommand, ReaderSend, ReaderReject,
                ReaderRejectFails, ReadFails, ReaderCancelled, ReaderExits,
                ReportErr, Alive, connVars
  <1>4. ASSUME NEW t \in Threads, WorkerStep(t)
        PROVE  LinkOK'
    BY <1>4 DEF WorkerStep, TakeJob, WorkerExits, HandleStep, SaveResult,
                SaveResultFails, connVars
  <1>5. CASE UNCHANGED vars
    BY <1>5 DEF vars, connVars
  <1>. QED  BY <1>1, <1>2, <1>3, <1>4, <1>5 DEF Next

LEMMA ReaderTypeStep ==
    ASSUME TypeInv, [Next]_vars
    PROVE  ReaderOK'
  <1>. USE DEF TypeInv, ReaderOK
  <1>1. ASSUME NEW k \in Conns, RunStep(k)
        PROVE  ReaderOK'
    BY <1>1 DEF RunStep, Dial, HelloAck, HelloFails, Stop, Closed, readerVars,
                LinkOK, Links
  <1>2. ASSUME NEW k \in Conns, WriterStep(k) \/ Heartbeat(k)
        PROVE  ReaderOK'
    BY <1>2 DEF WriterStep, Write, WriterExits, Heartbeat, readerVars, connVars
  <1>3. ASSUME NEW k \in Conns, NEW d \in Deliveries, ReadCommand(k, d)
        PROVE  ReaderOK'
    <2>1. Envelope[d] \in Codes \cup {"ok"}
      BY EnvelopeType DEF Codes
    <2>. QED
      BY <1>3, <2>1, NoDeliveryIsNone DEF ReadCommand, connVars, Codes
  <1>4. ASSUME NEW k \in Conns, ReaderSend(k) \/ ReaderReject(k)
        PROVE  ReaderOK'
    BY <1>4 DEF ReaderSend, ReaderReject, ReaderGoesOn, connVars, Codes
  <1>5. ASSUME NEW k \in Conns,
               ReaderRejectFails(k) \/ ReadFails(k) \/ ReaderCancelled(k)
        PROVE  ReaderOK'
    BY <1>5 DEF ReaderRejectFails, ReadFails, ReaderCancelled, ReaderExits, Codes
  <1>6. ASSUME NEW t \in Threads, WorkerStep(t)
        PROVE  ReaderOK'
    BY <1>6 DEF WorkerStep, TakeJob, WorkerExits, HandleStep, SaveResult,
                SaveResultFails, connVars, readerVars
  <1>7. CASE UNCHANGED vars
    BY <1>7 DEF vars, readerVars, connVars
  <1>. QED
    BY <1>1, <1>2, <1>3, <1>4, <1>5, <1>6, <1>7 DEF Next, ReaderStep

\* Whoever writes to outbound has looked for room; the hello goes into an
\* empty channel.
LEMMA OutboundStep ==
    ASSUME TypeInv, [Next]_vars
    PROVE  OutboundOK'
  <1>. USE DEF TypeInv, OutboundOK
  <1>1. ASSUME NEW k \in Conns, NEW m \in Messages, Room(k),
               outbound' = [outbound EXCEPT ![k] = Append(@, m)]
        PROVE  OutboundOK'
    BY <1>1, SizesPositive DEF Room
  <1>2. ASSUME NEW k \in Conns, outbound[k] # <<>>,
               outbound' = [outbound EXCEPT ![k] = Tail(@)]
        PROVE  OutboundOK'
    <2>1. Tail(outbound[k]) \in Seq(Messages) /\ Len(Tail(outbound[k])) <= OutboundSize
      BY <1>2, SizesPositive
    <2>. QED  BY <1>2, <2>1
  <1>3. ASSUME NEW k \in Conns, Dial(k)
        PROVE  OutboundOK'
    <2>1. <<"hello">> \in Seq(Messages) /\ Len(<<"hello">>) = 1
      BY DEF Messages
    <2>. QED  BY <1>3, <2>1, SizesPositive DEF Dial
  <1>4. ASSUME NEW k \in Conns, WriterStep(k)
        PROVE  OutboundOK'
    BY <1>2, <1>4 DEF WriterStep, Write, WriterExits
  <1>5. ASSUME NEW k \in Conns, Heartbeat(k)
        PROVE  OutboundOK'
    BY <1>1, <1>5 DEF Heartbeat, Messages
  <1>6. ASSUME NEW k \in Conns, ReaderSend(k)
        PROVE  OutboundOK'
    <2>1. code[k] \in Messages
      BY DEF ReaderOK, Messages
    <2>. QED  BY <1>1, <1>6, <2>1 DEF ReaderSend
  <1>7. ASSUME UNCHANGED outbound
        PROVE  OutboundOK'
    BY <1>7
  <1>8. ASSUME NEW k \in Conns, RunStep(k) \/ ReaderStep(k)
        PROVE  OutboundOK'
    BY <1>3, <1>6, <1>7, <1>8
    DEF RunStep, HelloAck, HelloFails, Stop, Closed, ReaderStep, ReadCommand,
        ReaderReject, ReaderRejectFails, ReadFails, ReaderCancelled, chanVars
  <1>9. ASSUME NEW t \in Threads, WorkerStep(t)
        PROVE  OutboundOK'
    BY <1>7, <1>9 DEF WorkerStep, TakeJob, WorkerExits, HandleStep, SaveResult,
                      SaveResultFails, chanVars
  <1>10. CASE UNCHANGED vars
    BY <1>7, <1>10 DEF vars, chanVars
  <1>. QED
    BY <1>4, <1>5, <1>8, <1>9, <1>10 DEF Next

LEMMA ErrorsStep ==
    ASSUME TypeInv, [Next]_vars
    PROVE  ErrorsOK'
  <1>1. saveErrors' = saveErrors
        \/ (saveErrors < MaxSaveErrors /\ saveErrors' = saveErrors + 1)
    BY DEF Next, RunStep, Dial, HelloAck, HelloFails, Stop, Closed, WriterStep,
           Write, WriterExits, Heartbeat, ReaderStep, ReadCommand, ReaderSend,
           ReaderReject, ReaderRejectFails, ReadFails, ReaderCancelled,
           WorkerStep, TakeJob, WorkerExits, HandleStep, SaveResult,
           SaveResultFails, histVars, vars
  <1>. QED  BY <1>1, MaxSaveErrorsNat DEF TypeInv, ErrorsOK

LEMMA TypeStepKeeps ==
    ASSUME TypeInv, [Next]_vars
    PROVE  TypeInv'
  BY ClientStepKeeps, LinkStep, ReaderTypeStep, OutboundStep, ErrorsStep DEF TypeInv

\* Connections follow one another: no connection is dialled while the one
\* before it is in use, the reader holds a command exactly while it answers
\* it, and neither channel of a connection ever holds more than its capacity.
THEOREM TypeOKHolds == Spec => []TypeOK
  BY TypeStarts, TypeStepKeeps, TypeInvTypes, PTL DEF Spec

-----------------------------------------------------------------------------
(* Queues as sets.                                                         *)

In(e, s) == \E n \in DOMAIN s : s[n] = e
Distinct(s) == \A m, n \in DOMAIN s : s[m] = s[n] => m = n

LEMMA InAppend ==
    ASSUME NEW S, NEW s \in Seq(S), NEW d \in S
    PROVE  /\ \A e : In(e, Append(s, d)) <=> In(e, s) \/ e = d
           /\ Distinct(s) /\ ~In(d, s) => Distinct(Append(s, d))
  <1>1. /\ DOMAIN s = 1 .. Len(s) /\ Len(s) \in Nat
        /\ DOMAIN Append(s, d) = 1 .. Len(s) + 1
        /\ Append(s, d)[Len(s) + 1] = d
        /\ \A n \in 1 .. Len(s) : Append(s, d)[n] = s[n]
    OBVIOUS
  <1>2. ASSUME NEW n
        PROVE  n \in 1 .. Len(s) + 1 <=> n \in 1 .. Len(s) \/ n = Len(s) + 1
    BY <1>1
  <1>3. \A e : In(e, Append(s, d)) <=> In(e, s) \/ e = d
    BY <1>1, <1>2 DEF In
  <1>4. Distinct(s) /\ ~In(d, s) => Distinct(Append(s, d))
    BY <1>1, <1>2 DEF In, Distinct
  <1>. QED  BY <1>3, <1>4

LEMMA InTail ==
    ASSUME NEW S, NEW s \in Seq(S), s # <<>>
    PROVE  /\ In(Head(s), s)
           /\ \A e : In(e, Tail(s)) => In(e, s)
           /\ \A e : In(e, s) /\ e # Head(s) => In(e, Tail(s))
           /\ Distinct(s) => Distinct(Tail(s)) /\ ~In(Head(s), Tail(s))
  <1>1. /\ DOMAIN s = 1 .. Len(s) /\ Len(s) \in Nat \ {0} /\ Head(s) = s[1]
        /\ DOMAIN Tail(s) = 1 .. Len(s) - 1
        /\ \A n \in 1 .. Len(s) - 1 : Tail(s)[n] = s[n + 1]
    OBVIOUS
  <1>2. In(Head(s), s)
    BY <1>1 DEF In
  <1>3. ASSUME NEW e, In(e, Tail(s))
        PROVE  In(e, s)
    <2>1. PICK n \in 1 .. Len(s) - 1 : s[n + 1] = e
      BY <1>1, <1>3 DEF In
    <2>. QED  BY <1>1, <2>1 DEF In
  <1>4. ASSUME NEW e, In(e, s), e # Head(s)
        PROVE  In(e, Tail(s))
    <2>1. PICK n \in 1 .. Len(s) : s[n] = e
      BY <1>1, <1>4 DEF In
    <2>2. n - 1 \in 1 .. Len(s) - 1 /\ Tail(s)[n - 1] = e
      BY <1>1, <1>4, <2>1
    <2>. QED  BY <1>1, <2>2 DEF In
  <1>5. ASSUME Distinct(s)
        PROVE  Distinct(Tail(s)) /\ ~In(Head(s), Tail(s))
    <2>1. \A m, n \in 1 .. Len(s) - 1 : s[m + 1] = s[n + 1] => m + 1 = n + 1
      BY <1>1, <1>5 DEF Distinct
    <2>2. \A n \in 1 .. Len(s) - 1 : s[n + 1] # s[1]
      BY <1>1, <1>5 DEF Distinct
    <2>. QED  BY <1>1, <2>1, <2>2 DEF Distinct, In
  <1>. QED  BY <1>2, <1>3, <1>4, <1>5

-----------------------------------------------------------------------------
(* Where a delivery is.                                                    *)

HandledSays == HandlerCodes \cup RunStates

From(d, k) == \E a \in arrived : a.d = d /\ a.conn = k
InHandle(d) == \E t \in Threads : handling[t] = d

\* A delivery arrives once.  What waits, is handled or is in the reader's
\* hand has arrived on the connection that holds it, and what is answered or
\* acked has arrived.
HeldHasArrived ==
    /\ \A a \in arrived : a.d \in Deliveries /\ a.conn \in Conns
    /\ \A d \in Deliveries, j, k \in Conns : From(d, j) /\ From(d, k) => j = k
    /\ \A d \in Deliveries, k \in Conns : Queued(d, k) => From(d, k)
    /\ \A t \in Threads : handling[t] # NoDelivery => From(handling[t], ConnOf[t])
    /\ \A k \in Conns : inHand[k] # NoDelivery => From(inHand[k], k)
    /\ \A a \in answers : a.d \in Arrived
    /\ acked \subseteq Arrived

\* No delivery is in two places: twice in a queue, with two workers, or in
\* two of the queue, a worker, the hand of the reader and the outbox.
OnePlace ==
    /\ \A k \in Conns : Distinct(jobs[k])
    /\ \A t, u \in Threads : handling[t] = handling[u] /\ handling[t] # NoDelivery => t = u
    /\ \A d \in Deliveries, k \in Conns : Queued(d, k) => ~InHandle(d)
    /\ \A k \in Conns : reader[k] = "reject" =>
         /\ ~Queued(inHand[k], k) /\ ~InHandle(inHand[k]) /\ ~Answered(inHand[k])
    /\ \A a \in answers : ~InHandle(a.d) /\ \A k \in Conns : ~Queued(a.d, k)
    /\ \A a, b \in answers : a.d = b.d => a = b

\* A thread that has returned has the outcome of a check or of the runner.
OutcomeOK ==
    \A t \in Threads : stage[t] = "returned" => outcome[t] \in HandledSays

\* A reader that rejects has one of the two codes for it, and rejects nothing
\* that was acked; what it acked or is about to ack is answered by Handle.
AckOK ==
    /\ \A k \in Conns : reader[k] = "reject" =>
         code[k] \in {"device_mismatch", "queue_full"} /\ inHand[k] \notin acked
    /\ \A k \in Conns, a \in answers :
         reader[k] = "send" /\ code[k] = "ack" /\ a.d = inHand[k] => a.outcome \in HandledSays
    /\ AckMeansQueued

FlowInv == TypeInv /\ HeldHasArrived /\ OnePlace /\ OutcomeOK /\ AckOK

Placed == HeldHasArrived /\ OnePlace /\ AckOK

\* Steps that move no delivery.
LEMMA NothingMoves ==
    ASSUME FlowInv, UNCHANGED <<handling, jobs, inHand, code, arrived, acked, answers>>,
           \A k \in Conns : reader'[k] = reader[k]
                            \/ (reader[k] = "off" /\ reader'[k] = "read")
    PROVE  Placed'
  <1>1. /\ \A d, k : Queued(d, k)' <=> Queued(d, k)
        /\ \A d, k : From(d, k)' <=> From(d, k)
        /\ \A d : InHandle(d)' <=> InHandle(d)
        /\ \A d : Answered(d)' <=> Answered(d)
        /\ Arrived' = Arrived
    BY DEF Queued, From, InHandle, Answered, Arrived
  <1>2. HeldHasArrived'
    BY <1>1 DEF FlowInv, HeldHasArrived
  <1>3. OnePlace'
    BY <1>1 DEF FlowInv, OnePlace
  <1>4. AckOK'
    BY DEF FlowInv, AckOK, AckMeansQueued
  <1>. QED  BY <1>2, <1>3, <1>4 DEF Placed

LEMMA ReadCommandPlaces ==
    ASSUME FlowInv, NEW k \in Conns, NEW d \in Deliveries, ReadCommand(k, d)
    PROVE  Placed'
  <1>. DEFINE queued == Envelope[d] = "ok" /\ ~(Len(jobs[k]) >= QueueSize)
  <1>1. /\ d \notin Arrived
        /\ arrived' = arrived \cup {[d |-> d, conn |-> k]}
        /\ UNCHANGED <<handling, acked, answers>>
        /\ jobs' = [jobs EXCEPT ![k] = IF queued THEN Append(jobs[k], d) ELSE jobs[k]]
    BY DEF ReadCommand, handlerVars
  <1>2. /\ \A j \in Conns : j # k =>
             reader'[j] = reader[j] /\ inHand'[j] = inHand[j] /\ code'[j] = code[j]
        /\ \/ reader'[k] = "read" /\ inHand'[k] = NoDelivery
           \/ reader'[k] = "send" /\ inHand'[k] = d
           \/ /\ reader'[k] = "reject" /\ inHand'[k] = d /\ ~queued
              /\ code'[k] \in {"device_mismatch", "queue_full"}
    <2>1. reader \in [Conns -> {"off", "read", "send", "reject", "exit"}]
          /\ inHand \in [Conns -> Deliveries \cup {NoDelivery}]
          /\ code \in [Conns -> Codes]
      BY DEF FlowInv, TypeInv, ReaderOK
    <2>. DEFINE answer == IF Envelope[d] # "ok" THEN Envelope[d]
                          ELSE IF Len(jobs[k]) >= QueueSize THEN "queue_full" ELSE "ack"
    <2>2. /\ reader' = [reader EXCEPT ![k] =
                CASE answer = "unknown_type" -> "read"
                  [] answer \in {"device_mismatch", "queue_full"} -> "reject"
                  [] OTHER -> "send"]
          /\ inHand' = [inHand EXCEPT ![k] =
                IF answer = "unknown_type" THEN NoDelivery ELSE d]
          /\ code' = [code EXCEPT ![k] = IF answer = "unknown_type" THEN "none" ELSE answer]
      BY DEF ReadCommand
    <2>3. queued => answer = "ack"
      OBVIOUS
    <2>. HIDE DEF answer, queued
    <2>. QED  BY <2>1, <2>2, <2>3
  <1>3. /\ \A e, j : From(e, j)' <=> From(e, j) \/ (e = d /\ j = k)
        /\ Arrived' = Arrived \cup {d}
        /\ \A a \in arrived' : a \in arrived \/ (a.d = d /\ a.conn = k)
        /\ \A e : InHandle(e)' <=> InHandle(e)
        /\ \A e : Answered(e)' <=> Answered(e)
    <2>0. PICK new : new.d = d /\ new.conn = k /\ arrived' = arrived \cup {new}
      BY <1>1, [d |-> d, conn |-> k].d = d, [d |-> d, conn |-> k].conn = k
    <2>1. \A e, j : From(e, j)' <=> From(e, j) \/ (e = d /\ j = k)
      BY <2>0 DEF From
    <2>2. Arrived' = Arrived \cup {d}
      BY <2>0 DEF Arrived
    <2>3. \A a \in arrived' : a \in arrived \/ (a.d = d /\ a.conn = k)
      BY <2>0
    <2>4. /\ \A e : InHandle(e)' <=> InHandle(e)
          /\ \A e : Answered(e)' <=> Answered(e)
      BY <1>1 DEF InHandle, Answered
    <2>. QED  BY <2>1, <2>2, <2>3, <2>4
  <1>4. jobs \in [Conns -> Seq(Deliveries)]
    BY DEF FlowInv, TypeInv, ClientInv, QueuesOK
  <1>5. /\ \A j \in Conns : ~From(d, j) /\ ~Queued(d, j)
        /\ ~InHandle(d) /\ ~Answered(d) /\ d \notin acked
        /\ \A j \in Conns : inHand[j] # d
    BY <1>1, NoDeliveryIsNone
    DEF FlowInv, HeldHasArrived, From, Arrived, InHandle, Answered
  <1>6. /\ \A e : \A j \in Conns : Queued(e, j)' <=>
             Queued(e, j) \/ (queued /\ e = d /\ j = k)
        /\ \A j \in Conns : Distinct(jobs'[j])
    <2>1. ~In(d, jobs[k]) /\ \A j \in Conns : Distinct(jobs[j])
      BY <1>5 DEF In, Queued, FlowInv, OnePlace
    <2>2. /\ \A e : In(e, Append(jobs[k], d)) <=> In(e, jobs[k]) \/ e = d
          /\ Distinct(Append(jobs[k], d))
      BY <1>4, <2>1, InAppend
    <2>3. \A j \in Conns : jobs'[j] = IF j = k /\ queued THEN Append(jobs[k], d) ELSE jobs[j]
      BY <1>1, <1>4
    <2>4. \A e : \A j \in Conns : In(e, jobs'[j]) <=>
             In(e, jobs[j]) \/ (queued /\ e = d /\ j = k)
      BY <2>2, <2>3
    <2>. QED  BY <2>1, <2>2, <2>3, <2>4 DEF Queued, In
  <1>. HIDE DEF queued
  <1>7. HeldHasArrived'
    BY <1>1, <1>2, <1>3, <1>5, <1>6 DEF FlowInv, HeldHasArrived
  <1>8. OnePlace'
    <2>1. ASSUME NEW j \in Conns, reader'[j] = "reject"
          PROVE  ~Queued(inHand[j], j)' /\ ~InHandle(inHand[j])' /\ ~Answered(inHand[j])'
      <3>1. CASE j = k
        BY <1>2, <1>3, <1>5, <1>6, <2>1, <3>1
      <3>2. CASE j # k
        BY <1>2, <1>3, <1>6, <2>1, <3>2 DEF FlowInv, OnePlace
      <3>. QED  BY <3>1, <3>2
    <2>2. \A e \in Deliveries, j \in Conns : Queued(e, j)' => ~InHandle(e)'
      BY <1>3, <1>5, <1>6 DEF FlowInv, OnePlace
    <2>3. \A a \in answers' : ~InHandle(a.d)' /\ \A j \in Conns : ~Queued(a.d, j)'
      BY <1>1, <1>3, <1>5, <1>6 DEF FlowInv, OnePlace, Answered
    <2>. QED  BY <1>1, <1>6, <2>1, <2>2, <2>3 DEF FlowInv, OnePlace
  <1>9. AckOK'
    BY <1>1, <1>2, <1>5 DEF FlowInv, AckOK, AckMeansQueued, Answered
  <1>. QED  BY <1>7, <1>8, <1>9 DEF Placed

\* One answer more.
LEMMA AnswerAdds ==
    ASSUME NEW d, NEW o, Answer(d, o)
    PROVE  /\ \E new : new.d = d /\ new.outcome = o /\ answers' = answers \cup {new}
           /\ \A e : Answered(e)' <=> Answered(e) \/ e = d
  <1>1. PICK new : new.d = d /\ new.outcome = o /\ answers' = answers \cup {new}
    BY [d |-> d, outcome |-> o].d = d, [d |-> d, outcome |-> o].outcome = o DEF Answer
  <1>. QED  BY <1>1 DEF Answered

\* The reader is done with what it had in hand: it goes on, or exits.
Released(k) ==
    /\ \A j \in Conns : j # k =>
         reader'[j] = reader[j] /\ inHand'[j] = inHand[j] /\ code'[j] = code[j]
    /\ reader'[k] \in {"read", "exit"} /\ inHand'[k] = NoDelivery
    /\ UNCHANGED <<handling, jobs, arrived>>

LEMMA ReaderReleases ==
    ASSUME FlowInv, NEW k \in Conns,
           \/ ReaderSend(k) \/ ReaderReject(k) \/ ReaderRejectFails(k)
           \/ ReadFails(k) \/ ReaderCancelled(k)
    PROVE  Released(k)
  <1>1. reader \in [Conns -> {"off", "read", "send", "reject", "exit"}]
        /\ inHand \in [Conns -> Deliveries \cup {NoDelivery}]
        /\ code \in [Conns -> Codes]
    BY DEF FlowInv, TypeInv, ReaderOK
  <1>2. CASE ReaderSend(k) \/ ReaderReject(k)
    BY <1>1, <1>2 DEF ReaderSend, ReaderReject, ReaderGoesOn, handlerVars,
                      chanVars, Released
  <1>3. CASE ReaderRejectFails(k) \/ ReadFails(k) \/ ReaderCancelled(k)
    BY <1>1, <1>3 DEF ReaderRejectFails, ReadFails, ReaderCancelled, ReaderExits,
                      handlerVars, chanVars, histVars, Released
  <1>. QED  BY <1>2, <1>3

\* An ack tells of a delivery that no reader rejects, a rejection answers one
\* that no reader acks: only the reader that read it has it in hand.
LEMMA ReleasedPlaces ==
    ASSUME FlowInv, NEW k \in Conns, Released(k),
           \/ UNCHANGED <<acked, answers>>
           \/ /\ reader[k] = "send" /\ code[k] = "ack"
              /\ acked' = acked \cup {inHand[k]} /\ UNCHANGED answers
           \/ reader[k] = "reject" /\ Answer(inHand[k], code[k]) /\ UNCHANGED acked
    PROVE  Placed'
  <1>0. /\ \A d, j : Queued(d, j)' <=> Queued(d, j)
        /\ \A d, j : From(d, j)' <=> From(d, j)
        /\ \A d : InHandle(d)' <=> InHandle(d)
        /\ Arrived' = Arrived
    BY DEF Released, Queued, From, InHandle, Arrived
  <1>1. \A j \in Conns : j # k /\ inHand[j] # NoDelivery => inHand[j] # inHand[k]
    BY NoDeliveryIsNone DEF FlowInv, TypeInv, ReaderOK, HeldHasArrived
  <1>2. \A j \in Conns : reader[j] \in {"send", "reject"} =>
           inHand[j] # NoDelivery /\ inHand[j] \in Deliveries /\ inHand[j] \in Arrived
    BY DEF FlowInv, TypeInv, ReaderOK, HeldHasArrived, From, Arrived
  <1>3. CASE UNCHANGED <<acked, answers>>
    <2>1. \A d : Answered(d)' <=> Answered(d)
      BY <1>3 DEF Answered
    <2>2. HeldHasArrived'
      BY <1>0, <1>3 DEF Released, FlowInv, HeldHasArrived
    <2>3. OnePlace'
      BY <1>0, <1>3, <2>1 DEF Released, FlowInv, OnePlace
    <2>4. AckOK'
      BY <1>3 DEF Released, FlowInv, AckOK, AckMeansQueued
    <2>. QED  BY <2>2, <2>3, <2>4 DEF Placed
  <1>4. CASE /\ reader[k] = "send" /\ code[k] = "ack"
             /\ acked' = acked \cup {inHand[k]} /\ UNCHANGED answers
    <2>1. \A d : Answered(d)' <=> Answered(d)
      BY <1>4 DEF Answered
    <2>2. HeldHasArrived'
      BY <1>0, <1>2, <1>4 DEF Released, FlowInv, HeldHasArrived
    <2>3. OnePlace'
      BY <1>0, <1>4, <2>1 DEF Released, FlowInv, OnePlace
    <2>4. AckOK'
      BY <1>1, <1>2, <1>4 DEF Released, FlowInv, AckOK, AckMeansQueued, HandledSays
    <2>. QED  BY <2>2, <2>3, <2>4 DEF Placed
  <1>5. CASE reader[k] = "reject" /\ Answer(inHand[k], code[k]) /\ UNCHANGED acked
    <2>1. PICK new : new.d = inHand[k] /\ new.outcome = code[k]
                     /\ answers' = answers \cup {new}
      BY <1>5, AnswerAdds
    <2>2. \A d : Answered(d)' <=> Answered(d) \/ d = inHand[k]
      BY <1>5, AnswerAdds
    <2>3. HeldHasArrived'
      BY <1>0, <1>2, <1>5, <2>1 DEF Released, FlowInv, HeldHasArrived
    <2>4. OnePlace'
      <3>1. \A j \in Conns : reader'[j] = "reject" => inHand'[j] # inHand[k]
        BY <1>1, <1>2 DEF Released
      <3>2. \A j \in Conns : ~Queued(inHand[k], j)
        BY <1>2, <1>5 DEF FlowInv, OnePlace, HeldHasArrived
      <3>3. ~InHandle(inHand[k]) /\ ~Answered(inHand[k])
        BY <1>5 DEF FlowInv, OnePlace
      <3>4. \A a, b \in answers' : a.d = b.d => a = b
        BY <2>1, <3>3 DEF FlowInv, OnePlace, Answered
      <3>5. \A a \in answers' : ~InHandle(a.d)' /\ \A j \in Conns : ~Queued(a.d, j)'
        BY <1>0, <2>1, <3>2, <3>3 DEF FlowInv, OnePlace
      <3>6. \A j \in Conns : reader'[j] = "reject" =>
               /\ ~Queued(inHand[j], j)' /\ ~InHandle(inHand[j])' /\ ~Answered(inHand[j])'
        BY <1>0, <2>2, <3>1 DEF Released, FlowInv, OnePlace
      <3>. QED  BY <1>0, <3>4, <3>5, <3>6 DEF Released, FlowInv, OnePlace
    <2>5. AckOK'
      BY <1>1, <1>2, <1>5, <2>1 DEF Released, FlowInv, AckOK, AckMeansQueued
    <2>. QED  BY <2>3, <2>4, <2>5 DEF Placed
  <1>. QED  BY <1>3, <1>4, <1>5

\* A worker takes the head of its queue, where nobody else finds it again.
LEMMA TakeJobPlaces ==
    ASSUME FlowInv, NEW t \in Threads, TakeJob(t)
    PROVE  Placed'
  <1>. DEFINE k == ConnOf[t]
              d == Head(jobs[k])
  <1>1. k \in Conns /\ jobs \in [Conns -> Seq(Deliveries)] /\ jobs[k] # <<>>
    BY ConnOfType DEF TakeJob, FlowInv, TypeInv, ClientInv, QueuesOK
  <1>2. d \in Deliveries /\ Tail(jobs[k]) \in Seq(Deliveries)
    BY <1>1
  <1>3. /\ handling[t] = NoDelivery /\ handling' = [handling EXCEPT ![t] = d]
        /\ jobs' = [jobs EXCEPT ![k] = Tail(jobs[k])]
        /\ UNCHANGED <<reader, inHand, code, arrived, acked, answers>>
    BY DEF TakeJob, Call, readerVars, histVars, FlowInv, TypeInv, ClientInv,
           HandlerInv, HandlerTypeOK
  <1>4. handling \in [Threads -> Deliveries \cup {NoDelivery}]
    BY DEF FlowInv, TypeInv, ClientInv, HandlerInv, HandlerTypeOK
  <1>. HIDE DEF d
  <1>5. /\ Queued(d, k)
        /\ \A e : \A j \in Conns : Queued(e, j)' => Queued(e, j) /\ (j = k => e # d)
        /\ \A j \in Conns : Distinct(jobs'[j])
    <2>1. \A j \in Conns : Distinct(jobs[j])
      BY DEF FlowInv, OnePlace
    <2>2. /\ In(d, jobs[k]) /\ Distinct(Tail(jobs[k])) /\ ~In(d, Tail(jobs[k]))
          /\ \A e : In(e, Tail(jobs[k])) => In(e, jobs[k])
      BY <1>1, <2>1, InTail DEF d
    <2>3. \A j \in Conns : jobs'[j] = IF j = k THEN Tail(jobs[k]) ELSE jobs[j]
      BY <1>1, <1>3
    <2>4. \A e : \A j \in Conns : In(e, jobs'[j]) => In(e, jobs[j]) /\ (j = k => e # d)
      BY <1>1, <2>2, <2>3
    <2>. QED  BY <1>1, <2>1, <2>2, <2>3, <2>4 DEF Queued, In
  <1>6. /\ \A e \in Deliveries : InHandle(e)' <=> InHandle(e) \/ e = d
        /\ \A e, j : From(e, j)' <=> From(e, j)
        /\ \A e : Answered(e)' <=> Answered(e)
        /\ Arrived' = Arrived
    BY <1>3, <1>4, NoDeliveryIsNone DEF InHandle, From, Answered, Arrived
  <1>7. /\ \A j \in Conns : Queued(d, j) => j = k
        /\ From(d, k) /\ ~InHandle(d) /\ ~Answered(d)
        /\ \A j \in Conns : reader[j] = "reject" => inHand[j] # d /\ inHand[j] \in Deliveries
    BY <1>1, <1>2, <1>5
    DEF FlowInv, TypeInv, ReaderOK, HeldHasArrived, OnePlace, Answered
  <1>8. \A a \in answers : a.d \in Deliveries
    BY DEF FlowInv, HeldHasArrived, Arrived
  <1>. HIDE DEF k
  <1>9. HeldHasArrived'
    <2>1. \A u \in Threads : handling'[u] # NoDelivery => From(handling[u], ConnOf[u])'
      BY <1>3, <1>4, <1>6, <1>7 DEF FlowInv, HeldHasArrived, k
    <2>. QED
      BY <1>1, <1>3, <1>5, <1>6, <2>1 DEF FlowInv, HeldHasArrived
  <1>10. OnePlace'
    <2>1. \A u, v \in Threads :
             handling'[u] = handling'[v] /\ handling'[u] # NoDelivery => u = v
      BY <1>3, <1>4, <1>7 DEF FlowInv, OnePlace, InHandle
    <2>2. \A e \in Deliveries, j \in Conns : Queued(e, j)' => ~InHandle(e)'
      BY <1>5, <1>6, <1>7 DEF FlowInv, OnePlace
    <2>3. \A j \in Conns : reader'[j] = "reject" =>
             ~Queued(inHand[j], j)' /\ ~InHandle(inHand[j])' /\ ~Answered(inHand[j])'
      BY <1>3, <1>5, <1>6, <1>7 DEF FlowInv, OnePlace
    <2>4. \A a \in answers' : ~InHandle(a.d)' /\ \A j \in Conns : ~Queued(a.d, j)'
      BY <1>3, <1>5, <1>6, <1>7, <1>8 DEF FlowInv, OnePlace, Answered
    <2>. QED  BY <1>3, <1>5, <2>1, <2>2, <2>3, <2>4 DEF FlowInv, OnePlace
  <1>11. AckOK'
    BY <1>3 DEF FlowInv, AckOK, AckMeansQueued
  <1>. QED  BY <1>9, <1>10, <1>11 DEF Placed

\* A worker leaves Handle with the answer saved, or lost.
LEMMA SavePlaces ==
    ASSUME FlowInv, NEW t \in Threads, SaveResult(t) \/ SaveResultFails(t)
    PROVE  Placed'
  <1>. DEFINE d == handling[t]
  <1>1. /\ stage[t] = "returned" /\ handling' = [handling EXCEPT ![t] = NoDelivery]
        /\ UNCHANGED <<jobs, reader, inHand, code, arrived, acked>>
        /\ Answer(d, outcome[t]) \/ UNCHANGED answers
    BY DEF SaveResult, SaveResultFails, Leave, chanVars, readerVars
  <1>2. /\ handling \in [Threads -> Deliveries \cup {NoDelivery}]
        /\ d \in Deliveries /\ outcome[t] \in HandledSays
    BY <1>1 DEF FlowInv, TypeInv, ClientInv, HandlerInv, HandlerTypeOK, OutcomeOK
  <1>. HIDE DEF d
  <1>3. InHandle(d)
    BY DEF InHandle, d
  <1>4. /\ \A e \in Deliveries : InHandle(e)' => InHandle(e) /\ e # d
        /\ \A e, j : From(e, j)' <=> From(e, j)
        /\ \A e, j : Queued(e, j)' <=> Queued(e, j)
        /\ Arrived' = Arrived
    <2>1. \A e \in Deliveries : InHandle(e)' => InHandle(e) /\ e # d
      BY <1>1, <1>2, NoDeliveryIsNone DEF InHandle, FlowInv, OnePlace, d
    <2>. QED  BY <1>1, <2>1 DEF From, Queued, Arrived
  <1>5. \A a \in answers' : a \in answers \/ (a.d = d /\ a.outcome = outcome[t])
    BY <1>1, AnswerAdds
  <1>6. \A e : Answered(e)' => Answered(e) \/ e = d
    BY <1>5 DEF Answered
  <1>7. /\ d \in Arrived /\ ~Answered(d) /\ \A j \in Conns : ~Queued(d, j)
        /\ \A j \in Conns : reader[j] = "reject" => inHand[j] # d /\ inHand[j] \in Deliveries
    <2>1. d \in Arrived
      BY <1>2, NoDeliveryIsNone DEF FlowInv, HeldHasArrived, From, Arrived, d
    <2>. QED
      BY <1>2, <1>3, <2>1 DEF FlowInv, TypeInv, ReaderOK, OnePlace, Answered
  <1>8. \A a \in answers : a.d \in Deliveries
    BY DEF FlowInv, HeldHasArrived, Arrived
  <1>9. HeldHasArrived'
    BY <1>1, <1>2, <1>4, <1>5, <1>7 DEF FlowInv, HeldHasArrived
  <1>10. OnePlace'
    <2>1. \A u, v \in Threads :
             handling'[u] = handling'[v] /\ handling'[u] # NoDelivery => u = v
      BY <1>1, <1>2 DEF FlowInv, OnePlace
    <2>2. \A e \in Deliveries, j \in Conns : Queued(e, j)' => ~InHandle(e)'
      BY <1>4 DEF FlowInv, OnePlace
    <2>3. \A j \in Conns : reader'[j] = "reject" =>
             ~Queued(inHand[j], j)' /\ ~InHandle(inHand[j])' /\ ~Answered(inHand[j])'
      BY <1>1, <1>4, <1>6, <1>7 DEF FlowInv, OnePlace
    <2>4. \A a \in answers' : ~InHandle(a.d)' /\ \A j \in Conns : ~Queued(a.d, j)'
      BY <1>2, <1>4, <1>5, <1>7, <1>8 DEF FlowInv, OnePlace
    <2>5. \A a, b \in answers' : a.d = b.d => a = b
      <3>1. \/ UNCHANGED answers
            \/ \E new : new.d = d /\ answers' = answers \cup {new}
        BY <1>1, AnswerAdds
      <3>. QED  BY <1>7, <3>1 DEF FlowInv, OnePlace, Answered
    <2>. QED  BY <1>1, <2>1, <2>2, <2>3, <2>4, <2>5 DEF FlowInv, OnePlace
  <1>11. AckOK'
    BY <1>1, <1>2, <1>5 DEF FlowInv, AckOK, AckMeansQueued, HandledSays
  <1>. QED  BY <1>9, <1>10, <1>11 DEF Placed

\* Every way out of Handle sets the outcome.
LEMMA OutcomeStep ==
    ASSUME FlowInv, [Next]_vars
    PROVE  OutcomeOK'
  <1>. USE DEF OutcomeOK
  <1>0. OutcomeOK /\ outcome \in [Threads -> HandledSays \cup {"none"}]
        /\ stage \in [Threads -> HandleStages]
    BY DEF FlowInv, TypeInv, ClientInv, HandlerInv, HandlerTypeOK, HandledSays
  <1>1. ASSUME UNCHANGED handlerVars
        PROVE  OutcomeOK'
    BY <1>0, <1>1 DEF handlerVars
  <1>2. ASSUME NEW k \in Conns,
               RunStep(k) \/ WriterStep(k) \/ ReaderStep(k) \/ Heartbeat(k)
        PROVE  OutcomeOK'
    BY <1>1, <1>2, QuietSteps DEF ReaderStep, ReadCommand
  <1>3. ASSUME NEW t \in Threads, HandleStep(t)
        PROVE  OutcomeOK'
    <2>1. CASE Check(t)
      <3>1. handling[t] \in Deliveries
        BY <2>1 DEF Check, FlowInv, TypeInv, ClientInv, HandlerInv, HandlerTypeOK
      <3>2. Verdict(handling[t], reserved) \in HandledSays \cup {"run"}
        BY <3>1, VerdictFacts DEF HandledSays
      <3>. QED  BY <1>0, <2>1, <3>2 DEF Check
    <2>2. CASE Spawn(t) \/ SpawnFails(t) \/ Finish(t)
      BY <1>0, <2>2 DEF Spawn, SpawnFails, Finish, HandledSays, RunStates
    <2>. QED  BY <1>3, <2>1, <2>2 DEF HandleStep
  <1>4. ASSUME NEW t \in Threads, TakeJob(t) \/ SaveResult(t) \/ SaveResultFails(t)
        PROVE  OutcomeOK'
    BY <1>0, <1>4 DEF TakeJob, Call, SaveResult, SaveResultFails, Leave
  <1>5. ASSUME NEW t \in Threads, WorkerStep(t)
        PROVE  OutcomeOK'
    BY <1>1, <1>3, <1>4, <1>5 DEF WorkerStep, WorkerExits
  <1>6. CASE UNCHANGED vars
    BY <1>1, <1>6 DEF vars
  <1>. QED  BY <1>2, <1>5, <1>6 DEF Next

LEMMA FlowStarts == Init => FlowInv
  <1>. SUFFICES ASSUME Init PROVE FlowInv
    OBVIOUS
  <1>1. TypeInv
    BY TypeStarts
  <1>2. HeldHasArrived
    BY DEF Init, HandlerInit, HeldHasArrived, From, Queued
  <1>3. OnePlace
    BY DEF Init, HandlerInit, OnePlace, Distinct, Queued, InHandle, Answered
  <1>4. OutcomeOK /\ AckOK
    BY DEF Init, HandlerInit, OutcomeOK, AckOK, AckMeansQueued
  <1>. QED  BY <1>1, <1>2, <1>3, <1>4 DEF FlowInv

LEMMA FlowStepKeeps ==
    ASSUME FlowInv, [Next]_vars
    PROVE  FlowInv'
  <1>1. TypeInv'
    BY TypeStepKeeps DEF FlowInv
  <1>2. OutcomeOK'
    BY OutcomeStep
  <1>3. Placed'
    <2>1. ASSUME NEW k \in Conns, RunStep(k) \/ WriterStep(k) \/ Heartbeat(k)
          PROVE  Placed'
      <3>1. UNCHANGED <<handling, jobs, inHand, code, arrived, acked, answers>>
        BY <2>1, QuietSteps
        DEF RunStep, Dial, HelloAck, HelloFails, Stop, Closed, WriterStep, Write,
            WriterExits, Heartbeat, readerVars, histVars, handlerVars
      <3>2. \A j \in Conns : reader'[j] = reader[j]
                             \/ (reader[j] = "off" /\ reader'[j] = "read")
        BY <2>1 DEF RunStep, Dial, HelloAck, HelloFails, Stop, Closed, WriterStep,
                    Write, WriterExits, Heartbeat, readerVars, FlowInv, TypeInv, ReaderOK
      <3>. QED  BY <3>1, <3>2, NothingMoves
    <2>2. ASSUME NEW k \in Conns, ReaderStep(k)
          PROVE  Placed'
      <3>1. ASSUME NEW d \in Deliveries, ReadCommand(k, d)
            PROVE  Placed'
        BY <3>1, ReadCommandPlaces
      <3>2. CASE ReaderSend(k)
        <4>1. Released(k)
          BY <3>2, ReaderReleases
        <4>2. \/ UNCHANGED <<acked, answers>>
              \/ /\ reader[k] = "send" /\ code[k] = "ack"
                 /\ acked' = acked \cup {inHand[k]} /\ UNCHANGED answers
          BY <3>2 DEF ReaderSend
        <4>. QED  BY <4>1, <4>2, ReleasedPlaces
      <3>3. CASE ReaderReject(k) \/ ReaderRejectFails(k)
        <4>1. Released(k)
          BY <3>3, ReaderReleases
        <4>2. \/ UNCHANGED <<acked, answers>>
              \/ reader[k] = "reject" /\ Answer(inHand[k], code[k]) /\ UNCHANGED acked
          BY <3>3 DEF ReaderReject, ReaderRejectFails
        <4>. QED  BY <4>1, <4>2, ReleasedPlaces
      <3>4. CASE ReadFails(k) \/ ReaderCancelled(k)
        <4>1. Released(k)
          BY <3>4, ReaderReleases
        <4>2. UNCHANGED <<acked, answers>>
          BY <3>4 DEF ReadFails, ReaderCancelled, histVars
        <4>. QED  BY <4>1, <4>2, ReleasedPlaces
      <3>. QED  BY <2>2, <3>1, <3>2, <3>3, <3>4 DEF ReaderStep
    <2>3. ASSUME NEW t \in Threads, WorkerExits(t) \/ HandleStep(t)
          PROVE  Placed'
      <3>1. UNCHANGED <<handling, jobs, reader, inHand, code, arrived, acked, answers>>
        BY <2>3 DEF WorkerExits, HandleStep, Check, Spawn, SpawnFails, Finish,
                    handlerVars, chanVars, readerVars, histVars
      <3>. QED  BY <3>1, NothingMoves
    <2>4. ASSUME NEW t \in Threads, WorkerStep(t)
          PROVE  Placed'
      BY <2>3, <2>4, TakeJobPlaces, SavePlaces DEF WorkerStep
    <2>5. CASE UNCHANGED vars
      <3>1. UNCHANGED <<handling, jobs, reader, inHand, code, arrived, acked, answers>>
        BY <2>5 DEF vars, handlerVars, chanVars, readerVars, histVars
      <3>. QED  BY <3>1, NothingMoves
    <2>. QED  BY <2>1, <2>2, <2>4, <2>5 DEF Next
  <1>. QED  BY <1>1, <1>2, <1>3 DEF FlowInv, Placed

\* Whatever workers of old connections still run, and whichever saves fail, a
\* delivery gets at most one result, and none while it waits or is handled.
THEOREM AnsweredOnceHolds == Spec => []AnsweredOnce
  <1>1. FlowInv => AnsweredOnce
    BY DEF FlowInv, OnePlace, AnsweredOnce, InWork, InHandle, Workers
  <1>. QED  BY FlowStarts, FlowStepKeeps, <1>1, PTL DEF Spec

\* docs/protocol.md:107: a command that the reader acked is answered by
\* Handle, never by the reader's own rejection.
THEOREM AckMeansQueuedHolds == Spec => []AckMeansQueued
  <1>1. FlowInv => AckMeansQueued
    BY DEF FlowInv, AckOK
  <1>. QED  BY FlowStarts, FlowStepKeeps, <1>1, PTL DEF Spec

-----------------------------------------------------------------------------
(* Duplicates.                                                             *)

\* Whoever reserved an id will not be told that it is a duplicate: it is past
\* the check and cannot come back to it.
Owner(e) ==
    /\ e \in Arrived
    /\ \A k \in Conns : ~Queued(e, k)
    /\ \A t \in Threads : handling[t] = e =>
         /\ stage[t] # "received"
         /\ stage[t] = "returned" => outcome[t] # "duplicate_command"
    /\ \A a \in answers : a.d = e => a.outcome # "duplicate_command"

ReservedOwned == \A i \in reserved : \E e \in Deliveries : IDOf[e] = i /\ Owner(e)

\* Whoever is told so has an id that is reserved.
DuplicateReserved ==
    /\ \A t \in Threads : stage[t] = "returned" /\ outcome[t] = "duplicate_command"
         => IDOf[handling[t]] \in reserved
    /\ \A a \in answers : a.outcome = "duplicate_command" => IDOf[a.d] \in reserved

OwnerInv == FlowInv /\ ReservedOwned /\ DuplicateReserved

LEMMA VerdictDuplicate ==
    ASSUME NEW d \in Deliveries, NEW ids
    PROVE  /\ Verdict(d, ids) = "duplicate_command" => IDOf[d] \in ids
           /\ ValidID(d) /\ IDOf[d] \in ids => Verdict(d, ids) = "duplicate_command"
  BY DEF Verdict, ValidID

\* What any step may do: nothing that has arrived is queued again,
LEMMA QueueGrowth ==
    ASSUME FlowInv, [Next]_vars
    PROVE  /\ arrived \subseteq arrived'
           /\ \A e : \A k \in Conns : Queued(e, k)' => Queued(e, k) \/ e \notin Arrived
  <1>1. ASSUME UNCHANGED <<jobs, arrived>>
        PROVE  /\ arrived \subseteq arrived'
               /\ \A e : \A k \in Conns : Queued(e, k)' => Queued(e, k)
    BY <1>1 DEF Queued
  <1>2. jobs \in [Conns -> Seq(Deliveries)]
    BY DEF FlowInv, TypeInv, ClientInv, QueuesOK
  <1>3. ASSUME NEW k \in Conns, NEW d \in Deliveries, ReadCommand(k, d)
        PROVE  /\ arrived \subseteq arrived'
               /\ \A e : \A j \in Conns : Queued(e, j)' => Queued(e, j) \/ e \notin Arrived
    <2>1. /\ d \notin Arrived /\ arrived \subseteq arrived'
          /\ \/ jobs' = jobs
             \/ jobs' = [jobs EXCEPT ![k] = Append(jobs[k], d)]
      BY <1>2, <1>3 DEF ReadCommand
    <2>2. \A j \in Conns : jobs'[j] = jobs[j] \/ jobs'[j] = Append(jobs[j], d)
      BY <1>2, <2>1
    <2>3. \A e : \A j \in Conns : In(e, Append(jobs[j], d)) => In(e, jobs[j]) \/ e = d
      BY <1>2, InAppend
    <2>4. \A e : \A j \in Conns : In(e, jobs'[j]) => In(e, jobs[j]) \/ e = d
      BY <2>2, <2>3
    <2>. QED  BY <2>1, <2>4 DEF In, Queued
  <1>4. ASSUME NEW t \in Threads, TakeJob(t)
        PROVE  /\ arrived \subseteq arrived'
               /\ \A e : \A j \in Conns : Queued(e, j)' => Queued(e, j)
    <2>. DEFINE k == ConnOf[t]
    <2>1. /\ k \in Conns /\ jobs[k] # <<>> /\ arrived' = arrived
          /\ jobs' = [jobs EXCEPT ![k] = Tail(jobs[k])]
      BY <1>4, ConnOfType DEF TakeJob, histVars
    <2>2. \A e : In(e, Tail(jobs[k])) => In(e, jobs[k])
      BY <1>2, <2>1, InTail
    <2>3. \A e : \A j \in Conns : In(e, jobs'[j]) => In(e, jobs[j])
      BY <1>2, <2>1, <2>2
    <2>. QED  BY <2>1, <2>3 DEF In, Queued
  <1>5. ASSUME NEW k \in Conns, RunStep(k) \/ WriterStep(k) \/ Heartbeat(k) \/ ReaderSend(k)
               \/ ReaderReject(k) \/ ReaderRejectFails(k) \/ ReadFails(k) \/ ReaderCancelled(k)
        PROVE  UNCHANGED <<jobs, arrived>>
    BY <1>5 DEF RunStep, Dial, HelloAck, HelloFails, Stop, Closed, WriterStep, Write,
                WriterExits, Heartbeat, ReaderSend, ReaderReject, ReaderRejectFails,
                ReadFails, ReaderCancelled, chanVars, histVars
  <1>6. ASSUME NEW t \in Threads,
               WorkerExits(t) \/ HandleStep(t) \/ SaveResult(t) \/ SaveResultFails(t)
        PROVE  UNCHANGED <<jobs, arrived>>
    BY <1>6 DEF WorkerExits, HandleStep, SaveResult, SaveResultFails, chanVars, histVars
  <1>7. CASE UNCHANGED vars
    BY <1>1, <1>7 DEF vars, chanVars, histVars
  <1>8. ASSUME NEW k \in Conns, ReaderStep(k)
        PROVE  /\ arrived \subseteq arrived'
               /\ \A e : \A j \in Conns : Queued(e, j)' => Queued(e, j) \/ e \notin Arrived
    BY <1>1, <1>3, <1>5, <1>8 DEF ReaderStep
  <1>9. ASSUME NEW t \in Threads, WorkerStep(t)
        PROVE  /\ arrived \subseteq arrived'
               /\ \A e : \A j \in Conns : Queued(e, j)' => Queued(e, j) \/ e \notin Arrived
    BY <1>1, <1>4, <1>6, <1>9 DEF WorkerStep
  <1>. QED  BY <1>1, <1>5, <1>7, <1>8, <1>9 DEF Next

\* an answer comes from a thread that has returned, or from a reader that
\* rejects,
LEMMA AnswerOrigin ==
    ASSUME FlowInv, [Next]_vars
    PROVE  /\ answers \subseteq answers'
           /\ \A a \in answers' :
                \/ a \in answers
                \/ a.outcome # "duplicate_command"
                \/ \E t \in Threads : stage[t] = "returned" /\ a.d = handling[t]
                                      /\ a.outcome = outcome[t]
  <1>1. ASSUME NEW k \in Conns, ReaderReject(k) \/ ReaderRejectFails(k)
        PROVE  /\ answers \subseteq answers'
               /\ \A a \in answers' : a \in answers \/ a.outcome # "duplicate_command"
    <2>1. code[k] # "duplicate_command"
      BY <1>1 DEF ReaderReject, ReaderRejectFails, FlowInv, AckOK
    <2>2. Answer(inHand[k], code[k]) \/ UNCHANGED answers
      BY <1>1 DEF ReaderReject, ReaderRejectFails
    <2>. QED  BY <2>1, <2>2, AnswerAdds
  <1>2. ASSUME NEW t \in Threads, SaveResult(t)
        PROVE  /\ answers \subseteq answers' /\ stage[t] = "returned"
               /\ \A a \in answers' :
                    a \in answers \/ (a.d = handling[t] /\ a.outcome = outcome[t])
    BY <1>2, AnswerAdds DEF SaveResult, Leave
  <1>3. ASSUME NEW k \in Conns, RunStep(k) \/ WriterStep(k) \/ Heartbeat(k) \/ ReaderSend(k)
               \/ ReadFails(k) \/ ReaderCancelled(k) \/ \E d \in Deliveries : ReadCommand(k, d)
        PROVE  UNCHANGED answers
    BY <1>3 DEF RunStep, Dial, HelloAck, HelloFails, Stop, Closed, WriterStep, Write,
                WriterExits, Heartbeat, ReaderSend, ReadFails, ReaderCancelled,
                ReadCommand, histVars
  <1>4. ASSUME NEW t \in Threads,
               TakeJob(t) \/ WorkerExits(t) \/ HandleStep(t) \/ SaveResultFails(t)
        PROVE  UNCHANGED answers
    BY <1>4 DEF TakeJob, WorkerExits, HandleStep, SaveResultFails, histVars
  <1>5. CASE UNCHANGED vars
    BY <1>5 DEF vars, histVars
  <1>. QED
    BY <1>1, <1>2, <1>3, <1>4, <1>5 DEF Next, ReaderStep, WorkerStep

\* and a thread gets a delivery from a queue and its verdict from Check.
Moved(t) ==
    \/ handling'[t] = NoDelivery
    \/ stage'[t] = "received" /\ handling'[t] = handling[t] /\ stage[t] = "received"
    \/ stage'[t] = "received" /\ \E k \in Conns : Queued(handling'[t], k)
    \/ /\ handling'[t] = handling[t]
       /\ stage[t] # "received" /\ stage'[t] # "received"
       /\ stage'[t] = "returned" =>
            \/ stage[t] = "returned" /\ outcome'[t] = outcome[t]
            \/ outcome'[t] # "duplicate_command"

LEMMA ThreadMoves ==
    ASSUME FlowInv, [Next]_vars
    PROVE  \/ reserved' = reserved /\ \A t \in Threads : Moved(t)
           \/ \E t \in Threads : Check(t) /\ UNCHANGED <<jobs, arrived, answers>>
  <1>0. /\ stage \in [Threads -> HandleStages]
        /\ handling \in [Threads -> Deliveries \cup {NoDelivery}]
        /\ outcome \in [Threads -> HandlerCodes \cup RunStates \cup {"none"}]
        /\ \A t \in Threads : stage[t] = "idle" <=> handling[t] = NoDelivery
    BY DEF FlowInv, TypeInv, ClientInv, HandlerInv, HandlerTypeOK
  <1>. DEFINE Moves == reserved' = reserved /\ \A t \in Threads : Moved(t)
  <1>1. ASSUME UNCHANGED handlerVars
        PROVE  Moves
    BY <1>0, <1>1 DEF handlerVars, Moved
  <1>2. ASSUME NEW t \in Threads, TakeJob(t)
        PROVE  Moves
    <2>. DEFINE k == ConnOf[t]
    <2>1. k \in Conns /\ jobs[k] # <<>> /\ jobs[k] \in Seq(Deliveries)
      BY <1>2, ConnOfType DEF TakeJob, FlowInv, TypeInv, ClientInv, QueuesOK
    <2>2. Queued(Head(jobs[k]), k)
      BY <2>1, InTail DEF In, Queued
    <2>3. /\ handling' = [handling EXCEPT ![t] = Head(jobs[k])]
          /\ stage' = [stage EXCEPT ![t] = "received"]
          /\ UNCHANGED <<outcome, reserved>>
      BY <1>2 DEF TakeJob, Call
    <2>. QED  BY <1>0, <2>1, <2>2, <2>3 DEF Moved
  <1>3. ASSUME NEW t \in Threads, Spawn(t) \/ SpawnFails(t) \/ Finish(t)
        PROVE  Moves
    BY <1>0, <1>3 DEF Spawn, SpawnFails, Finish, Moved
  <1>4. ASSUME NEW t \in Threads, SaveResult(t) \/ SaveResultFails(t)
        PROVE  Moves
    BY <1>0, <1>4 DEF SaveResult, SaveResultFails, Leave, Moved
  <1>5. ASSUME NEW t \in Threads, HandleStep(t)
        PROVE  Moves \/ \E u \in Threads : Check(u) /\ UNCHANGED <<jobs, arrived, answers>>
    BY <1>3, <1>5 DEF HandleStep, chanVars, histVars
  <1>6. ASSUME NEW k \in Conns,
               RunStep(k) \/ WriterStep(k) \/ ReaderStep(k) \/ Heartbeat(k)
        PROVE  UNCHANGED handlerVars
    BY <1>6, QuietSteps DEF ReaderStep, ReadCommand
  <1>7. ASSUME NEW t \in Threads, WorkerExits(t)
        PROVE  UNCHANGED handlerVars
    BY <1>7 DEF WorkerExits
  <1>8. ASSUME UNCHANGED vars
        PROVE  UNCHANGED handlerVars
    BY <1>8 DEF vars
  <1>. HIDE DEF Moves
  <1>9. Moves \/ \E u \in Threads : Check(u) /\ UNCHANGED <<jobs, arrived, answers>>
    <2>1. ASSUME NEW t \in Threads, WorkerStep(t)
          PROVE  Moves \/ \E u \in Threads : Check(u) /\ UNCHANGED <<jobs, arrived, answers>>
      BY <1>1, <1>2, <1>4, <1>5, <1>7, <2>1 DEF WorkerStep
    <2>. QED  BY <1>1, <1>6, <1>8, <2>1 DEF Next
  <1>. QED  BY <1>9 DEF Moves

\* An owner stays one.
LEMMA OwnerStays ==
    ASSUME FlowInv, [Next]_vars, NEW e \in Deliveries, Owner(e)
    PROVE  Owner(e)'
  <1>1. e \in Arrived' /\ \A k \in Conns : ~Queued(e, k)'
    BY QueueGrowth DEF Owner, Arrived
  <1>2. \A a \in answers' : a.d = e => a.outcome # "duplicate_command"
    BY AnswerOrigin DEF Owner
  <1>3. \A t \in Threads : handling'[t] = e =>
           /\ stage'[t] # "received"
           /\ stage'[t] = "returned" => outcome'[t] # "duplicate_command"
    <2>1. CASE \A t \in Threads : Moved(t)
      BY <2>1, NoDeliveryIsNone DEF Owner, Moved
    <2>2. ASSUME NEW u \in Threads, Check(u), NEW t \in Threads, handling'[t] = e
          PROVE  /\ stage'[t] # "received"
                 /\ stage'[t] = "returned" => outcome'[t] # "duplicate_command"
      <3>1. handling[t] = e /\ t # u
        BY <2>2 DEF Check, Owner
      <3>. QED  BY <2>2, <3>1 DEF Check, Owner
    <2>. QED  BY <2>1, <2>2, ThreadMoves
  <1>. QED  BY <1>1, <1>2, <1>3 DEF Owner

LEMMA OwnerStepKeeps ==
    ASSUME OwnerInv, [Next]_vars
    PROVE  OwnerInv'
  <1>0. FlowInv /\ ReservedOwned /\ DuplicateReserved
    BY DEF OwnerInv
  <1>1. FlowInv'
    BY <1>0, FlowStepKeeps
  <1>2. CASE reserved' = reserved /\ \A t \in Threads : Moved(t)
    <2>1. ReservedOwned'
      BY <1>0, <1>2, OwnerStays DEF ReservedOwned
    <2>2. \A t \in Threads : stage'[t] = "returned" /\ outcome'[t] = "duplicate_command"
             => IDOf[handling'[t]] \in reserved'
      <3>1. ASSUME NEW t \in Threads, stage'[t] = "returned",
                   outcome'[t] = "duplicate_command"
            PROVE  IDOf[handling'[t]] \in reserved'
        <4>1. handling'[t] # NoDelivery
          BY <1>1, <3>1 DEF FlowInv, TypeInv, ClientInv, HandlerInv, HandlerTypeOK
        <4>. QED  BY <1>0, <1>2, <3>1, <4>1 DEF Moved, DuplicateReserved
      <3>. QED  BY <3>1
    <2>3. \A a \in answers' : a.outcome = "duplicate_command" => IDOf[a.d] \in reserved'
      BY <1>0, <1>2, AnswerOrigin DEF DuplicateReserved
    <2>. QED  BY <1>1, <2>1, <2>2, <2>3 DEF OwnerInv, DuplicateReserved
  <1>3. ASSUME NEW u \in Threads, Check(u), UNCHANGED <<jobs, arrived, answers>>
        PROVE  OwnerInv'
    <2>1. PICK d \in Deliveries, v \in HandlerCodes \cup {"run"} :
             /\ d = handling[u] /\ v = Verdict(d, reserved)
             /\ stage[u] = "received" /\ UNCHANGED handling
             /\ stage' = [stage EXCEPT ![u] = IF v = "run" THEN "start" ELSE "returned"]
             /\ outcome' = [outcome EXCEPT ![u] = IF v = "run" THEN @ ELSE v]
             /\ reserved' = IF ValidID(d) THEN reserved \cup {IDOf[d]} ELSE reserved
      <3>1. handling[u] \in Deliveries
        BY <1>0, <1>3 DEF Check, FlowInv, TypeInv, ClientInv, HandlerInv, HandlerTypeOK
      <3>2. Verdict(handling[u], reserved) \in HandlerCodes \cup {"run"}
        BY <3>1, VerdictFacts
      <3>. QED  BY <1>3, <3>1, <3>2 DEF Check
    <2>2. /\ stage \in [Threads -> HandleStages]
          /\ outcome \in [Threads -> HandlerCodes \cup RunStates \cup {"none"}]
      BY <1>0 DEF FlowInv, TypeInv, ClientInv, HandlerInv, HandlerTypeOK
    <2>3. v = "duplicate_command" => IDOf[d] \in reserved
      BY <2>1, VerdictDuplicate
    <2>4. DuplicateReserved'
      <3>1. \A t \in Threads : stage'[t] = "returned" /\ outcome'[t] = "duplicate_command"
               => IDOf[handling'[t]] \in reserved'
        BY <1>0, <2>1, <2>2, <2>3 DEF DuplicateReserved
      <3>2. \A a \in answers' : a.outcome = "duplicate_command" => IDOf[a.d] \in reserved'
        BY <1>0, <1>3, <2>1 DEF DuplicateReserved
      <3>. QED  BY <3>1, <3>2 DEF DuplicateReserved
    <2>5. ASSUME IDOf[d] \notin reserved
          PROVE  Owner(d)'
      <3>1. v # "duplicate_command"
        BY <2>3, <2>5
      <3>2. d \in Arrived' /\ InHandle(d)
        BY <1>0, <1>3, <2>1, NoDeliveryIsNone
        DEF FlowInv, HeldHasArrived, From, Arrived, InHandle
      <3>3. \A k \in Conns : ~Queued(d, k)'
        BY <1>0, <1>3, <2>2, <3>2 DEF FlowInv, OnePlace, Queued
      <3>4. \A a \in answers' : a.d # d
        BY <1>0, <1>3, <3>2 DEF FlowInv, OnePlace
      <3>5. \A t \in Threads : handling'[t] = d => t = u
        BY <1>0, <2>1, NoDeliveryIsNone DEF FlowInv, OnePlace
      <3>6. stage'[u] # "received"
            /\ (stage'[u] = "returned" => outcome'[u] # "duplicate_command")
        BY <2>1, <2>2, <3>1
      <3>. QED  BY <3>2, <3>3, <3>4, <3>5, <3>6 DEF Owner
    <2>6. ReservedOwned'
      <3>1. ASSUME NEW i \in reserved
            PROVE  \E e \in Deliveries : IDOf[e] = i /\ Owner(e)'
        BY <1>0, OwnerStays DEF ReservedOwned
      <3>2. \A i \in reserved' : i \in reserved \/ (i = IDOf[d] /\ IDOf[d] \notin reserved)
        BY <2>1
      <3>. QED  BY <2>2, <2>5, <3>1, <3>2 DEF ReservedOwned
    <2>. QED  BY <1>1, <2>4, <2>6 DEF OwnerInv
  <1>. QED  BY <1>0, <1>2, <1>3, ThreadMoves

\* handler.go duplicate_command: a delivery is turned down as a duplicate
\* only when another one of its command_id has arrived, which is not turned
\* down as a duplicate itself.  (The proof has it that it got through Reserve.)
THEOREM DuplicateOfAnotherHolds == Spec => []DuplicateOfAnother
  <1>1. Init => OwnerInv
    BY FlowStarts DEF Init, HandlerInit, OwnerInv, ReservedOwned, DuplicateReserved
  <1>2. OwnerInv => DuplicateOfAnother
    <2>. SUFFICES ASSUME OwnerInv, NEW a \in answers, a.outcome = "duplicate_command"
                  PROVE  \E e \in Arrived \ {a.d} :
                            /\ IDOf[e] = IDOf[a.d]
                            /\ \A b \in answers : b.d = e => b.outcome # "duplicate_command"
      BY DEF DuplicateOfAnother
    <2>1. PICK e \in Deliveries : IDOf[e] = IDOf[a.d] /\ Owner(e)
      BY DEF OwnerInv, DuplicateReserved, ReservedOwned
    <2>. QED  BY <2>1 DEF Owner
  <1>. QED  BY <1>1, <1>2, OwnerStepKeeps, PTL DEF Spec

-----------------------------------------------------------------------------
(* Nothing is dropped.                                                     *)

\* The delivery d that came on connection k is answered or still on its way.
Kept(d, k) == Answered(d) \/ Queued(d, k) \/ InWork(d, k) \/ InReader(d, k)

Lost == {a \in arrived : Owed(a.d) /\ ~Kept(a.d, a.conn)}

ArriveOnce == \A a, b \in arrived : a.d = b.d => a = b

LossInv ==
    /\ FlowInv
    /\ ArriveOnce
    /\ IsFiniteSet(Lost) /\ Cardinality(Lost) <= saveErrors

\* Steps that add no arrival and keep whatever was kept.
LEMMA KeepsAll ==
    ASSUME arrived' = arrived,
           \A a \in arrived : Kept(a.d, a.conn) => Kept(a.d, a.conn)'
    PROVE  Lost' \subseteq Lost
  BY DEF Lost

\* A new arrival that is owed an answer is queued or in the reader's hand.
LEMMA ReadCommandLoss ==
    ASSUME LossInv, NEW k \in Conns, NEW d \in Deliveries, ReadCommand(k, d)
    PROVE  Lost' \subseteq Lost /\ saveErrors' = saveErrors /\ ArriveOnce'
  <1>1. PICK new : /\ new.d = d /\ new.conn = k /\ d \notin Arrived
                   /\ arrived' = arrived \cup {new}
    BY [d |-> d, conn |-> k].d = d, [d |-> d, conn |-> k].conn = k DEF ReadCommand
  <1>2. ArriveOnce'
    BY <1>1 DEF LossInv, ArriveOnce, Arrived
  <1>3. /\ jobs \in [Conns -> Seq(Deliveries)]
        /\ reader \in [Conns -> {"off", "read", "send", "reject", "exit"}]
        /\ inHand \in [Conns -> Deliveries \cup {NoDelivery}]
    BY DEF LossInv, FlowInv, TypeInv, ClientInv, QueuesOK, ReaderOK
  <1>4. Owed(d) => Kept(d, k)'
    <2>1. CASE Envelope[d] = "ok" /\ ~(Len(jobs[k]) >= QueueSize)
      <3>1. jobs'[k] = Append(jobs[k], d)
        BY <1>3, <2>1 DEF ReadCommand
      <3>2. In(d, jobs'[k])
        BY <1>3, <3>1, InAppend
      <3>. QED  BY <3>2 DEF In, Kept, Queued
    <2>2. CASE Envelope[d] = "ok" /\ Len(jobs[k]) >= QueueSize
      <3>1. reader'[k] = "reject" /\ inHand'[k] = d
        BY <1>3, <2>2 DEF ReadCommand
      <3>. QED  BY <3>1 DEF Kept, InReader
    <2>3. CASE Envelope[d] = "device_mismatch"
      <3>1. reader'[k] = "reject" /\ inHand'[k] = d
        BY <1>3, <2>3 DEF ReadCommand
      <3>. QED  BY <3>1 DEF Kept, InReader
    <2>. QED  BY <2>1, <2>2, <2>3 DEF Owed
  <1>5. \A a \in arrived : Kept(a.d, a.conn) => Kept(a.d, a.conn)'
    <2>. SUFFICES ASSUME NEW e, NEW j \in Conns, Kept(e, j)
                  PROVE  Kept(e, j)'
      BY DEF LossInv, FlowInv, HeldHasArrived
    <2>1. CASE Answered(e)
      BY <2>1 DEF ReadCommand, Answered, Kept
    <2>2. CASE InWork(e, j)
      BY <2>2 DEF ReadCommand, handlerVars, InWork, Kept
    <2>3. CASE InReader(e, j)
      <3>1. j # k
        BY <2>3 DEF InReader, ReadCommand
      <3>2. reader'[j] = reader[j] /\ inHand'[j] = inHand[j]
        BY <1>3, <3>1 DEF ReadCommand
      <3>. QED  BY <2>3, <3>2 DEF InReader, Kept
    <2>4. CASE Queued(e, j)
      <3>1. jobs'[j] = jobs[j] \/ jobs'[j] = Append(jobs[j], d)
        BY <1>3 DEF ReadCommand
      <3>2. In(e, jobs[j]) => In(e, Append(jobs[j], d))
        BY <1>3, InAppend
      <3>3. In(e, jobs[j]) => In(e, jobs'[j])
        BY <3>1, <3>2
      <3>. QED  BY <2>4, <3>3 DEF In, Queued, Kept
    <2>. QED  BY <2>1, <2>2, <2>3, <2>4 DEF Kept
  <1>6. Lost' \subseteq Lost
    BY <1>1, <1>4, <1>5 DEF Lost
  <1>. QED  BY <1>2, <1>6 DEF ReadCommand

\* The reader lets go of a delivery that it has to answer only when the
\* rejection is saved or its save fails.
LEMMA ReleaseLoss ==
    ASSUME LossInv, NEW k \in Conns, Released(k)
    PROVE  /\ /\ answers \subseteq answers'
              /\ \A d : reader[k] = "reject" /\ d = inHand[k] => Answered(d)'
              => Lost' \subseteq Lost
           /\ answers \subseteq answers' => \E x : Lost' \subseteq Lost \cup {x}
  <1>1. ASSUME NEW e, NEW j \in Conns, Kept(e, j), answers \subseteq answers'
        PROVE  Kept(e, j)' \/ (e = inHand[k] /\ j = k /\ reader[k] = "reject")
    <2>1. CASE Answered(e)
      BY <1>1, <2>1 DEF Answered, Kept
    <2>2. CASE InWork(e, j) \/ Queued(e, j)
      BY <2>2 DEF Released, InWork, Queued, Kept
    <2>3. CASE InReader(e, j)
      BY <2>3 DEF Released, InReader, Kept
    <2>. QED  BY <1>1, <2>1, <2>2, <2>3 DEF Kept
  <1>2. arrived' = arrived /\ \A a \in arrived : a.conn \in Conns
    BY DEF Released, LossInv, FlowInv, HeldHasArrived
  <1>3. ASSUME answers \subseteq answers',
               \A d : reader[k] = "reject" /\ d = inHand[k] => Answered(d)'
        PROVE  Lost' \subseteq Lost
    <2>1. \A a \in arrived : Kept(a.d, a.conn) => Kept(a.d, a.conn)'
      BY <1>1, <1>2, <1>3 DEF Kept
    <2>. QED  BY <1>2, <2>1, KeepsAll
  <1>4. ASSUME answers \subseteq answers'
        PROVE  \E x : Lost' \subseteq Lost \cup {x}
    <2>1. \A a \in Lost' : a \in Lost \/ (a \in arrived /\ a.d = inHand[k])
      BY <1>1, <1>2, <1>4 DEF Lost
    <2>2. CASE \E x \in arrived : x.d = inHand[k]
      <3>1. PICK x \in arrived : x.d = inHand[k]
        BY <2>2
      <3>2. Lost' \subseteq Lost \cup {x}
        BY <2>1, <3>1 DEF LossInv, ArriveOnce
      <3>. QED  BY <3>2
    <2>3. CASE ~\E x \in arrived : x.d = inHand[k]
      <3>1. Lost' \subseteq Lost \cup {NoDelivery}
        BY <2>1, <2>3
      <3>. QED  BY <3>1
    <2>. QED  BY <2>2, <2>3
  <1>. QED  BY <1>3, <1>4

LEMMA TakeJobLoss ==
    ASSUME LossInv, NEW t \in Threads, TakeJob(t)
    PROVE  Lost' \subseteq Lost
  <1>. DEFINE k == ConnOf[t]
  <1>1. /\ k \in Conns /\ jobs \in [Conns -> Seq(Deliveries)] /\ jobs[k] # <<>>
        /\ handling \in [Threads -> Deliveries \cup {NoDelivery}]
    BY ConnOfType DEF TakeJob, LossInv, FlowInv, TypeInv, ClientInv, QueuesOK,
                      HandlerInv, HandlerTypeOK
  <1>2. /\ handling[t] = NoDelivery /\ handling' = [handling EXCEPT ![t] = Head(jobs[k])]
        /\ jobs' = [jobs EXCEPT ![k] = Tail(jobs[k])]
        /\ UNCHANGED <<reader, inHand, arrived, answers>>
    BY DEF TakeJob, Call, readerVars, histVars, LossInv, FlowInv, TypeInv, ClientInv,
           HandlerInv, HandlerTypeOK
  <1>3. ASSUME NEW e \in Deliveries, NEW j \in Conns, Kept(e, j)
        PROVE  Kept(e, j)'
    <2>1. CASE Answered(e) \/ InReader(e, j)
      BY <1>2, <2>1 DEF Answered, InReader, Kept
    <2>2. CASE InWork(e, j)
      BY <1>1, <1>2, <2>2, NoDeliveryIsNone DEF InWork, Workers, Kept
    <2>3. CASE Queued(e, j) /\ (j # k \/ e # Head(jobs[k]))
      <3>1. In(e, jobs[j])
        BY <2>3 DEF In, Queued
      <3>2. jobs'[j] = IF j = k THEN Tail(jobs[k]) ELSE jobs[j]
        BY <1>1, <1>2
      <3>3. e # Head(jobs[k]) /\ In(e, jobs[k]) => In(e, Tail(jobs[k]))
        BY <1>1, InTail
      <3>4. In(e, jobs'[j])
        BY <2>3, <3>1, <3>2, <3>3
      <3>. QED  BY <3>4 DEF In, Queued, Kept
    <2>4. CASE j = k /\ e = Head(jobs[k])
      BY <1>1, <1>2, <2>4 DEF InWork, Workers, Kept
    <2>. QED  BY <1>3, <2>1, <2>2, <2>3, <2>4 DEF Kept
  <1>4. \A a \in arrived : a.d \in Deliveries /\ a.conn \in Conns
    BY DEF LossInv, FlowInv, HeldHasArrived
  <1>. QED  BY <1>2, <1>3, <1>4, KeepsAll

LEMMA LeaveLoss ==
    ASSUME LossInv, NEW t \in Threads, SaveResult(t) \/ SaveResultFails(t)
    PROVE  /\ SaveResult(t) => Lost' \subseteq Lost
           /\ \E x : Lost' \subseteq Lost \cup {x}
  <1>1. /\ handling \in [Threads -> Deliveries \cup {NoDelivery}]
        /\ handling' = [handling EXCEPT ![t] = NoDelivery]
        /\ UNCHANGED <<jobs, reader, inHand, arrived>> /\ answers \subseteq answers'
    BY DEF SaveResult, SaveResultFails, Leave, chanVars, readerVars, Answer, LossInv,
           FlowInv, TypeInv, ClientInv, HandlerInv, HandlerTypeOK
  <1>2. ASSUME NEW e \in Deliveries, NEW j \in Conns, Kept(e, j)
        PROVE  Kept(e, j)' \/ e = handling[t]
    <2>1. CASE Answered(e) \/ InReader(e, j) \/ Queued(e, j)
      BY <1>1, <2>1 DEF Answered, InReader, Queued, Kept
    <2>2. CASE InWork(e, j)
      BY <1>1, <2>2 DEF InWork, Workers, Kept
    <2>. QED  BY <1>2, <2>1, <2>2 DEF Kept
  <1>3. \A a \in arrived : a.d \in Deliveries /\ a.conn \in Conns
    BY DEF LossInv, FlowInv, HeldHasArrived
  <1>4. ASSUME SaveResult(t)
        PROVE  Lost' \subseteq Lost
    <2>1. ASSUME NEW d, d = handling[t]
          PROVE  Answered(d)'
      BY <1>4, <2>1, AnswerAdds DEF SaveResult
    <2>2. \A a \in arrived : Kept(a.d, a.conn) => Kept(a.d, a.conn)'
      BY <1>2, <1>3, <2>1 DEF Kept
    <2>. QED  BY <1>1, <2>2, KeepsAll
  <1>5. \E x : Lost' \subseteq Lost \cup {x}
    <2>1. \A a \in Lost' : a \in Lost \/ (a \in arrived /\ a.d = handling[t])
      BY <1>1, <1>2, <1>3 DEF Lost
    <2>2. CASE \E x \in arrived : x.d = handling[t]
      <3>1. PICK x \in arrived : x.d = handling[t]
        BY <2>2
      <3>2. Lost' \subseteq Lost \cup {x}
        BY <2>1, <3>1 DEF LossInv, ArriveOnce
      <3>. QED  BY <3>2
    <2>3. CASE ~\E x \in arrived : x.d = handling[t]
      <3>1. Lost' \subseteq Lost \cup {NoDelivery}
        BY <2>1, <2>3
      <3>. QED  BY <3>1
    <2>. QED  BY <2>2, <2>3
  <1>. QED  BY <1>4, <1>5

\* Any step loses nothing, or one delivery with one failed save.
LEMMA LossStep ==
    ASSUME LossInv, [Next]_vars
    PROVE  /\ ArriveOnce'
           /\ \/ Lost' \subseteq Lost /\ saveErrors' = saveErrors
              \/ (\E x : Lost' \subseteq Lost \cup {x}) /\ saveErrors' = saveErrors + 1
  <1>. DEFINE Fine == Lost' \subseteq Lost /\ saveErrors' = saveErrors /\ ArriveOnce'
              Loss == /\ \E x : Lost' \subseteq Lost \cup {x}
                      /\ saveErrors' = saveErrors + 1 /\ ArriveOnce'
  <1>0. ASSUME UNCHANGED arrived
        PROVE  ArriveOnce'
    BY <1>0 DEF LossInv, ArriveOnce
  <1>1. ASSUME UNCHANGED <<handling, jobs, inHand, arrived, answers, saveErrors>>,
               \A j \in Conns : reader'[j] = reader[j] \/ reader[j] = "off"
        PROVE  Fine
    <2>1. \A a \in arrived : a.conn \in Conns
      BY DEF LossInv, FlowInv, HeldHasArrived
    <2>2. ASSUME NEW e, NEW j \in Conns, Kept(e, j)
          PROVE  Kept(e, j)'
      BY <1>1, <2>2 DEF Kept, Answered, Queued, InWork, InReader
    <2>. QED  BY <1>0, <1>1, <2>1, <2>2, KeepsAll
  <1>2. ASSUME NEW k \in Conns, RunStep(k) \/ WriterStep(k) \/ Heartbeat(k)
        PROVE  Fine
    <2>1. UNCHANGED <<handling, jobs, inHand, arrived, answers, saveErrors>>
      BY <1>2 DEF RunStep, Dial, HelloAck, HelloFails, Stop, Closed, WriterStep, Write,
                  WriterExits, Heartbeat, readerVars, histVars, handlerVars, chanVars
    <2>2. \A j \in Conns : reader'[j] = reader[j] \/ reader[j] = "off"
      BY <1>2 DEF RunStep, Dial, HelloAck, HelloFails, Stop, Closed, WriterStep, Write,
                  WriterExits, Heartbeat, readerVars, LossInv, FlowInv, TypeInv, ReaderOK
    <2>. QED  BY <1>1, <2>1, <2>2
  <1>3. ASSUME NEW k \in Conns, NEW d \in Deliveries, ReadCommand(k, d)
        PROVE  Fine
    BY <1>3, ReadCommandLoss
  <1>4. ASSUME NEW k \in Conns, ReaderSend(k) \/ ReadFails(k) \/ ReaderCancelled(k)
        PROVE  Fine
    <2>1. Released(k)
      BY <1>4, ReaderReleases DEF LossInv
    <2>2. UNCHANGED <<answers, saveErrors, arrived>> /\ reader[k] # "reject"
      BY <1>4 DEF ReaderSend, ReadFails, ReaderCancelled, histVars
    <2>. QED  BY <1>0, <2>1, <2>2, ReleaseLoss
  <1>5. ASSUME NEW k \in Conns, ReaderReject(k)
        PROVE  Fine
    <2>1. Released(k)
      BY <1>5, ReaderReleases DEF LossInv
    <2>2. /\ UNCHANGED <<saveErrors, arrived>> /\ answers \subseteq answers'
          /\ \A d : d = inHand[k] => Answered(d)'
      BY <1>5, AnswerAdds DEF ReaderReject, Answer
    <2>. QED  BY <1>0, <2>1, <2>2, ReleaseLoss
  <1>6. ASSUME NEW k \in Conns, ReaderRejectFails(k)
        PROVE  Loss
    <2>1. Released(k)
      BY <1>6, ReaderReleases DEF LossInv
    <2>2. /\ saveErrors' = saveErrors + 1 /\ UNCHANGED arrived
          /\ answers \subseteq answers'
      BY <1>6 DEF ReaderRejectFails, Answer
    <2>. QED  BY <1>0, <2>1, <2>2, ReleaseLoss
  <1>7. ASSUME NEW t \in Threads, TakeJob(t)
        PROVE  Fine
    BY <1>0, <1>7, TakeJobLoss DEF TakeJob, histVars
  <1>8. ASSUME NEW t \in Threads, WorkerExits(t) \/ HandleStep(t)
        PROVE  Fine
    <2>1. UNCHANGED <<handling, jobs, reader, inHand, arrived, answers, saveErrors>>
      BY <1>8 DEF WorkerExits, HandleStep, Check, Spawn, SpawnFails, Finish,
                  handlerVars, chanVars, readerVars, histVars
    <2>. QED  BY <1>1, <2>1
  <1>9. ASSUME NEW t \in Threads, SaveResult(t)
        PROVE  Fine
    BY <1>0, <1>9, LeaveLoss DEF SaveResult
  <1>10. ASSUME NEW t \in Threads, SaveResultFails(t)
         PROVE  Loss
    BY <1>0, <1>10, LeaveLoss DEF SaveResultFails
  <1>11. ASSUME UNCHANGED vars
         PROVE  Fine
    <2>1. UNCHANGED <<handling, jobs, reader, inHand, arrived, answers, saveErrors>>
      BY <1>11 DEF vars, handlerVars, chanVars, readerVars, histVars
    <2>. QED  BY <1>1, <2>1
  <1>. HIDE DEF Fine, Loss
  <1>12. ASSUME NEW k \in Conns, ReaderStep(k)
         PROVE  Fine \/ Loss
    BY <1>3, <1>4, <1>5, <1>6, <1>12 DEF ReaderStep
  <1>13. ASSUME NEW t \in Threads, WorkerStep(t)
         PROVE  Fine \/ Loss
    BY <1>7, <1>8, <1>9, <1>10, <1>13 DEF WorkerStep
  <1>14. Fine \/ Loss
    BY <1>2, <1>11, <1>12, <1>13 DEF Next
  <1>. QED  BY <1>14 DEF Fine, Loss

\* The commands that wait in the queue of a connection nobody works for.
Stranded == {a \in arrived : Queued(a.d, a.conn) /\ Abandoned(a.conn)}

\* A stranded command has a place in a queue of QueueSize places to itself.
LEMMA StrandedBound ==
    ASSUME LossInv
    PROVE  /\ IsFiniteSet(Stranded)
           /\ Cardinality(Stranded)
                <= QueueSize * Cardinality({k \in Conns : Abandoned(k)})
  <1>. DEFINE Ended == {k \in Conns : Abandoned(k)}
              Place(a) == CHOOSE n \in DOMAIN jobs[a.conn] : jobs[a.conn][n] = a.d
              f == [a \in Stranded |-> <<a.conn, Place(a)>>]
  <1>1. \A a \in arrived : a.conn \in Conns
    BY DEF LossInv, FlowInv, HeldHasArrived
  <1>2. \A k \in Conns : jobs[k] \in Seq(Deliveries) /\ Len(jobs[k]) <= QueueSize
    BY DEF LossInv, FlowInv, TypeInv, ClientInv, QueuesOK
  <1>3. ASSUME NEW a \in Stranded
        PROVE  /\ a.conn \in Ended /\ Place(a) \in 1 .. QueueSize
               /\ jobs[a.conn][Place(a)] = a.d
    <2>1. a \in arrived /\ a.conn \in Conns /\ a.conn \in Ended
      BY <1>1 DEF Stranded
    <2>2. \E n \in DOMAIN jobs[a.conn] : jobs[a.conn][n] = a.d
      BY DEF Stranded, Queued
    <2>3. Place(a) \in DOMAIN jobs[a.conn] /\ jobs[a.conn][Place(a)] = a.d
      BY <2>2
    <2>4. DOMAIN jobs[a.conn] \subseteq 1 .. QueueSize
      BY <1>2, <2>1, SizesPositive
    <2>. QED  BY <2>1, <2>3, <2>4
  <1>4. ASSUME NEW a \in Stranded, NEW b \in Stranded,
               a.conn = b.conn, Place(a) = Place(b)
        PROVE  a = b
    <2>1. jobs[a.conn][Place(a)] = a.d /\ jobs[b.conn][Place(b)] = b.d
      BY <1>3
    <2>. HIDE DEF Place
    <2>2. a.d = b.d
      BY <1>4, <2>1
    <2>. QED  BY <2>2 DEF Stranded, LossInv, ArriveOnce
  <1>. HIDE DEF Place
  <1>5. f \in Injection(Stranded, Ended \X (1 .. QueueSize))
    <2>1. f \in [Stranded -> Ended \X (1 .. QueueSize)]
      BY <1>3
    <2>2. \A a, b \in Stranded : f[a] = f[b] => a = b
      BY <1>4
    <2>. QED  BY <2>1, <2>2 DEF Injection, IsInjective
  <1>6. IsFiniteSet(Ended) /\ Cardinality(Ended) \in Nat
    <2>1. IsFiniteSet(Conns)
      BY FS_Interval, ConnOfType DEF Conns
    <2>2. Ended \subseteq Conns
      OBVIOUS
    <2>. QED  BY <2>1, <2>2, FS_Subset, FS_CardinalityType
  <1>7. IsFiniteSet(1 .. QueueSize) /\ Cardinality(1 .. QueueSize) = QueueSize
    <2>1. QueueSize \in Int /\ 1 \in Int /\ ~(1 > QueueSize) /\ QueueSize - 1 + 1 = QueueSize
      BY SizesPositive
    <2>2. IsFiniteSet(1 .. QueueSize) /\ Cardinality(1 .. QueueSize) = QueueSize - 1 + 1
      BY <2>1, FS_Interval
    <2>. QED  BY <2>1, <2>2
  <1>. HIDE DEF Ended, f
  <1>8. /\ IsFiniteSet(Ended \X (1 .. QueueSize))
        /\ Cardinality(Ended \X (1 .. QueueSize)) = Cardinality(Ended) * QueueSize
    BY <1>6, <1>7, FS_Product
  <1>9. /\ IsFiniteSet(Stranded)
        /\ Cardinality(Stranded) <= Cardinality(Ended \X (1 .. QueueSize))
    BY <1>5, <1>8, FS_Injection
  <1>10. Cardinality(Ended) * QueueSize = QueueSize * Cardinality(Ended)
    BY <1>6, SizesPositive
  <1>. QED  BY <1>8, <1>9, <1>10 DEF Ended

\* What the reader has taken from the connection is answered, or still in a
\* queue somebody takes from, with a worker or with the reader: no full queue
\* and no order of the goroutines loses a command, only a save that fails, one
\* at most, and the end of a connection, the QueueSize commands at most that
\* wait in its queue when its workers return.
THEOREM NoneDroppedHolds == Spec => []NoneDropped
  <1>1. Init => LossInv
    <2>. SUFFICES ASSUME Init PROVE LossInv
      OBVIOUS
    <2>1. FlowInv
      BY FlowStarts
    <2>2. Lost = {} /\ ArriveOnce /\ saveErrors = 0
      BY DEF Init, Lost, ArriveOnce
    <2>. QED  BY <2>1, <2>2, FS_EmptySet DEF LossInv
  <1>2. LossInv /\ [Next]_vars => LossInv'
    <2>. SUFFICES ASSUME LossInv, [Next]_vars PROVE LossInv'
      OBVIOUS
    <2>1. FlowInv' /\ ArriveOnce'
      BY FlowStepKeeps, LossStep DEF LossInv
    <2>2. /\ saveErrors \in Nat /\ IsFiniteSet(Lost) /\ Cardinality(Lost) \in Nat
          /\ Cardinality(Lost) <= saveErrors
      BY FS_CardinalityType, MaxSaveErrorsNat DEF LossInv, FlowInv, TypeInv, ErrorsOK
    <2>3. CASE Lost' \subseteq Lost /\ saveErrors' = saveErrors
      <3>1. IsFiniteSet(Lost') /\ Cardinality(Lost') <= Cardinality(Lost)
            /\ Cardinality(Lost') \in Nat
        BY <2>2, <2>3, FS_Subset, FS_CardinalityType
      <3>. QED  BY <2>1, <2>2, <2>3, <3>1 DEF LossInv
    <2>4. ASSUME NEW x, Lost' \subseteq Lost \cup {x}, saveErrors' = saveErrors + 1
          PROVE  LossInv'
      <3>1. /\ IsFiniteSet(Lost \cup {x})
            /\ Cardinality(Lost \cup {x}) \in Nat
            /\ Cardinality(Lost \cup {x}) <= Cardinality(Lost) + 1
        BY <2>2, FS_AddElement, FS_CardinalityType
      <3>2. IsFiniteSet(Lost') /\ Cardinality(Lost') <= Cardinality(Lost \cup {x})
            /\ Cardinality(Lost') \in Nat
        BY <2>4, <3>1, FS_Subset, FS_CardinalityType
      <3>. QED  BY <2>1, <2>2, <2>4, <3>1, <3>2 DEF LossInv
    <2>. QED  BY <2>3, <2>4, LossStep
  <1>3. LossInv => NoneDropped
    <2>. SUFFICES ASSUME LossInv PROVE NoneDropped
      OBVIOUS
    <2>. DEFINE Gone == {a \in arrived : Owed(a.d) /\ ~InHands(a.d, a.conn)}
                most == QueueSize * Cardinality({k \in Conns : Abandoned(k)})
    <2>1. Gone \subseteq Lost \cup Stranded
      BY DEF InHands, Lost, Kept, Stranded
    <2>2. IsFiniteSet(Stranded) /\ Cardinality(Stranded) <= most
      BY StrandedBound
    <2>3. IsFiniteSet(Lost) /\ Cardinality(Lost) <= saveErrors
      BY DEF LossInv
    <2>. HIDE DEF most, Gone
    <2>4. /\ IsFiniteSet(Lost \cup Stranded) /\ IsFiniteSet(Lost \cap Stranded)
          /\ Cardinality(Lost \cup Stranded)
               = Cardinality(Lost) + Cardinality(Stranded) - Cardinality(Lost \cap Stranded)
      <3>1. Lost \cap Stranded \subseteq Lost
        OBVIOUS
      <3>. QED  BY <2>2, <2>3, <3>1, FS_Union, FS_Subset
    <2>5. IsFiniteSet(Gone) /\ Cardinality(Gone) <= Cardinality(Lost \cup Stranded)
      BY <2>1, <2>4, FS_Subset
    <2>6. /\ Cardinality(Lost) \in Nat /\ Cardinality(Stranded) \in Nat
          /\ Cardinality(Gone) \in Nat /\ Cardinality(Lost \cap Stranded) \in Nat
      BY <2>2, <2>3, <2>4, <2>5, FS_CardinalityType
    <2>7. saveErrors \in Nat
      BY MaxSaveErrorsNat DEF LossInv, FlowInv, TypeInv, ErrorsOK
    <2>8. most \in Nat
      <3>1. {k \in Conns : Abandoned(k)} \subseteq Conns /\ IsFiniteSet(Conns)
        BY FS_Interval, ConnOfType DEF Conns
      <3>2. Cardinality({k \in Conns : Abandoned(k)}) \in Nat
        BY <3>1, FS_Subset, FS_CardinalityType
      <3>. QED  BY <3>2, SizesPositive DEF most
    <2>9. Cardinality(Gone) <= saveErrors + most
      BY <2>2, <2>3, <2>4, <2>5, <2>6, <2>7, <2>8
    <2>. QED  BY <2>9 DEF Gone, most, NoneDropped
  <1>. QED  BY <1>1, <1>2, <1>3, PTL DEF Spec

-----------------------------------------------------------------------------
(* How far the limit of max_parallel_jobs holds.                           *)

\* Processes whose context is not over: those of connections that are in use.
LiveJobs == {t \in Running : Alive(ConnOf[t])}

\* configs/agent.example.yaml:56: the limit holds for the processes that are
\* not being killed.  Processes beyond it (the run that violates
\* ParallelJobsLimited has one) belong to a connection that has ended, and
\* runOnce does not wait for them.
THEOREM LiveJobsLimited == Spec => [](Cardinality(LiveJobs) <= MaxParallelJobs)
  <1>1. ASSUME TypeOK
        PROVE  Cardinality(LiveJobs) <= MaxParallelJobs
    <2>1. CASE LiveJobs = {}
      BY <2>1, FS_EmptySet, ThreadsFinite
    <2>2. ASSUME NEW u \in LiveJobs
          PROVE  Cardinality(LiveJobs) <= MaxParallelJobs
      <3>1. u \in Threads /\ ConnOf[u] \in Conns /\ Alive(ConnOf[u])
        BY ConnOfType DEF LiveJobs, Running
      <3>2. ASSUME NEW j \in Conns, NEW k \in Conns, Alive(j), Alive(k)
            PROVE  j = k
        <4>1. link[j] # "closed" /\ link[k] # "closed"
          BY <3>2 DEF Alive
        <4>2. link[j] # "unused" /\ link[k] # "unused"
          BY <3>2 DEF Alive
        <4>3. ~(j < k) /\ ~(k < j)
          BY <1>1, <4>1, <4>2 DEF TypeOK
        <4>. QED  BY <4>3, ConnOfType DEF Conns
      <3>3. LiveJobs \subseteq {t \in Threads : ConnOf[t] = ConnOf[u]}
        BY <3>1, <3>2, ConnOfType DEF LiveJobs, Running
      <3>4. IsFiniteSet({t \in Threads : ConnOf[t] = ConnOf[u]})
        BY ThreadsFinite, FS_Subset
      <3>5. /\ Cardinality(LiveJobs) <= Cardinality({t \in Threads : ConnOf[t] = ConnOf[u]})
            /\ Cardinality({t \in Threads : ConnOf[t] = ConnOf[u]}) = MaxParallelJobs
        BY <3>1, <3>3, <3>4, FS_Subset, WorkersPerConn
      <3>. QED  BY <3>5
    <2>. QED  BY <2>1, <2>2
  <1>. QED  BY TypeOKHolds, <1>1, PTL
=============================================================================
