-------------------------- MODULE ResultDispatcher --------------------------
(***************************************************************************)
(* internal/transport/result_dispatcher.go over the outbox.  Any number of *)
(* goroutines call DispatchOnce: the one-second ticker of Run, the one a   *)
(* new WebSocket connection starts, and every worker, reader or poll loop  *)
(* that Enqueues a result.  The sending flag lets one of them through; the *)
(* others return at once.                                                  *)
(*                                                                         *)
(* The pass that is let through works on a snapshot of the due records and *)
(* holds no lock while it sends one, so that saves, drops, clock jumps and *)
(* crashes happen between the snapshot and the Delete or MarkFailure that  *)
(* follows the send.  One action stands for the code between two points    *)
(* where another goroutine can run.                                        *)
(*                                                                         *)
(* The WebSocket and HTTP senders are external: a sender returns nil or an *)
(* error.  HTTP returns nil only for a 2xx answer, so the cloud then has   *)
(* the result; a WebSocket write returns nil when the local write did.     *)
(***************************************************************************)
EXTENDS Outbox

CONSTANTS
    Tickers,        \* the loop of Run, whose context ends with the process
    Connects,       \* goroutines a new WebSocket connection starts
    Enqueuers,      \* callers of Enqueue
    WSEnabled, PullEnabled,
    BatchLimit,     \* records taken by one pass, 16 in the code
    MaxCrashes      \* bound: crashes of the process

ASSUME TransportEnabled ==
    WSEnabled \in BOOLEAN /\ PullEnabled \in BOOLEAN
    /\ (WSEnabled \/ PullEnabled)
ASSUME BatchLimitPositive == BatchLimit \in Nat \ {0}
ASSUME MaxCrashesNat == MaxCrashes \in Nat

Callers == Tickers \cup Connects \cup Enqueuers

VARIABLES
    pc,         \* where each caller is
    batch,      \* the records its pass has still to send, snapshots of Due
    via,        \* the transport its current record goes through
    sending,    \* d.sending
    wsSender,   \* d.wsSender # nil: a WebSocket connection is up
    crashes,
    listed,     \* history: what the clock read when the pass listed its
                \* records, and which results had been saved
    written,    \* history: results a WebSocket write returned nil for
    received    \* history: results the cloud has

passVars == <<pc, batch, listed, via, sending>>
netVars == <<wsSender, crashes>>
cloudVars == <<written, received>>
vars == <<storeVars, passVars, netVars, cloudVars>>

\* idle     not in DispatchOnce
\* saved    Enqueue has saved its result and calls DispatchOnce
\* list     the sending flag is taken, Due comes next
\* loop     at the head of the for loop
\* send     inside the sender for the first record of the batch
\* failed   the sender returned an error, MarkFailure comes next
\* sent     the sender returned nil, Delete comes next
Stages == {"idle", "saved", "list", "loop", "send", "failed", "sent"}
InPass(c) == pc[c] \in {"list", "loop", "send", "failed", "sent"}

NotListed == [at |-> 0, saved |-> {}]
Current(c) == Head(batch[c]).env

At(c, stage) == pc[c] = stage
GoTo(c, stage) == pc' = [pc EXCEPT ![c] = stage]

-----------------------------------------------------------------------------
(* Enqueue and DispatchOnce.                                               *)

\* Enqueue: the result is saved before any attempt to send it.  A failing
\* write leaves the directory as it was and is a stuttering step.
Enqueue(c, r) ==
    /\ At(c, "idle")
    /\ Save(r)
    /\ GoTo(c, "saved")
    /\ UNCHANGED <<batch, listed, via, sending, netVars, cloudVars>>

\* DispatchOnce finds the flag taken and returns nil.
SkipPass(c) ==
    /\ At(c, "saved")
    /\ sending
    /\ GoTo(c, "idle")
    /\ UNCHANGED <<storeVars, batch, listed, via, sending, netVars, cloudVars>>

\* Mutant: the flag is set without being looked at.
BeginPassAnyway(c) ==
    /\ At(c, IF c \in Enqueuers THEN "saved" ELSE "idle")
    /\ c \in Connects => WSEnabled
    /\ sending' = TRUE
    /\ GoTo(c, "list")
    /\ UNCHANGED <<storeVars, batch, listed, via, netVars, cloudVars>>

\* DispatchOnce takes the flag, under d.mu.
BeginPass(c) ==
    /\ At(c, IF c \in Enqueuers THEN "saved" ELSE "idle")
    /\ c \in Connects => WSEnabled
    /\ ~sending
    /\ sending' = TRUE
    /\ GoTo(c, "list")
    /\ UNCHANGED <<storeVars, batch, listed, via, netVars, cloudVars>>

\* store.Due.
ListDue(c) ==
    /\ At(c, "list")
    /\ \E due \in Due(files, now, BatchLimit) :
          batch' = [batch EXCEPT ![c] = due]
    /\ listed' = [listed EXCEPT ![c] = [at |-> now, saved |-> Saved]]
    /\ GoTo(c, "loop")
    /\ UNCHANGED <<storeVars, via, sending, netVars, cloudVars>>

\* sender(): the WebSocket is preferred while its connection is up.
SenderName ==
    IF wsSender THEN "websocket" ELSE IF PullEnabled THEN "pull" ELSE "none"

BeginSend(c) ==
    /\ At(c, "loop")
    /\ batch[c] # <<>>
    /\ SenderName # "none"
    /\ via' = [via EXCEPT ![c] = SenderName]
    /\ GoTo(c, "send")
    /\ UNCHANGED <<storeVars, batch, listed, sending, netVars, cloudVars>>

\* Mutant: a return that does not clear the flag.
ReturnWithFlag(c) ==
    /\ GoTo(c, "idle")
    /\ batch' = [batch EXCEPT ![c] = <<>>]
    /\ listed' = [listed EXCEPT ![c] = NotListed]
    /\ via' = [via EXCEPT ![c] = "none"]
    /\ UNCHANGED <<storeVars, sending, netVars, cloudVars>>

\* The deferred function of DispatchOnce clears the flag on every return.
Return(c) ==
    /\ sending' = FALSE
    /\ GoTo(c, "idle")
    /\ batch' = [batch EXCEPT ![c] = <<>>]
    /\ listed' = [listed EXCEPT ![c] = NotListed]
    /\ via' = [via EXCEPT ![c] = "none"]
    /\ UNCHANGED <<storeVars, netVars, cloudVars>>

\* The batch is done, or no transport can send.
EndPass(c) ==
    /\ At(c, "loop")
    /\ batch[c] = <<>> \/ SenderName = "none"
    /\ Return(c)

\* Mutant: the context is looked at before the deferred function is set up.
CancelWithFlag(c) ==
    /\ c \notin Tickers
    /\ At(c, "loop")
    /\ GoTo(c, "idle")
    /\ batch' = [batch EXCEPT ![c] = <<>>]
    /\ listed' = [listed EXCEPT ![c] = NotListed]
    /\ via' = [via EXCEPT ![c] = "none"]
    /\ UNCHANGED <<storeVars, sending, netVars, cloudVars>>

\* The context of the caller is cancelled: it ends with a
\* connection.  The ticker's ends only with the process.
CancelPass(c) ==
    /\ c \notin Tickers
    /\ At(c, "loop")
    /\ Return(c)

\* The sender returns nil.
SendOK(c) ==
    /\ At(c, "send")
    /\ written' = IF via[c] = "websocket" THEN written \cup {Current(c)}
                                          ELSE written
    /\ received' \in IF via[c] = "websocket"
                       THEN {received, received \cup {Current(c)}}
                       ELSE {received \cup {Current(c)}}
    /\ GoTo(c, "sent")
    /\ UNCHANGED <<storeVars, batch, listed, via, sending, netVars>>

\* Mutant: the error of the sender is ignored.
SendErrorIgnored(c) ==
    /\ At(c, "send")
    /\ received' \in {received, received \cup {Current(c)}}
    /\ GoTo(c, "sent")
    /\ UNCHANGED <<storeVars, batch, listed, via, sending, netVars, written>>

\* The sender returns an error; the cloud may have the result all the same.
SendError(c) ==
    /\ At(c, "send")
    /\ received' \in {received, received \cup {Current(c)}}
    /\ GoTo(c, "failed")
    /\ UNCHANGED <<storeVars, batch, listed, via, sending, netVars, written>>

NextRecord(c) ==
    /\ batch' = [batch EXCEPT ![c] = Tail(@)]
    /\ via' = [via EXCEPT ![c] = "none"]
    /\ GoTo(c, "loop")
    /\ UNCHANGED <<listed, sending, netVars, cloudVars>>

\* Mutant: a record is given up after a failure.
GiveUp(c) ==
    /\ At(c, "failed")
    /\ Delete(RecordIDOf(Current(c)))
    /\ NextRecord(c)

\* store.MarkFailure, then the next record.
RecordFailure(c) ==
    /\ At(c, "failed")
    /\ MarkFailure(RecordIDOf(Current(c)))
    /\ files'[RecordIDOf(Current(c))].next <= MaxTime   \* bound
    /\ NextRecord(c)

\* MarkFailure fails, because the limits dropped the record while it was
\* being sent, or because it cannot be written: DispatchOnce returns.
FailureNotRecorded(c) ==
    /\ At(c, "failed")
    /\ Return(c)

\* store.Delete by record id, then the next record.
DeleteSent(c) ==
    /\ At(c, "sent")
    /\ Delete(RecordIDOf(Current(c)))
    /\ NextRecord(c)

\* store.Delete or store.Due fails: DispatchOnce returns.
StoreError(c) ==
    /\ pc[c] \in {"sent", "list"}
    /\ Return(c)

-----------------------------------------------------------------------------
(* The environment.                                                        *)

\* SetWebSocketSender: a connection comes up, and goes away again.
SetWebSocketSender(up) ==
    /\ WSEnabled
    /\ wsSender # up
    /\ wsSender' = up
    /\ UNCHANGED <<storeVars, passVars, crashes, cloudVars>>

\* Time passes, or the clock is set.
ClockMoves(t) ==
    /\ Clock(t)
    /\ UNCHANGED <<passVars, netVars, cloudVars>>

\* The process dies and starts again: goroutines and flags are gone, the
\* directory is loaded.
CrashRestart ==
    /\ crashes < MaxCrashes
    /\ crashes' = crashes + 1
    /\ Load
    /\ pc' = [c \in Callers |-> "idle"]
    /\ batch' = [c \in Callers |-> <<>>]
    /\ listed' = [c \in Callers |-> NotListed]
    /\ via' = [c \in Callers |-> "none"]
    /\ sending' = FALSE
    /\ wsSender' = FALSE
    /\ UNCHANGED cloudVars

Init ==
    /\ StoreInit
    /\ pc = [c \in Callers |-> "idle"]
    /\ batch = [c \in Callers |-> <<>>]
    /\ listed = [c \in Callers |-> NotListed]
    /\ via = [c \in Callers |-> "none"]
    /\ sending = FALSE
    /\ wsSender = FALSE
    /\ crashes = 0
    /\ written = {}
    /\ received = {}

PassStep(c) ==
    \/ SkipPass(c) \/ BeginPass(c) \/ ListDue(c) \/ BeginSend(c)
    \/ EndPass(c) \/ CancelPass(c) \/ SendOK(c) \/ SendError(c)
    \/ RecordFailure(c) \/ FailureNotRecorded(c)
    \/ DeleteSent(c) \/ StoreError(c)

Next ==
    \/ \E c \in Enqueuers, r \in Results \ Saved : Enqueue(c, r)
    \/ \E c \in Callers : PassStep(c)
    \/ \E up \in BOOLEAN : SetWebSocketSender(up)
    \/ \E t \in Time : ClockMoves(t)
    \/ CrashRestart

Spec == Init /\ [][Next]_vars

\* The ticker never stops and every goroutine keeps running.  A send
\* returns: HTTP has a request timeout, and TCP gives up on a connection
\* that acknowledges nothing.  Strong fairness where the environment decides
\* between success and failure: not every send and not every disk operation
\* fails for ever.  Time passes.
Fairness ==
    /\ \A c \in Tickers \cup Enqueuers : WF_vars(PassStep(c))
    /\ \A c \in Connects : WF_vars(InPass(c) /\ PassStep(c))
    /\ \A c \in Tickers \cup Connects :
         SF_vars(ListDue(c)) /\ SF_vars(BeginSend(c))
         /\ SF_vars(SendOK(c)) /\ SF_vars(DeleteSent(c))
    /\ WF_vars(\E t \in Time : t > now /\ ClockMoves(t))

FairSpec == Spec /\ Fairness

-----------------------------------------------------------------------------
(* Properties.                                                             *)

\* Each variable has its type; what a pass works on are results that were
\* saved.
TypeOK ==
    /\ StoreTypeOK
    /\ pc \in [Callers -> Stages]
    /\ batch \in [Callers -> Seq(Record)]
    /\ \A c \in Callers :
         /\ \A k \in 1 .. Len(batch[c]) : batch[c][k].env \in Saved
         /\ pc[c] \in {"send", "failed", "sent"} => batch[c] # <<>>
    /\ listed \in [Callers -> [at : Time, saved : SUBSET Saved]]
    /\ via \in [Callers -> {"websocket", "pull", "none"}]
    /\ sending \in BOOLEAN /\ wsSender \in BOOLEAN
    /\ crashes \in 0 .. MaxCrashes
    /\ written \in SUBSET Saved /\ received \in SUBSET Saved

\* result_dispatcher.go sending: no two goroutines are between taking the
\* flag and the deferred clear, and the flag is not left set by any return.
OnePass ==
    /\ \A c, d \in Callers : InPass(c) /\ InPass(d) => c = d
    /\ sending <=> \E c \in Callers : InPass(c)

\* While a record is being sent, its next_retry_at had come when the pass
\* listed it, and nobody has put it off since: no pass retries a result that
\* another has just failed to send, wherever the clock is set meanwhile.  The
\* file may by then be a new one, if the limits dropped the record and a
\* result with the same record id was saved.
DueWhenListed(c, i, r) ==
    files[i].next <= listed[c].at \/ (files[i].attempts = 0 /\ files[i].env # r)
NoEarlyRetry ==
    \A c \in Callers : At(c, "send") =>
        LET i == RecordIDOf(Current(c)) IN
        Readable(files, i) => DueWhenListed(c, i, Current(c))

\* docs/protocol.md:127 and docs/device-acceptance.md:144: a result is saved
\* first, and its record goes away only after it was sent.  For a result
\* that alone uses its record id this holds through interleavings, send and
\* disk errors, crashes and the limits: it is in the outbox, or the cloud
\* has it, or a WebSocket write took it, or the limits dropped it.
Settled(r) == r \in received \/ r \in written \/ r \in dropped
SoleResultAccounted ==
    \A r \in Saved :
        Sole(r) /\ CommandOf[r] # NoID => Pending(r) \/ Settled(r)

\* What makes these inductive.  A caller outside a pass has no batch; the
\* batch of a pass holds different files, none of which has been put off
\* since the pass listed it; and "sent" means that the sender returned nil.
IdleHasNoBatch == \A c \in Callers : ~InPass(c) => batch[c] = <<>>
BatchDistinct ==
    \A c \in Callers : \A j, k \in 1 .. Len(batch[c]) :
        j # k => RecordIDOf(batch[c][j].env) # RecordIDOf(batch[c][k].env)
BatchDue ==
    \A c \in Callers : \A k \in 1 .. Len(batch[c]) :
        LET i == RecordIDOf(batch[c][k].env) IN
        files[i] # NoFile => DueWhenListed(c, i, batch[c][k].env)
SentIsOut ==
    \A c \in Callers : At(c, "sent") =>
        Current(c) \in received \/ Current(c) \in written

DispatchInv ==
    /\ TypeOK
    /\ OnePass
    /\ IdleHasNoBatch
    /\ BatchDistinct
    /\ BatchDue
    /\ SentIsOut
    /\ SoleResultAccounted

\* The same without the restriction to unshared record ids: a result leaves
\* its file by being replaced with a newer one, after it was sent, or by the
\* limits.
DeletedResultWasSent ==
    [][\A r \in Results :
         Pending(r) /\ ~Pending(r)' =>
            files'[RecordIDOf(r)] # NoFile \/ Settled(r)']_vars

\* How far that goes wrong.  A result that leaves the outbox neither sent nor
\* dropped shares its record id: Save puts a newer one in its place, or it was
\* itself saved over one that a pass had listed, and is deleted with that.
\* No error, cancellation, crash or other order of calls loses a result.
UnsentIsShared ==
    [][\A r \in Results :
         Pending(r) /\ ~Pending(r)' /\ ~Settled(r)' =>
            \/ \E q \in Saved' \ Saved : RecordIDOf(q) = RecordIDOf(r)
            \/ \E c \in Callers :
                 /\ At(c, "sent") /\ Current(c) \in received \cup written
                 /\ Current(c) # r /\ RecordIDOf(Current(c)) = RecordIDOf(r)
                 /\ r \notin listed[c].saved]_vars

\* Every result in the outbox leaves it in the end, whatever send and disk
\* failures, cancellations and crashes come first, if a transport can be
\* used (HTTP is enabled, or a WebSocket connection finally stays up) and the
\* clock is not set back for ever: a record put off by a clock that was ahead
\* waits until the clock is there again.
TransportUsable == PullEnabled \/ <>[]wsSender
ClockSettles == <>[][now <= now']_vars
OutboxDrains ==
    TransportUsable /\ ClockSettles => \A r \in Results : Pending(r) ~> ~Pending(r)

\* The dispatcher over the outbox implements the box of results, where every
\* result has a record id of its own and a command_id.
Box == INSTANCE ResultBox WITH
    box <- {r \in Results : Pending(r)},
    transmitted <- received \cup written,
    discarded <- dropped

\* Spec => Box!BoxSpec: no step of the dispatcher, of a sender or of a crash
\* removes a result that was neither transmitted nor discarded.
ImplementsBox == Box!BoxSpec
=============================================================================
