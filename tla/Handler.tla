------------------------------ MODULE Handler ------------------------------
(***************************************************************************)
(* commands.Handler, the only way from a transport to the runner, and      *)
(* runner.Run.  Any number of threads (WebSocket workers, the Pull loop)   *)
(* call Handle at the same time; they share the de-duplication store.      *)
(*                                                                         *)
(* A delivery is one arrival of a command.  Deliveries with the same       *)
(* command_id are repetitions.  What Handle tells apart in a command is    *)
(* the set of checks it would not pass; everything else is left out.       *)
(*                                                                         *)
(* The store is the set of ids it was given: within its TTL and capacity   *)
(* the store of module Dedupe implements such a set, module IDSet.         *)
(***************************************************************************)
EXTENDS Naturals, FiniteSets

CONSTANTS
    Threads,       \* goroutines that call Handle
    Deliveries,    \* arrivals of commands
    CommandIDs,
    IDOf,          \* the command_id of a delivery
    Flaws          \* the checks of Handle a delivery would not pass

HandlerCodes == {"invalid_command_id", "duplicate_command", "unknown_action",
                 "action_not_allowed", "invalid_args", "timeout_exceeded"}

NoDelivery == "no delivery"

ASSUME NoDeliveryIsNone == NoDelivery \notin Deliveries
ASSUME IDOfType == IDOf \in [Deliveries -> CommandIDs]
ASSUME FlawsType ==
    Flaws \in [Deliveries -> SUBSET (HandlerCodes \ {"duplicate_command"})]

VARIABLES
    stage,      \* where each thread is in Handle
    handling,   \* the delivery it handles, NoDelivery when it handles none
    outcome,    \* the state or error code of the result it will return
    reserved,   \* ids in the de-duplication store
    spawned     \* history: deliveries whose mgate process was started

handlerVars == <<stage, handling, outcome, reserved, spawned>>

\* What the runner returns.  A process that ended (succeeded, failed or timed
\* out) is told apart from one that never started (failed, exit code -1).
RunStates == {"ended", "not_started"}

\* idle       not in Handle
\* received   Handle was called
\* start      every check passed, the runner is called
\* running    the process runs
\* returned   Handle has returned outcome
HandleStages == {"idle", "received", "start", "running", "returned"}

-----------------------------------------------------------------------------
\* The answer of Handle's checks, in the order of the code.  Reserve comes
\* second, so that a command which fails a later check keeps its id reserved.
Verdict(d, ids) ==
    IF "invalid_command_id" \in Flaws[d] THEN "invalid_command_id"
    ELSE IF IDOf[d] \in ids THEN "duplicate_command"
    ELSE IF "unknown_action" \in Flaws[d] THEN "unknown_action"
    ELSE IF "action_not_allowed" \in Flaws[d] THEN "action_not_allowed"
    ELSE IF "invalid_args" \in Flaws[d] THEN "invalid_args"
    ELSE IF "timeout_exceeded" \in Flaws[d] THEN "timeout_exceeded"
    ELSE "run"

\* validateCommandID: an id that does not match never reaches Reserve.
ValidID(d) == "invalid_command_id" \notin Flaws[d]

\* Mutant: the id is marked on arrival, before Reserve looks at it.
CallAndMark(t, d) ==
    /\ stage[t] = "idle"
    /\ stage' = [stage EXCEPT ![t] = "received"]
    /\ handling' = [handling EXCEPT ![t] = d]
    /\ reserved' = reserved \cup {IDOf[d]}
    /\ UNCHANGED <<outcome, spawned>>

Call(t, d) ==
    /\ stage[t] = "idle"
    /\ stage' = [stage EXCEPT ![t] = "received"]
    /\ handling' = [handling EXCEPT ![t] = d]
    /\ UNCHANGED <<outcome, reserved, spawned>>

\* Mutant: Seen in place of Reserve, nobody marks the id.
CheckSeen(t) ==
    LET v == Verdict(handling[t], reserved)
    IN  /\ stage[t] = "received"
        /\ stage' = [stage EXCEPT ![t] = IF v = "run" THEN "start" ELSE "returned"]
        /\ outcome' = [outcome EXCEPT ![t] = IF v = "run" THEN @ ELSE v]
        /\ UNCHANGED <<handling, reserved, spawned>>

\* The checks.  Only Reserve touches shared state, under the store's mutex.
Check(t) ==
    LET d == handling[t]
        v == Verdict(d, reserved)
    IN  /\ stage[t] = "received"
        /\ reserved' = IF ValidID(d) THEN reserved \cup {IDOf[d]} ELSE reserved
        /\ stage' = [stage EXCEPT ![t] = IF v = "run" THEN "start" ELSE "returned"]
        /\ outcome' = [outcome EXCEPT ![t] = IF v = "run" THEN @ ELSE v]
        /\ UNCHANGED <<handling, spawned>>

\* runner.Run with a live context starts the process.
Spawn(t) ==
    /\ stage[t] = "start"
    /\ stage' = [stage EXCEPT ![t] = "running"]
    /\ spawned' = spawned \cup {handling[t]}
    /\ UNCHANGED <<handling, outcome, reserved>>

\* There is no process: the action's argv cannot be built, the context is
\* over already, or the binary cannot be started.
SpawnFails(t) ==
    /\ stage[t] = "start"
    /\ stage' = [stage EXCEPT ![t] = "returned"]
    /\ outcome' = [outcome EXCEPT ![t] = "not_started"]
    /\ UNCHANGED <<handling, reserved, spawned>>

\* The process ends: by itself, by its timeout, or killed with its context.
Finish(t) ==
    /\ stage[t] = "running"
    /\ stage' = [stage EXCEPT ![t] = "returned"]
    /\ outcome' = [outcome EXCEPT ![t] = "ended"]
    /\ UNCHANGED <<handling, reserved, spawned>>

\* The caller takes the result and leaves.
Leave(t) ==
    /\ stage[t] = "returned"
    /\ stage' = [stage EXCEPT ![t] = "idle"]
    /\ handling' = [handling EXCEPT ![t] = NoDelivery]
    /\ outcome' = [outcome EXCEPT ![t] = "none"]
    /\ UNCHANGED <<reserved, spawned>>

HandlerInit ==
    /\ stage = [t \in Threads |-> "idle"]
    /\ handling = [t \in Threads |-> NoDelivery]
    /\ outcome = [t \in Threads |-> "none"]
    /\ reserved = {}
    /\ spawned = {}

-----------------------------------------------------------------------------
(* Properties that hold however the threads are scheduled.                 *)

\* Each variable has its type; a thread handles a delivery while it is in
\* Handle, and only then.
HandlerTypeOK ==
    /\ stage \in [Threads -> HandleStages]
    /\ handling \in [Threads -> Deliveries \cup {NoDelivery}]
    /\ outcome \in [Threads -> HandlerCodes \cup RunStates \cup {"none"}]
    /\ reserved \in SUBSET CommandIDs
    /\ spawned \in SUBSET Deliveries
    /\ \A t \in Threads : stage[t] = "idle" <=> handling[t] = NoDelivery

\* The deliveries that got through every check and into the runner.
Admitted == spawned \cup {handling[t] : t \in {u \in Threads : stage[u] = "start"}}

\* docs/security.md:76: of the deliveries of one command_id only one enters
\* execution, whichever threads of whichever transports handle them.
OneExecution == \A d, e \in Admitted : IDOf[d] = IDOf[e] => d = e

\* What makes it inductive: whatever entered execution is reserved.
AdmittedReserved == \A d \in Admitted : IDOf[d] \in reserved
=============================================================================
