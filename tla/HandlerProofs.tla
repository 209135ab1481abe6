--------------------------- MODULE HandlerProofs ---------------------------
(***************************************************************************)
(* One execution per command_id, for every set of threads, deliveries and  *)
(* ids: each step of Handle keeps HandlerInv.  The modules that compose    *)
(* the Handler with a transport cite HandlerStepKeeps for their own steps. *)
(***************************************************************************)
EXTENDS Handler, TLAPS

HandlerInv == HandlerTypeOK /\ AdmittedReserved /\ OneExecution

\* Any step of any thread in Handle, or none.
HandlerStep ==
    \/ \E t \in Threads, d \in Deliveries : Call(t, d)
    \/ \E t \in Threads :
         Check(t) \/ Spawn(t) \/ SpawnFails(t) \/ Finish(t) \/ Leave(t)
    \/ UNCHANGED handlerVars

LEMMA HandlerStarts == HandlerInit => HandlerInv
  BY DEF HandlerInit, HandlerInv, HandlerTypeOK, AdmittedReserved, OneExecution,
         Admitted, HandleStages

\* The answer of Verdict is one of the codes, or the command may run; it may
\* run only if its id was valid and free.
LEMMA VerdictFacts ==
    ASSUME NEW d \in Deliveries, NEW ids
    PROVE  /\ Verdict(d, ids) \in HandlerCodes \cup {"run"}
           /\ Verdict(d, ids) = "run" => ValidID(d) /\ IDOf[d] \notin ids
  BY SMT DEF Verdict, ValidID, HandlerCodes

LEMMA TypeStep ==
    ASSUME HandlerTypeOK, HandlerStep
    PROVE  HandlerTypeOK'
  <1>1. ASSUME NEW t \in Threads, NEW d \in Deliveries, Call(t, d)
        PROVE  HandlerTypeOK'
    BY <1>1, NoDeliveryIsNone DEF Call, HandlerTypeOK, HandleStages
  <1>2. ASSUME NEW t \in Threads, Check(t)
        PROVE  HandlerTypeOK'
    <2>1. handling[t] \in Deliveries
      BY <1>2 DEF Check, HandlerTypeOK
    <2>2. Verdict(handling[t], reserved) \in HandlerCodes \cup {"run"}
      BY <2>1, VerdictFacts
    <2>3. reserved' \in SUBSET CommandIDs
      BY <1>2, <2>1, IDOfType DEF Check, HandlerTypeOK
    <2>4. outcome' \in [Threads -> HandlerCodes \cup RunStates \cup {"none"}]
      BY <1>2, <2>2 DEF Check, HandlerTypeOK
    <2>. QED
      BY <1>2, <2>3, <2>4 DEF Check, HandlerTypeOK, HandleStages
  <1>3. ASSUME NEW t \in Threads, Spawn(t)
        PROVE  HandlerTypeOK'
    <2>1. handling[t] \in Deliveries
      BY <1>3 DEF Spawn, HandlerTypeOK
    <2>. QED  BY <1>3, <2>1 DEF Spawn, HandlerTypeOK, HandleStages
  <1>4. ASSUME NEW t \in Threads, SpawnFails(t) \/ Finish(t)
        PROVE  HandlerTypeOK'
    BY <1>4 DEF SpawnFails, Finish, HandlerTypeOK, HandleStages, RunStates
  <1>5. ASSUME NEW t \in Threads, Leave(t)
        PROVE  HandlerTypeOK'
    BY <1>5 DEF Leave, HandlerTypeOK, HandleStages
  <1>6. CASE UNCHANGED handlerVars
    BY <1>6 DEF handlerVars, HandlerTypeOK
  <1>. QED
    BY <1>1, <1>2, <1>3, <1>4, <1>5, <1>6 DEF HandlerStep

\* A delivery gets into execution by Check only, and only with an id that
\* nothing in execution has.
LEMMA AdmittedStep ==
    ASSUME HandlerTypeOK, HandlerStep
    PROVE  /\ reserved \subseteq reserved'
           /\ \/ Admitted' \subseteq Admitted
              \/ \E d \in Deliveries :
                    /\ Admitted' \subseteq Admitted \cup {d}
                    /\ IDOf[d] \notin reserved /\ IDOf[d] \in reserved'
  <1>1. ASSUME NEW t \in Threads, NEW d \in Deliveries, Call(t, d)
        PROVE  Admitted' \subseteq Admitted /\ reserved' = reserved
    BY <1>1 DEF Call, HandlerTypeOK, Admitted
  <1>2. ASSUME NEW t \in Threads, Check(t)
        PROVE  /\ reserved \subseteq reserved'
               /\ \/ Admitted' \subseteq Admitted
                  \/ \E d \in Deliveries :
                        /\ Admitted' \subseteq Admitted \cup {d}
                        /\ IDOf[d] \notin reserved /\ IDOf[d] \in reserved'
    <2>1. handling[t] \in Deliveries
      BY <1>2 DEF Check, HandlerTypeOK
    <2>2. CASE Verdict(handling[t], reserved) = "run"
      <3>1. ValidID(handling[t]) /\ IDOf[handling[t]] \notin reserved
        BY <2>1, <2>2, VerdictFacts
      <3>2. reserved' = reserved \cup {IDOf[handling[t]]}
        BY <1>2, <3>1 DEF Check
      <3>3. Admitted' \subseteq Admitted \cup {handling[t]}
        BY <1>2 DEF Check, HandlerTypeOK, Admitted
      <3>. QED  BY <2>1, <3>1, <3>2, <3>3
    <2>3. CASE Verdict(handling[t], reserved) # "run"
      <3>1. Admitted' \subseteq Admitted
        BY <1>2, <2>3 DEF Check, HandlerTypeOK, Admitted
      <3>. QED  BY <1>2, <3>1 DEF Check
    <2>. QED  BY <2>2, <2>3
  <1>3. ASSUME NEW t \in Threads, Spawn(t)
        PROVE  Admitted' \subseteq Admitted /\ reserved' = reserved
    BY <1>3 DEF Spawn, HandlerTypeOK, Admitted
  <1>4. ASSUME NEW t \in Threads, SpawnFails(t) \/ Finish(t) \/ Leave(t)
        PROVE  Admitted' \subseteq Admitted /\ reserved' = reserved
    BY <1>4 DEF SpawnFails, Finish, Leave, HandlerTypeOK, Admitted
  <1>5. CASE UNCHANGED handlerVars
    BY <1>5 DEF handlerVars, Admitted
  <1>. QED
    BY <1>1, <1>2, <1>3, <1>4, <1>5 DEF HandlerStep

\* Every step of Handle keeps the invariant.
LEMMA HandlerStepKeeps ==
    ASSUME HandlerInv, HandlerStep
    PROVE  HandlerInv'
  <1>1. HandlerTypeOK'
    BY TypeStep DEF HandlerInv
  <1>2. /\ reserved \subseteq reserved'
        /\ \/ Admitted' \subseteq Admitted
           \/ \E d \in Deliveries :
                 /\ Admitted' \subseteq Admitted \cup {d}
                 /\ IDOf[d] \notin reserved /\ IDOf[d] \in reserved'
    BY AdmittedStep DEF HandlerInv
  <1>3. AdmittedReserved'
    BY <1>2 DEF HandlerInv, AdmittedReserved
  <1>4. OneExecution'
    BY <1>2 DEF HandlerInv, AdmittedReserved, OneExecution
  <1>. QED  BY <1>1, <1>3, <1>4 DEF HandlerInv
=============================================================================
