------------------------------- MODULE IDSet -------------------------------
(***************************************************************************)
(* What the Handler takes the de-duplication store for: a set of ids to    *)
(* which Reserve and Mark add and which nothing leaves.                    *)
(***************************************************************************)
CONSTANT CommandIDs

VARIABLES
    ids,     \* the ids the store has been given
    reply    \* the answer of the last operation

setVars == <<ids, reply>>

None == [op |-> "none"]

\* The id is granted once, to whoever asks first.
SetReserve(id) ==
    /\ reply' = [op |-> "Reserve", id |-> id, ok |-> id \notin ids]
    /\ ids' = ids \cup {id}

SetMark(id) == reply' = None /\ ids' = ids \cup {id}

SetSeen(id) ==
    /\ reply' = [op |-> "Seen", id |-> id, ok |-> id \in ids]
    /\ UNCHANGED ids

\* Time passes, or the store is pruned: nothing one could notice.
SetQuiet == reply' = None /\ UNCHANGED ids

SetInit == ids = {} /\ reply = None

SetNext ==
    \/ \E id \in CommandIDs : SetReserve(id) \/ SetMark(id) \/ SetSeen(id)
    \/ SetQuiet

SetSpec == SetInit /\ [][SetNext]_setVars
=============================================================================
