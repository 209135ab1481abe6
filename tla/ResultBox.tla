----------------------------- MODULE ResultBox -----------------------------
(***************************************************************************)
(* What the outbox and its dispatcher promise together: a box of results   *)
(* in which each accepted result stays until it was transmitted, unless    *)
(* the limits discard it.  Transmission is at least once: a result may be  *)
(* transmitted again while it is still in the box, and even after it was   *)
(* discarded, by a send that was under way.                                *)
(***************************************************************************)
CONSTANT Results

VARIABLES
    box,           \* the results that are kept
    transmitted,   \* the results handed to a transport at least once
    discarded      \* the results the limits removed

boxVars == <<box, transmitted, discarded>>

Accepted == box \cup transmitted \cup discarded

\* Accepting a result may discard any of the results then in the box.
Accept(r, out) ==
    /\ r \notin Accepted
    /\ out \subseteq box \cup {r}
    /\ box' = (box \cup {r}) \ out
    /\ discarded' = discarded \cup out
    /\ UNCHANGED transmitted

Transmit(r) ==
    /\ r \in box \cup discarded
    /\ transmitted' = transmitted \cup {r}
    /\ UNCHANGED <<box, discarded>>

Remove(r) ==
    /\ r \in box \cap transmitted
    /\ box' = box \ {r}
    /\ UNCHANGED <<transmitted, discarded>>

BoxInit == box = {} /\ transmitted = {} /\ discarded = {}

BoxNext ==
    \E r \in Results :
        (\E out \in SUBSET Results : Accept(r, out)) \/ Transmit(r) \/ Remove(r)

BoxSpec == BoxInit /\ [][BoxNext]_boxVars
=============================================================================
