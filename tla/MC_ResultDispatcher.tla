------------------------ MODULE MC_ResultDispatcher ------------------------
(* Model checking ResultDispatcher: two results that answer the same       *)
(* command, one that answers another, one without a command_id.            *)
EXTENDS ResultDispatcher, TLC

CONSTANTS r1, r2, r3, r4, cmdA, cmdB, empty, fileA, fileB, unknown

MCCommandOf ==
    [r \in Results |-> CASE r \in {r1, r2} -> cmdA [] r = r3 -> cmdB
                         [] r = r4 -> empty]
MCSanitizedID == cmdA :> fileA @@ cmdB :> fileB @@ empty :> unknown
MCBytes == [r \in Results |-> 1]

\* The two results for one command can be exchanged.
Alike == Permutations({r1, r2})

\* What the histories tell beyond the properties checked here: the clock's
\* readings (module Outbox is checked with them), and whether a result was
\* written to a WebSocket or received by the cloud.  No step reads them.
Relevant == <<files, now, Saved, dropped, passVars, netVars, written \cup received>>
=============================================================================
