----------------------------- MODULE MC_Device -----------------------------
(* Model checking Device: two results of one command share a record file,  *)
(* three more have files of their own, so that a power failure can leave   *)
(* more records than one above the limit.                                  *)
EXTENDS Device, TLC

CONSTANTS r1, r2, r3, r4, r5, cmdA, empty

MCCommandOf == [r \in Results |-> IF r \in {r1, r2} THEN cmdA ELSE r]
MCSanitizedID == [c \in CommandIDs |-> IF c = empty THEN cmdA ELSE c]
MCBytes == [r \in Results |-> 1]

\* The two results of cmdA are alike, and so are those with their own files.
Alike == Permutations({r1, r2}) \cup Permutations({r3, r4, r5})
=============================================================================
