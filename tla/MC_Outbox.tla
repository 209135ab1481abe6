----------------------------- MODULE MC_Outbox -----------------------------
(* Model checking Outbox: five results for four commands.  Two answer the  *)
(* same command and so share a record file, one answers a command without  *)
(* an id, and the limits make the others compete for the directory.        *)
EXTENDS Outbox, TLC

CONSTANTS r1, r2, r3, r4, r5, cmdA, cmdB, cmdC, empty, fileA, fileB, fileC,
          unknown

MCCommandOf == r1 :> cmdA @@ r2 :> cmdA @@ r3 :> cmdB @@ r4 :> cmdC @@ r5 :> empty
MCSanitizedID ==
    cmdA :> fileA @@ cmdB :> fileB @@ cmdC :> fileC @@ empty :> unknown
MCBytes == r1 :> 1 @@ r2 :> 3 @@ r3 :> 2 @@ r4 :> 2 @@ r5 :> 1
=============================================================================
