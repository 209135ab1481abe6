----------------------------- MODULE MC_Dedupe -----------------------------
(* Model checking Dedupe: more ids than entries, a clock that can pass the  *)
(* TTL and step back again.                                                 *)
EXTENDS Dedupe, TLC

Symmetry == Permutations(CommandIDs)
=============================================================================
