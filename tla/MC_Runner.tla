----------------------------- MODULE MC_Runner -----------------------------
(* Model checking Runner on 4-bit words with three units to the second:    *)
(* three seconds and more wrap around, as 9.3 * 10^9 seconds do in the     *)
(* code, six of them to a small positive duration.                         *)
EXTENDS Runner
=============================================================================
