----------------------------- MODULE MC_Manager -----------------------------
(* Model checking Manager: one WebSocket worker next to the Pull loop.     *)
(* Deliveries d1 and d2 repeat one command_id, d3 is another command and   *)
(* d4 is for another device and d5 is no command at all.                   *)
EXTENDS Manager

CONSTANTS d1, d2, d3, d4, d5, cmdA, cmdB

MCIDOf == [d \in Deliveries |-> IF d \in {d1, d2} THEN cmdA ELSE cmdB]
MCFlaws == [d \in Deliveries |-> {}]
MCEnvelope ==
    [d \in Deliveries |-> CASE d = d4 -> "device_mismatch"
                            [] d = d5 -> "invalid_payload"
                            [] OTHER -> "ok"]
=============================================================================
