---------------------------- MODULE MC_WSClient ----------------------------
(* Model checking WSClient: deliveries d1 and d2 repeat one command_id, d3 *)
(* is another command, d4 is for another device, d5 has no valid payload.  *)
(* Where MCFlawed is used, the arguments of d1 are not valid.              *)
EXTENDS WSClient, TLC

CONSTANTS d1, d2, d3, d4, d5, cmdA, cmdB

MCThreads == {<<k, n>> : k \in Conns, n \in 1 .. MaxParallelJobs}
MCConnOf == [t \in Threads |-> t[1]]
MCIDOf == [d \in Deliveries |-> IF d \in {d1, d2} THEN cmdA ELSE cmdB]
MCFlaws == [d \in Deliveries |-> {}]
MCFlawed == [d \in Deliveries |-> IF d = d1 THEN {"invalid_args"} ELSE {}]
MCEnvelope ==
    [d \in Deliveries |-> CASE d = d4 -> "device_mismatch"
                            [] d = d5 -> "invalid_payload"
                            [] OTHER -> "ok"]
=============================================================================
