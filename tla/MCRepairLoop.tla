---------------------------- MODULE MCRepairLoop ----------------------------
(* Values of RepairLoop's constants for TLC. *)
EXTENDS RepairLoop, TLC

CONSTANTS t1, t2  \* the ids of two tasks

(* A playbook that repeats itself and lacks the final ABORT, as a          *)
(* configuration file may have it, and one that names no known strategy.   *)
OddOverrides ==
  "TOOL_ERROR" :> <<"CHANGE_BACKEND", "RETRY", "CHANGE_BACKEND">> @@ "TIMEOUT" :> <<>>
=============================================================================
