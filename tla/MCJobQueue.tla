----------------------------- MODULE MCJobQueue -----------------------------
(* Values of JobQueue's constants for TLC: two daemons on one queue, and a *)
(* client whose kernel has a planner and an evaluator of its own.          *)
EXTENDS JobQueue, TLC

CONSTANTS d1, d2, c1

TwoDaemonsOrOneClient == {{d1, d2}, {c1}}

MCGoals == ({d1, d2} \X Requests) \cup (Clients \X Direct)
MCKernelOf == [g \in MCGoals |-> g[1]]

(* The first request hangs wherever it runs.                               *)
FirstHangs == {<<d1, 1>>, <<d2, 1>>} \cap MCGoals

(* One daemon and one request.                                             *)
OneDaemon == {{d1}}
OneGoal == {d1} \X Requests
OneKernelOf == [g \in OneGoal |-> d1]
=============================================================================
