---------------------------- MODULE DagRefinement ----------------------------
(* DagEngine implements TaskGraph: the engine's statuses are the states of *)
(* the abstract nodes, its dependencies what they need.                    *)
EXTENDS DagEngine

NodeOf(st) ==
  CASE st = "queued"    -> "pending"
    [] st = "running"   -> "started"
    [] st = "completed" -> "done"
    [] st = "cancelled" -> "dropped"
    [] OTHER            -> st

Contract == INSTANCE TaskGraph
  WITH Ids  <- Tasks,
       node <- [t \in Tasks |-> NodeOf(status[t])],
       need <- deps,
       last <- finalizers

(* Every run keeps the promises of TaskGraph. *)
ImplementsTaskGraph == Contract!Spec
=============================================================================
