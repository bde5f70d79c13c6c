---------------------------- MODULE MCWorkflowRun ----------------------------
(* Values of WorkflowRun's constants for TLC. *)
EXTENDS WorkflowRun, TLC

CONSTANTS a, b, c, d, s1, s2

PlanOf(ids, g, fin) ==
  [nodes |-> ids,
   deps |-> [t \in Tasks |-> IF t \in ids THEN g[t] ELSE {}],
   finalizers |-> fin,
   prio |-> [t \in Tasks |-> 1]]

(* Two tasks in parallel and one that needs both; a chain with a report at *)
(* its end; and a graph with a circle.                                     *)
Join   == PlanOf({a, b, c}, a :> {} @@ b :> {} @@ c :> {a, b}, {})
Chain  == PlanOf({a, b, c}, a :> {} @@ b :> {a} @@ c :> {b}, {c})
Circle == PlanOf({a, b}, a :> {b} @@ b :> {a}, {})

SmallPlans == {Join, Chain, Circle}

(* Two chained tasks, of which the first may be replanned. *)
Pair == {PlanOf({a, b}, a :> {} @@ b :> {a}, {})}

(* Join alone, for the interplay of replanning and cancelled dependents. *)
JoinOnly == {Join}

SpareIds == Permutations({s1, s2})
=============================================================================
