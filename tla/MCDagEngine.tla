----------------------------- MODULE MCDagEngine -----------------------------
(* Values of DagEngine's constants for TLC. *)
EXTENDS DagRefinement, Sequences, TLC

CONSTANTS a, b, c, d, e

Three == <<a, b, c>>
Four  == <<a, b, c, d>>

(* Every way for each task of a sequence to depend on earlier ones. *)
OrderedDags(seq) ==
  LET at(t) == CHOOSE i \in DOMAIN seq : seq[i] = t
      ids == {seq[i] : i \in DOMAIN seq}
  IN  {g \in [ids -> SUBSET ids] : \A t \in ids : \A u \in g[t] : at(u) < at(t)}

PlanOf(ids, g, fin, urgent) ==
  [nodes |-> ids,
   deps |-> [t \in Tasks |-> IF t \in ids THEN g[t] ELSE {}],
   finalizers |-> fin,
   prio |-> [t \in Tasks |-> IF t \in urgent THEN 2 ELSE 1]]

(* What validate_graph must turn away: no task, a dependency nobody        *)
(* provides, a circle of two, a circle behind a valid task.                *)
InvalidPlans ==
  {PlanOf({}, <<>>, {}, {}),
   PlanOf({a, b}, a :> {} @@ b :> {d}, {}, {}),
   PlanOf({a, b}, a :> {b} @@ b :> {a}, {}, {}),
   PlanOf({a, b, c}, a :> {} @@ b :> {a, c} @@ c :> {b}, {}, {})}

(* All graphs of three tasks, any of them a finalizer, the last urgent. *)
PlansOfThree ==
  {PlanOf({a, b, c}, g, fin, {c}) : g \in OrderedDags(Three), fin \in SUBSET {b, c}}
    \cup InvalidPlans

(* All graphs of four tasks in which only the last may be a finalizer. *)
PlansOfFour ==
  {PlanOf({a, b, c, d}, g, fin, {}) : g \in OrderedDags(Four), fin \in SUBSET {d}}

(* Both, with five ids: three tasks leave two over, so that REPLAN can     *)
(* split one of them, while four tasks leave one over, and it cannot.      *)
SmallGraphs == PlansOfThree \cup PlansOfFour
=============================================================================
