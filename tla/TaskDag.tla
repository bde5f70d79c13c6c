------------------------------- MODULE TaskDag -------------------------------
(***************************************************************************)
(* Task graphs, as validate_graph and DAGRun of                            *)
(* airvis/orchestration/dag.py see them: a set of task ids and, for every  *)
(* id, the set of ids it depends on.  A graph may still be wrong (depend   *)
(* on an id it does not contain, or go round in a circle); these operators *)
(* say when it is.                                                         *)
(***************************************************************************)

(* DAGRun.dependents_of *)
DependentsOf(nodes, deps, t) == {d \in nodes : t \in deps[d]}

(* What the first loop of validate_graph rejects. *)
UnknownDependency(nodes, deps) == \E t \in nodes : ~(deps[t] \subseteq nodes)

(***************************************************************************)
(* What its depth-first search accepts, without the search: every nonempty *)
(* set of tasks has one that depends on none of the others.  ValidateGraph *)
(* models the search itself and shows that it decides exactly this.        *)
(***************************************************************************)
Acyclic(nodes, deps) ==
  \A S \in SUBSET nodes : S # {} => \E t \in S : deps[t] \cap S = {}

(* validate_graph returns normally. *)
ValidGraph(nodes, deps) ==
  /\ ~UnknownDependency(nodes, deps)
  /\ Acyclic(nodes, deps)

(***************************************************************************)
(* Everything reachable downwards from  failed  through tasks of           *)
(*  eligible  only: the least set that contains each eligible task whose   *)
(* dependencies meet  failed  or the set.                                  *)
(***************************************************************************)
DownstreamClosed(S, eligible, deps, failed) ==
  \A t \in eligible : deps[t] \cap (S \cup {failed}) # {} => t \in S

Downstream(eligible, deps, failed) ==
  {t \in eligible : \A S \in SUBSET eligible :
                       DownstreamClosed(S, eligible, deps, failed) => t \in S}
=============================================================================
