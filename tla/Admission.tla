------------------------------ MODULE Admission ------------------------------
(***************************************************************************)
(* From a request to an admitted task graph: the planner (Planner) makes a *)
(* plan, with or without a model's help, DAGEngine.execute validates it    *)
(* (ValidateGraph, unchanged), and a task that failed may be replaced by   *)
(* two pieces, after which add_tasks validates the graph once more.  A     *)
(* graph may also come from the rows of a store, in which anything can     *)
(* stand.                                                                  *)
(***************************************************************************)
EXTENDS ValidateGraph, Planner

CONSTANTS
  Rows,        \* the ids a stored graph may have
  Catalogue,   \* the intents a request may match
  Replies,     \* the lists of entries a model may answer with
  Limits,      \* the planner's max_tasks
  EntryIds,    \* the ids of the tasks of a model's plan, in order
  PieceIds     \* the ids of the two pieces of each replan, in order

AllPieces == {PieceIds[n][i] : n \in DOMAIN PieceIds, i \in 1 .. 2}

(* Ids are made anew for every task, and every id is known.                 *)
ASSUME AdmissionAssumption ==
  /\ Limits \subseteq Nat /\ Rows \subseteq Ids
  /\ Catalogued \cup {"respond"} \subseteq Ids
  /\ PieceIds \in Seq(Ids \X Ids)
  /\ \A m, n \in DOMAIN PieceIds : \A i, j \in 1 .. 2 :
       PieceIds[m][i] = PieceIds[n][j] => m = n /\ i = j
  /\ AllPieces \cap (Rows \cup Catalogued \cup {"respond"}) = {}
  /\ \A list \in Replies : /\ Len(list) \in Nat
                           /\ \A k \in 1 .. Len(list) : EntryIds[k] \in Ids \ AllPieces

VARIABLES
  origin,      \* where the graph comes from
  reply,       \* the entries of the model's reply, until validation begins
  limit,       \* max_tasks of the planner in use
  replaced     \* the tasks that were replanned

admVars == <<vars, origin, reply, limit, replaced>>

Name(k) == EntryIds[k]

(* A search begins afresh on every call of validate_graph.                  *)
Submit(plan) ==
  /\ nodes' = plan.nodes /\ deps' = plan.deps
  /\ state' = [t \in plan.nodes |-> 0] /\ path' = <<>>
  /\ left' = plan.deps /\ roots' = plan.nodes
  /\ verdict' = "checking"

AdmInit ==
  /\ \/ /\ origin = "rows" /\ nodes \in SUBSET Rows
        /\ deps \in [nodes -> SUBSET Rows] /\ verdict = "checking"
     \/ /\ origin \in {"heuristic", "llm"} /\ nodes = {} /\ deps = <<>>
        /\ verdict = "planning"
  /\ state = [t \in nodes |-> 0] /\ path = <<>> /\ left = deps /\ roots = nodes
  /\ reply = <<>> /\ limit \in Limits /\ replaced = {}

(* The text of the request is abstracted to what is read from it here.      *)
PlanByRules ==
  /\ \E matched \in SUBSET Catalogue, question \in BOOLEAN :
       Submit(HeuristicPlan(matched, question, limit))
  /\ UNCHANGED <<reply, limit, replaced>>

Plan ==
  /\ verdict = "planning" /\ origin = "heuristic"
  /\ PlanByRules /\ UNCHANGED origin

(* An empty request raises before anything else.                            *)
EmptyRequest ==
  /\ verdict = "planning" /\ verdict' = "raised"
  /\ UNCHANGED <<nodes, deps, state, path, left, roots, origin, reply, limit,
                 replaced>>

LLMPlan ==
  /\ verdict = "planning" /\ origin = "llm"
  /\ \E entries \in Replies :
       LET plan == Parse(entries, limit, EntryIds)
       IN plan.ok /\ Submit(plan) /\ reply' = entries
  /\ UNCHANGED <<origin, limit, replaced>>

(* A provider that fails, or a reply of which no plan can be made.          *)
LLMFallsBack ==
  /\ verdict = "planning" /\ origin = "llm"
  /\ PlanByRules /\ origin' = "heuristic"

(* The reply is forgotten when the parser has returned.                     *)
Validate ==
  /\ Step /\ reply' = <<>>
  /\ UNCHANGED <<origin, limit, replaced>>

(* A REPLAN: the pieces join the graph, and what waited for the task waits  *)
(* for the last piece instead.  The task itself is completed by it.         *)
Replan(t) ==
  LET n      == Cardinality(replaced) + 1
      first  == PieceIds[n][1]
      second == PieceIds[n][2]
      split  == Pieces(IF t \in AllPieces THEN 1 ELSE 0, deps[t], first, second)
      Rewired(u) == IF t \in deps[u] THEN (deps[u] \ {t}) \cup {second} ELSE deps[u]
  IN /\ verdict = "accepted" /\ t \notin replaced /\ n \in DOMAIN PieceIds
     /\ split.ok
     /\ Submit([nodes |-> nodes \cup split.nodes,
                deps  |-> [u \in nodes \cup split.nodes |->
                             IF u \in nodes THEN Rewired(u) ELSE split.deps[u]]])
     /\ replaced' = replaced \cup {t}
     /\ UNCHANGED <<origin, reply, limit>>

AdmNext ==
  \/ Plan \/ EmptyRequest \/ LLMPlan \/ LLMFallsBack \/ Validate
  \/ \E t \in nodes : Replan(t)

(* validate_graph runs without a pause.                                     *)
AdmFairness == WF_admVars(Validate)

-----------------------------------------------------------------------------
(***************************************************************************)
(* What the planner hands over can be run: a plan made by the rules is     *)
(* always accepted, and its report waits, directly or not, for every other *)
(* task, although each task only waits for the stage before its own; a     *)
(* plan made by a model never refers to a task that does not exist; and    *)
(* splitting a failed task leaves an accepted graph acceptable.            *)
(***************************************************************************)
PlanUsable ==
  /\ origin \in {"heuristic", "llm"} \/ replaced # {} => verdict # "unknown"
  /\ origin = "heuristic" \/ replaced # {} => verdict # "cycle"
  /\ origin = "heuristic" /\ verdict = "accepted" /\ replaced = {} /\ Finalizer \in nodes =>
       \A t \in nodes \ {Finalizer} : Finalizer \in Downstream(nodes, deps, t)

(* Each task of a model's plan depends on the tasks its own entry names.    *)
DependenciesAsWritten ==
  origin = "llm" /\ reply # <<>> /\ replaced = {} =>
    \A k \in Kept(reply, limit) :
      deps[Name(k)] = {Name(d) : d \in Written(reply, limit, k)}

(* Every validation comes to an end, the one after a replan included, on    *)
(* every graph, those with circles included.                                *)
AdmissionEnds ==
  verdict = "checking" ~> verdict \in {"unknown", "cycle", "accepted"}
=============================================================================
