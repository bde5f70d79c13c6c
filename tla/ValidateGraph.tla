---------------------------- MODULE ValidateGraph ----------------------------
(***************************************************************************)
(* validate_graph of airvis/orchestration/dag.py: the check for unknown    *)
(* dependencies, then a depth-first search that paints tasks white (0),    *)
(* grey (1, on the current path) and black (2, explored).  One action per  *)
(* call of visit, per return from it and per exception.  The order in      *)
(* which tasks and dependencies are listed is any order.                   *)
(***************************************************************************)
EXTENDS TaskDag, Sequences, Naturals

CONSTANT Ids   \* every id a task or a dependency may have

VARIABLES
  nodes, deps,  \* the catalogue; never changed
  state,        \* the colours
  path,         \* the tasks whose visit is in progress, outermost first
  left,         \* for each of them, the dependencies its loop has yet to visit
  roots,        \* the tasks the outer loop has yet to visit
  verdict       \* "checking", "searching", or how validate_graph ended

vars == <<nodes, deps, state, path, left, roots, verdict>>

Top == path[Len(path)]

Init ==
  /\ nodes \in SUBSET Ids
  /\ deps \in [nodes -> SUBSET Ids]
  /\ state = [t \in nodes |-> 0]
  /\ path = <<>>
  /\ left = [t \in nodes |-> deps[t]]
  /\ roots = nodes
  /\ verdict = "checking"

(* The first loop: DAGError, or on to the search. *)
CheckKnown ==
  /\ verdict = "checking"
  /\ verdict' = IF UnknownDependency(nodes, deps) THEN "unknown" ELSE "searching"
  /\ UNCHANGED <<nodes, deps, state, path, left, roots>>

(* A mutant, like those below: DecidesValidity, "state[t] >= 1: return".   *)
VisitTolerant(t) ==
  IF state[t] = 0 THEN state' = [state EXCEPT ![t] = 1] /\ path' = Append(path, t) /\ UNCHANGED verdict
                  ELSE UNCHANGED <<state, path, verdict>>

(* visit(t) up to its first recursive call: a black task returns at once,  *)
(* a grey one raises DAGCycleError, a white one joins the path.            *)
Visit(t) ==
  \/ /\ state[t] = 1
     /\ verdict' = "cycle"
     /\ UNCHANGED <<state, path>>
  \/ /\ state[t] = 2
     /\ UNCHANGED <<state, path, verdict>>
  \/ /\ state[t] = 0
     /\ state' = [state EXCEPT ![t] = 1]
     /\ path' = Append(path, t)
     /\ UNCHANGED verdict

VisitRoot(t) ==
  /\ verdict = "searching"
  /\ path = <<>>
  /\ t \in roots
  /\ roots' = roots \ {t}
  /\ Visit(t)
  /\ UNCHANGED <<nodes, deps, left>>

(* SearchEnds: the loop over the dependencies does not advance. *)
VisitDependencyAgain(t) ==
  /\ verdict = "searching"
  /\ path # <<>>
  /\ t \in left[Top]
  /\ Visit(t)
  /\ UNCHANGED <<nodes, deps, left, roots>>

VisitDependency(t) ==
  /\ verdict = "searching"
  /\ path # <<>>
  /\ t \in left[Top]
  /\ left' = [left EXCEPT ![Top] = @ \ {t}]
  /\ Visit(t)
  /\ UNCHANGED <<nodes, deps, roots>>

Return ==
  /\ verdict = "searching"
  /\ path # <<>>
  /\ left[Top] = {}
  /\ state' = [state EXCEPT ![Top] = 2]
  /\ path' = SubSeq(path, 1, Len(path) - 1)
  /\ UNCHANGED <<nodes, deps, left, roots, verdict>>

Accept ==
  /\ verdict = "searching"
  /\ path = <<>>
  /\ roots = {}
  /\ verdict' = "accepted"
  /\ UNCHANGED <<nodes, deps, state, path, left, roots>>

Decided == verdict \in {"unknown", "cycle", "accepted"} /\ UNCHANGED vars

Step ==
  \/ CheckKnown
  \/ \E t \in nodes : VisitRoot(t)
  \/ \E t \in nodes : VisitDependency(t)
  \/ Return
  \/ Accept

Next == Step \/ Decided

Spec == Init /\ [][Next]_vars /\ WF_vars(Step)
-----------------------------------------------------------------------------
TypeOK ==
  /\ nodes \subseteq Ids
  /\ deps \in [nodes -> SUBSET Ids]
  /\ state \in [nodes -> 0..2]
  /\ path \in Seq(nodes)
  /\ left \in [nodes -> SUBSET Ids]
  /\ roots \subseteq nodes
  /\ verdict \in {"checking", "searching", "unknown", "cycle", "accepted"}

Black == {t \in nodes : state[t] = 2}

(* The grey tasks are those of the path, each a dependency of the one      *)
(* before it, and what has left a loop is black or next on the path.       *)
PathOK ==
  /\ \A i \in DOMAIN path : state[path[i]] = 1
  /\ \A i, j \in DOMAIN path : path[i] = path[j] => i = j
  /\ \A t \in nodes : state[t] = 1 => \E i \in DOMAIN path : path[i] = t
  /\ \A i \in DOMAIN path : i + 1 \in DOMAIN path => path[i + 1] \in deps[path[i]]
  /\ \A i \in DOMAIN path : \A d \in deps[path[i]] \ left[path[i]] :
        \/ d \in Black
        \/ i + 1 \in DOMAIN path /\ d = path[i + 1]

(* What is explored is closed under dependencies and free of circles. *)
BlackOK ==
  /\ \A t \in Black : deps[t] \subseteq Black
  /\ Acyclic(Black, deps)

SearchInv ==
  /\ TypeOK
  /\ verdict # "checking" /\ verdict # "unknown" => ~UnknownDependency(nodes, deps)
  /\ \A t \in nodes : state[t] = 0 => left[t] = deps[t]
  /\ \A t \in nodes : left[t] \subseteq deps[t]
  /\ nodes \subseteq roots \cup {t \in nodes : state[t] # 0}
  /\ verdict # "cycle" => PathOK
  /\ BlackOK
  /\ verdict = "cycle" => ~Acyclic(nodes, deps)
  /\ verdict = "unknown" => UnknownDependency(nodes, deps)
  /\ verdict = "accepted" => path = <<>> /\ roots = {}

(***************************************************************************)
(* validate_graph decides exactly what its docstring says ("raise on       *)
(* unknown dependencies or cycles"): whatever the order in which tasks and *)
(* dependencies are listed, it accepts the valid graphs and no others.     *)
(***************************************************************************)
DecidesValidity ==
  /\ verdict = "accepted" => ValidGraph(nodes, deps)
  /\ verdict = "unknown" => UnknownDependency(nodes, deps)
  /\ verdict = "cycle" => ~Acyclic(nodes, deps)

(* The search comes to an end on every graph, those with circles included. *)
SearchEnds == <>(verdict \in {"unknown", "cycle", "accepted"})
=============================================================================
