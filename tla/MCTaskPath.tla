------------------------------ MODULE MCTaskPath ------------------------------
(* A task's path apart from the engine, the routing and the tools, for     *)
(* TLC: from the request to an admitted graph, what an attempt gets to     *)
(* see, and from its call of a provider to the verdict on it.  The three   *)
(* share no state, so that "part" says which one a behaviour is about.     *)
EXTENDS Admission, ContextBudget, TaskPath

VARIABLE part

AllIds == Rows \cup Catalogued \cup {"respond"} \cup ToSet(EntryIds) \cup AllPieces

StoredIds == {"t1", "t2", "t3"}
TaskIds   == <<"t1", "t2", "t3">>
SplitIds  == << <<"p1", "p2">> >>

Entry(k, i, r) == [kind |-> k, id |-> i, refs |-> r]

Entries == {Entry("task", i, r) : i \in 0 .. 2, r \in SUBSET {1, 2}}
           \cup {Entry(k, 0, {}) : k \in {"nameless", "text", "misvalued"}}

Lists == UNION {[1 .. n -> Entries] : n \in 0 .. 3}

(* Replies in good order: no label twice, and only of what came before.     *)
OrderedLists ==
  {list \in Lists : \A k \in DOMAIN list :
     list[k].id \in {0, k} /\ list[k].refs \subseteq 1 .. k - 1}

(* All replies of two entries, and those of three that are in good order;   *)
(* graphs of three tasks in any order come from the rows of a store.        *)
SomeLists == {list \in Lists : Len(list) <= 2} \cup OrderedLists

Evidence == Facts \ {"toolMissing", "highFinding"}

(* A model may like all, have a quibble, or reject with or without reasons. *)
Views == {[score |-> 100, issues |-> FALSE, given |-> TRUE],
          [score |-> 80,  issues |-> TRUE,  given |-> TRUE],
          [score |-> 10,  issues |-> TRUE,  given |-> TRUE],
          [score |-> 0,   issues |-> FALSE, given |-> TRUE]}

Contexts ==
  [fixed : {3, 12}, workspace : {1, 9}, memories : {0, 3}, request : {1, 40},
   artifacts : {0, 25}, results : UNION {[1 .. n -> {1, 5, 30}] : n \in 0 .. 4}]

pathsVars == <<admVars, contextVars, pathVars, part>>

MCInit ==
  /\ AdmInit /\ ContextInit /\ PathInit
  /\ \/ part = "plan"
     \/ part \in {"context", "attempt"} /\ origin = "heuristic" /\ limit = 2

MCNext ==
  \/ part = "plan" /\ AdmNext /\ UNCHANGED <<contextVars, pathVars, part>>
  \/ part = "context" /\ ContextNext /\ UNCHANGED <<admVars, pathVars, part>>
  \/ part = "attempt" /\ PathNext /\ UNCHANGED <<admVars, contextVars, part>>

MCSpec ==
  /\ MCInit /\ [][MCNext]_pathsVars
  /\ AdmFairness /\ HttpFairness

(* Every validation and every call of a provider come to an end.            *)
PathEnds == AdmissionEnds /\ CallEnds
=============================================================================
