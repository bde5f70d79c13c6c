------------------------------- MODULE Planner -------------------------------
(***************************************************************************)
(* The planner of airvis/orchestration/planner.py as functions: what the   *)
(* heuristic planner makes of a request, what the LLM planner makes of a   *)
(* model's reply, and what a failed task is split into.  A plan is a       *)
(* record [ok, nodes, deps]; a task of a plan is named by its intent, or   *)
(* by the place of its entry in the reply.                                 *)
(*                                                                         *)
(* A request is the set of intents whose patterns it matches, and whether  *)
(* it is a question.  An entry of a reply is a record [kind, id, refs]:    *)
(* kind is "task", "nameless" (no description), "text" (not an object) or  *)
(* "misvalued" (a priority that is no number); id is the label it carries, *)
(* 0 for none; refs are the labels it depends on.                          *)
(***************************************************************************)
EXTENDS Naturals, Sequences, SequencesExt

(* INTENTS in the order of the catalogue, which is also that of the stages. *)
INTENTS == <<"inspect", "static_analysis", "diagnose", "design", "implement",
             "test", "review", "commit", "report">>

Stage == [inspect |-> 0, static_analysis |-> 0, diagnose |-> 1, design |-> 2,
          implement |-> 3, test |-> 4, review |-> 5, commit |-> 6,
          report |-> 7, respond |-> 0]

Finalizer == "report"

Catalogued == {INTENTS[k] : k \in DOMAIN INTENTS}
PlaceOf(i) == CHOOSE k \in DOMAIN INTENTS : INTENTS[k] = i

(* _detect: a lone look at the code that is asked for by a question is a    *)
(* question; more than one intent calls for a report at the end.  The first *)
(* "limit" intents in the order of the catalogue are planned.               *)
Detect(matched, question, limit) ==
  LET report == IF Cardinality(matched) > 1 THEN {Finalizer} ELSE {}
      all    == {i \in Catalogued : i \in matched \cup report}
      Before(i) == {j \in all : PlaceOf(j) < PlaceOf(i)}
  IN IF \/ matched = {}
        \/ question /\ matched \in {{"inspect"}, {"static_analysis"}}
       THEN {"respond"}
       ELSE {i \in all : Cardinality(Before(i)) < limit}

(* Mutant of the next: a task waits for the first stage, not the nearest.   *)
FirstStage(i, plan) ==
  LET earlier == {j \in plan : Stage[j] < Stage[i]}
  IN {j \in earlier : \A k \in earlier : Stage[j] <= Stage[k]}

(* A task waits for all tasks of the nearest stage before its own.          *)
NearestStage(i, plan) ==
  LET earlier == {j \in plan : Stage[j] < Stage[i]}
  IN {j \in earlier : \A k \in earlier : Stage[k] <= Stage[j]}

BuildTasks(plan) ==
  [ok |-> TRUE, nodes |-> plan, deps |-> [i \in plan |-> NearestStage(i, plan)]]

HeuristicPlan(matched, question, limit) ==
  BuildTasks(Detect(matched, question, limit))

-----------------------------------------------------------------------------
NoPlan == [ok |-> FALSE, nodes |-> {}, deps |-> <<>>]

(* The places of the entries that become tasks, and how many have by then.  *)
Kept(entries, limit) ==
  {k \in 1 .. Min({limit, Len(entries)}) : entries[k].kind = "task"}

Rank(kept, k) == Cardinality({j \in kept : j <= k})

LabelOf(entries, k) == IF entries[k].id = 0 THEN k ELSE entries[k].id

(* index_to_id: of several tasks with one label the last has it.            *)
Labelled(entries, limit, label) ==
  LET named == {k \in Kept(entries, limit) : LabelOf(entries, k) = label}
  IN IF named = {} THEN {} ELSE {Max(named)}

(* The second loop of _parse pairs the n-th entry of the reply with the     *)
(* n-th task that was kept; references nobody carries are dropped.          *)
Parse(entries, limit, ids) ==
  LET kept    == Kept(entries, limit)
      tasks   == {ids[k] : k \in kept}
      Of(t)   == CHOOSE k \in kept : ids[k] = t
      Refs(n) == UNION {Labelled(entries, limit, l) : l \in entries[n].refs}
  IN IF \/ kept = {}
        \/ \E k \in 1 .. Min({limit, Len(entries)}) : entries[k].kind = "misvalued"
        \/ \E n \in 1 .. Cardinality(kept) : entries[n].kind = "text"
       THEN NoPlan
       ELSE [ok |-> TRUE, nodes |-> tasks,
             deps |-> [t \in tasks |-> {ids[d] : d \in Refs(Rank(kept, Of(t)))}]]

(* What the reply says: each task depends on what its own entry names.      *)
Written(entries, limit, k) ==
  UNION {Labelled(entries, limit, l) : l \in entries[k].refs}

-----------------------------------------------------------------------------
(* replan: a first piece that waits for what the task waited for and a      *)
(* second that waits for the first; a piece itself is not split again.      *)
MaxReplanDepth == 1

Pieces(depth, dependencies, first, second) ==
  IF depth >= MaxReplanDepth THEN NoPlan
  ELSE [ok |-> TRUE, nodes |-> {first, second},
        deps |-> [u \in {first, second} |-> IF u = first THEN dependencies ELSE {first}]]
=============================================================================
