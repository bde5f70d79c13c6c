------------------------------ MODULE ReviewGate ------------------------------
(***************************************************************************)
(* The review of one task's result (airvis/orchestration/review.py): seven *)
(* evaluators, an optional model's opinion, and the verdict.  What the     *)
(* evaluators look at is the evidence, a set of facts about the task and   *)
(* its result, and how many tool calls the permission gate refused; texts  *)
(* are abstracted to what is found in them.  Scores are percentages,       *)
(* weights are tenths.                                                     *)
(***************************************************************************)
EXTENDS Naturals, FiniteSets

CONSTANTS
  MinScore    \* review.min_score, in per cent

ASSUME ReviewAssumption == MinScore \in 0 .. 100

Facts == {"failed", "empty",          \* of the result and its output
          "marker", "secret",         \* found in the output, or written
          "toolFailed", "toolMissing",   \* a call failed, a planned one is absent
          "tested", "testsFailed",    \* test.run was called, and failed
          "cases",                    \* it counted failing cases
          "mustWrite", "wrote",       \* the task edits code; files were written
          "mustTest",                 \* the task is a testing task
          "criticalFinding", "highFinding"}

(* Evidence an execution can leave behind: failing tests were run, their    *)
(* call is a failed call, and so is one the permission gate refused; a      *)
(* failed call makes the result a failed one (backends/native.py:134);      *)
(* failing cases are counted by a call that may have succeeded.             *)
Possible(facts, refused) ==
  /\ {"testsFailed", "cases"} \cap facts # {} => "tested" \in facts
  /\ "testsFailed" \in facts \/ refused > 0 => "toolFailed" \in facts
  /\ "toolFailed" \in facts => "failed" \in facts
  /\ "marker" \in facts => "empty" \notin facts

DIMENSION_WEIGHTS ==
  [correctness |-> 30, completeness |-> 20, security |-> 25, tests |-> 20,
   requirements |-> 15, regressions |-> 15, code_quality |-> 10, llm |-> 10]

Count(set) == Cardinality(set)
Less(points) == IF points >= 100 THEN 0 ELSE 100 - points

(* The score and the gravest issue of each evaluator.                       *)
Found(score, severity) == [score |-> score, severity |-> severity]
Fine == Found(100, "none")

Correctness(facts) ==
  LET issues == facts \cap {"toolFailed", "marker"}
  IN IF "failed" \in facts THEN Found(0, "critical")
     ELSE IF issues = {} THEN Fine ELSE Found(Less(40 * Count(issues)), "major")

Completeness(facts) ==
  IF "empty" \in facts THEN Found(0, "major")
  ELSE IF "toolMissing" \in facts THEN Found(70, "minor") ELSE Fine

Security(facts, refused) ==
  IF "secret" \in facts THEN Found(0, "critical")
  ELSE IF refused > 0 THEN Found(Less(15 * refused), "minor") ELSE Fine

Tests(facts) ==
  IF "testsFailed" \in facts THEN Found(0, "critical") ELSE Fine

Requirements(facts) ==
  IF \/ "mustWrite" \in facts /\ "wrote" \notin facts
     \/ "mustTest" \in facts /\ "tested" \notin facts
    THEN Found(30, "major") ELSE Fine

Regressions(facts) ==
  IF "cases" \in facts THEN Found(0, "critical") ELSE Fine

CodeQuality(facts) ==
  IF "criticalFinding" \in facts THEN Found(0, "critical")
  ELSE IF "highFinding" \in facts THEN Found(75, "minor") ELSE Fine

(* The model's opinion: a percentage, and whether it names issues; NoLLM    *)
(* when it is not asked, fails, or cannot be read.                          *)
NoLLM == [score |-> 0, issues |-> FALSE, given |-> FALSE]

Opinion(llm) ==
  IF ~llm.issues THEN Found(llm.score, "none")
  ELSE Found(llm.score, IF llm.score < 50 THEN "major" ELSE "minor")

Dimensions(facts, refused, llm) ==
  LET base == [correctness |-> Correctness(facts), completeness |-> Completeness(facts),
               security |-> Security(facts, refused), tests |-> Tests(facts),
               requirements |-> Requirements(facts), regressions |-> Regressions(facts),
               code_quality |-> CodeQuality(facts)]
  IN IF ~llm.given THEN base
     ELSE [d \in DOMAIN base \cup {"llm"} |-> IF d = "llm" THEN Opinion(llm) ELSE base[d]]

(* Mutant: majors no longer block.                                          *)
BlocksCriticalOnly(found) == found.severity = "critical"

Blocks(found) ==
  \/ found.severity = "critical"
  \/ found.severity = "major" /\ found.score < 50

(* A sum over the dimensions; that of the model only where it was asked.    *)
Total(points) ==
  points.correctness + points.completeness + points.security + points.tests
    + points.requirements + points.regressions + points.code_quality
    + (IF "llm" \in DOMAIN points THEN points.llm ELSE 0)

Enough(dims) ==
  LET used   == [d \in DOMAIN dims |-> DIMENSION_WEIGHTS[d]]
      scored == [d \in DOMAIN dims |-> used[d] * dims[d].score]
  IN Total(scored) >= MinScore * Total(used)

(* review_task.                                                             *)
Status(dims) ==
  IF Enough(dims) /\ \A d \in DOMAIN dims : ~Blocks(dims[d]) THEN "PASS" ELSE "FAIL"

(* blocking_issues, which counts every major, of whatever score.            *)
Complaints(dims) == {d \in DOMAIN dims : dims[d].severity \in {"major", "critical"}}

-----------------------------------------------------------------------------
(* The evidence that must never pass the gate.                              *)
Damning(facts) ==
  \/ facts \cap {"failed", "empty", "secret", "testsFailed", "cases", "criticalFinding"} # {}
  \/ {"toolFailed", "marker"} \subseteq facts
  \/ "mustWrite" \in facts /\ "wrote" \notin facts
  \/ "mustTest" \in facts /\ "tested" \notin facts
=============================================================================
