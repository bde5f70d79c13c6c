------------------------------ MODULE RepairLoop ------------------------------
(***************************************************************************)
(* What a runner does between its start and its end:                       *)
(* Orchestrator._execute_task with RepairPlanner.plan                      *)
(* (airvis/orchestration/orchestrator.py, repair.py).  Each task attempts  *)
(* its work, classifies the failure, picks the next repair of the playbook *)
(* and goes round again.  The runners of one workflow interleave at every  *)
(* await and share the list _repairs, whose length is the workflow's       *)
(* repair budget, and the flag of cancel().                                *)
(*                                                                         *)
(* What an attempt does (routing, backend, review) is only its outcome     *)
(* here: success, or a failure of one of the categories.                   *)
(***************************************************************************)
EXTENDS Naturals, Sequences, FiniteSets

CONSTANTS
  Tasks,
  Splittable,       \* tasks Planner.replan splits; for others it returns []
  Failures,         \* the failure categories attempts run into
  Overrides,        \* RepairConfig.strategies, category |-> list; partial
  MaxPerTask,       \* RepairConfig.max_repairs_per_task
  MaxPerWorkflow,   \* RepairConfig.max_repairs_per_workflow
  MaxRetries,       \* the smaller of max_retries and RetryPolicy.max_attempts
  HasHandler,       \* is there an approval handler?
  AllowHumanReview, \* RepairConfig.allow_human_review
  MaxResumes        \* bound: how often a failed workflow is resumed

Categories ==
  {"PROVIDER_ERROR", "BACKEND_ERROR", "TOOL_ERROR", "PERMISSION_ERROR", "CODE_ERROR",
   "TEST_FAILURE", "CONTEXT_ERROR", "TIMEOUT", "RATE_LIMIT", "ROUTING_ERROR",
   "REVIEW_REJECTED", "CANCELLED", "UNKNOWN"}

Strategies ==
  {"RETRY", "REPLAN", "CHANGE_AGENT", "CHANGE_PROVIDER", "CHANGE_MODEL", "CHANGE_BACKEND",
   "MODIFY_CONTEXT", "REQUEST_APPROVAL", "HUMAN_REVIEW", "ABORT"}

GivesUp == {"ABORT", "HUMAN_REVIEW"}

ASSUME RepairAssumption ==
  /\ IsFiniteSet(Tasks)
  /\ Splittable \subseteq Tasks
  /\ Failures \subseteq Categories
  /\ DOMAIN Overrides \subseteq Categories
  /\ \A c \in DOMAIN Overrides : Overrides[c] \in Seq(Strategies)
  /\ MaxPerTask \in Nat /\ MaxPerWorkflow \in Nat /\ MaxRetries \in Nat /\ MaxResumes \in Nat
  /\ HasHandler \in BOOLEAN /\ AllowHumanReview \in BOOLEAN
-----------------------------------------------------------------------------
DefaultPlaybook ==
  [PROVIDER_ERROR   |-> <<"RETRY", "CHANGE_PROVIDER", "CHANGE_MODEL", "ABORT">>,
   RATE_LIMIT       |-> <<"CHANGE_PROVIDER", "RETRY", "ABORT">>,
   BACKEND_ERROR    |-> <<"CHANGE_BACKEND", "CHANGE_AGENT", "RETRY", "ABORT">>,
   TOOL_ERROR       |-> <<"RETRY", "MODIFY_CONTEXT", "CHANGE_AGENT", "ABORT">>,
   PERMISSION_ERROR |-> <<"REQUEST_APPROVAL", "CHANGE_AGENT", "HUMAN_REVIEW", "ABORT">>,
   CODE_ERROR       |-> <<"MODIFY_CONTEXT", "REPLAN", "CHANGE_AGENT", "ABORT">>,
   TEST_FAILURE     |-> <<"MODIFY_CONTEXT", "REPLAN", "HUMAN_REVIEW", "ABORT">>,
   CONTEXT_ERROR    |-> <<"MODIFY_CONTEXT", "REPLAN", "ABORT">>,
   TIMEOUT          |-> <<"RETRY", "REPLAN", "CHANGE_BACKEND", "ABORT">>,
   ROUTING_ERROR    |-> <<"MODIFY_CONTEXT", "HUMAN_REVIEW", "ABORT">>,
   REVIEW_REJECTED  |-> <<"MODIFY_CONTEXT", "CHANGE_AGENT", "REPLAN", "HUMAN_REVIEW", "ABORT">>,
   CANCELLED        |-> <<"ABORT">>,
   UNKNOWN          |-> <<"RETRY", "CHANGE_AGENT", "ABORT">>]

(* RepairPlanner.playbook; an override that names no strategy is ignored.  *)
Playbook(cat) ==
  IF cat \in DOMAIN Overrides /\ Overrides[cat] # <<>>
  THEN IF Overrides[cat][Len(Overrides[cat])] = "ABORT" THEN Overrides[cat]
       ELSE Append(Overrides[cat], "ABORT")
  ELSE DefaultPlaybook[cat]

VARIABLES
  stage,           \* where the runner of each task is
  attempts,        \* task.attempts
  tried,           \* task.attempted_repairs
  repairAttempts,  \* task.repair_attempts
  tries,           \* how many attempts this runner has made
  records,         \* len(Orchestrator._repairs[workflow])
  cancelled,       \* is the workflow in Orchestrator._cancelled?
  resumes

vars == <<stage, attempts, tried, repairAttempts, tries, records, cancelled, resumes>>

Ended == {"ok", "replanned", "failed", "raised"}
Stage == {"queued", "attempting", "sleeping"} \cup Ended

TypeOK ==
  /\ stage \in [Tasks -> Stage]
  /\ attempts \in [Tasks -> Nat]
  /\ tried \in [Tasks -> Seq(Strategies)]
  /\ repairAttempts \in [Tasks -> Nat]
  /\ tries \in [Tasks -> Nat]
  /\ records \in Nat
  /\ cancelled \in BOOLEAN
  /\ resumes \in Nat

Tried(t) == {tried[t][i] : i \in DOMAIN tried[t]}

(* A mutant, like those below: NeverTwice, without the attempted set. *)
UsableAgain(t, s) ==
  /\ s = "RETRY" => attempts[t] < MaxRetries
  /\ s = "REQUEST_APPROVAL" => HasHandler
  /\ s = "HUMAN_REVIEW" => AllowHumanReview

(* The filters of RepairPlanner.plan. *)
Usable(t, s) ==
  /\ s \notin Tried(t)
  /\ s = "RETRY" => attempts[t] < MaxRetries
  /\ s = "REQUEST_APPROVAL" => HasHandler
  /\ s = "HUMAN_REVIEW" => AllowHumanReview

(* BudgetsKept: "more than" for "at least". *)
DecisionLate(t, cat) ==
  LET book == Playbook(cat)
      usable == {i \in DOMAIN book : Usable(t, book[i])}
  IN  IF cat = "CANCELLED" \/ repairAttempts[t] > MaxPerTask \/ records > MaxPerWorkflow \/ usable = {}
      THEN "ABORT"
      ELSE book[CHOOSE i \in usable : \A j \in usable : i <= j]

(* RepairPlanner.plan *)
Decision(t, cat) ==
  LET book == Playbook(cat)
      usable == {i \in DOMAIN book : Usable(t, book[i])}
  IN  IF \/ cat = "CANCELLED"
         \/ repairAttempts[t] >= MaxPerTask
         \/ records >= MaxPerWorkflow
         \/ usable = {}
      THEN "ABORT"
      ELSE book[CHOOSE i \in usable : \A j \in usable : i <= j]

(* NoAttemptAfterCancel: the flag is not looked at. *)
NextRoundAnyway == "attempting"

(* The check at the top of the loop. *)
NextRound == IF cancelled THEN "raised" ELSE "attempting"
-----------------------------------------------------------------------------
Init ==
  /\ stage = [t \in Tasks |-> "queued"]
  /\ attempts = [t \in Tasks |-> 0]
  /\ tried = [t \in Tasks |-> <<>>]
  /\ repairAttempts = [t \in Tasks |-> 0]
  /\ tries = [t \in Tasks |-> 0]
  /\ records = 0
  /\ cancelled = FALSE
  /\ resumes = 0

(* DAGEngine._run_one: mark_running, then the runner. *)
Launch(t) ==
  /\ stage[t] = "queued"
  /\ attempts' = [attempts EXCEPT ![t] = @ + 1]
  /\ tries' = [tries EXCEPT ![t] = 0]
  /\ stage' = [stage EXCEPT ![t] = NextRound]
  /\ UNCHANGED <<tried, repairAttempts, records, cancelled, resumes>>

(* The attempt's result is ok and its review, if any, passes. *)
Succeed(t) ==
  /\ stage[t] = "attempting"
  /\ stage' = [stage EXCEPT ![t] = "ok"]
  /\ tries' = [tries EXCEPT ![t] = @ + 1]
  /\ UNCHANGED <<attempts, tried, repairAttempts, records, cancelled, resumes>>

(***************************************************************************)
(* The attempt raises, fails or is rejected by its review.  From here to   *)
(* the next attempt (or the sleep before a RETRY) nothing is awaited: the  *)
(* decision reads the budgets and is recorded in one step, decisions to    *)
(* give up included.                                                       *)
(***************************************************************************)
GiveUp(t) ==
  /\ stage' = [stage EXCEPT ![t] = "failed"]
  /\ UNCHANGED <<tried, repairAttempts>>

(* Neither the save of the repair record nor what applies the repair       *)
(* (registry lookups, the planner) is guarded: their exceptions end the    *)
(* runner.                                                                 *)
Unrecorded(t) ==
  /\ stage' = [stage EXCEPT ![t] = "raised"]
  /\ UNCHANGED <<tried, repairAttempts>>

AfterRepair(t, s) ==
  IF s = "REPLAN" /\ t \in Splittable THEN "replanned"
  ELSE IF s = "RETRY" THEN "sleeping"
  ELSE NextRound

Repair(t, s) ==
  /\ repairAttempts' = [repairAttempts EXCEPT ![t] = @ + 1]
  /\ tried' = [tried EXCEPT ![t] = Append(@, s)]
  /\ \E after \in {AfterRepair(t, s), "raised"} : stage' = [stage EXCEPT ![t] = after]

Fail(t, cat) ==
  LET s == Decision(t, cat)
  IN  /\ stage[t] = "attempting"
      /\ tries' = [tries EXCEPT ![t] = @ + 1]
      /\ records' = records + 1
      /\ \/ Unrecorded(t)
         \/ s \in GivesUp /\ GiveUp(t)
         \/ s \notin GivesUp /\ Repair(t, s)
      /\ UNCHANGED <<attempts, cancelled, resumes>>

(* EveryRunnerEnds: the sleep is only ended by a cancellation. *)
WakeWhenCancelled(t) ==
  /\ stage[t] = "sleeping"
  /\ cancelled
  /\ stage' = [stage EXCEPT ![t] = NextRound]
  /\ UNCHANGED <<attempts, tried, repairAttempts, tries, records, cancelled, resumes>>

(* The backoff of a RETRY is over. *)
Wake(t) ==
  /\ stage[t] = "sleeping"
  /\ stage' = [stage EXCEPT ![t] = NextRound]
  /\ UNCHANGED <<attempts, tried, repairAttempts, tries, records, cancelled, resumes>>

(* Orchestrator.cancel *)
Cancel ==
  /\ ~cancelled
  /\ cancelled' = TRUE
  /\ UNCHANGED <<stage, attempts, tried, repairAttempts, tries, records, resumes>>

(***************************************************************************)
(* Orchestrator.resume of a workflow whose tasks have all ended: those     *)
(* that failed are queued again with the repairs they have on record.  In  *)
(* the same process _repairs and _cancelled are still there, in a new one  *)
(* they are empty.                                                         *)
(***************************************************************************)
Resume(newProcess) ==
  /\ \A t \in Tasks : stage[t] \in Ended
  /\ resumes < MaxResumes
  /\ resumes' = resumes + 1
  /\ stage' = [t \in Tasks |-> IF stage[t] \in {"failed", "raised"} THEN "queued" ELSE stage[t]]
  /\ records' = IF newProcess THEN 0 ELSE records
  /\ cancelled' = IF newProcess THEN FALSE ELSE cancelled
  /\ UNCHANGED <<attempts, tried, repairAttempts, tries>>

AllEnded == (\A t \in Tasks : stage[t] \in Ended) /\ UNCHANGED vars

Runner(t) ==
  \/ Launch(t)
  \/ Succeed(t)
  \/ \E cat \in Failures : Fail(t, cat)
  \/ Wake(t)

Next ==
  \/ \E t \in Tasks : Runner(t)
  \/ Cancel
  \/ \E newProcess \in BOOLEAN : Resume(newProcess)
  \/ AllEnded

Spec == Init /\ [][Next]_vars

(* Attempts are under a timeout and the event loop serves every runner.    *)
FairSpec == Spec /\ \A t \in Tasks : WF_vars(Runner(t))
-----------------------------------------------------------------------------
(* "A strategy is never tried twice for the same task" (repair.py:3): not  *)
(* in one run, not over resumes, not when a configured playbook repeats    *)
(* itself or categories alternate.                                         *)
NeverTwice ==
  \A t \in Tasks : \A i, j \in DOMAIN tried[t] : tried[t][i] = tried[t][j] => i = j

(* A task's repairs stay within max_repairs_per_task over its whole life,  *)
(* and what repair_attempts counts is what attempted_repairs lists.        *)
TaskBudget ==
  \A t \in Tasks : /\ repairAttempts[t] = Len(tried[t])
                   /\ repairAttempts[t] <= MaxPerTask

(* The sum of the tasks' numbers, as the number of pairs <<t, n>>, n being  *)
(* at most what t has.                                                     *)
Counted(f) == UNION {{t} \X (1 .. f[t]) : t \in Tasks}
SumOver(f) == Cardinality(Counted(f))

(***************************************************************************)
(* However its runners interleave, one run of a workflow makes at most     *)
(* max_repairs_per_workflow repairs in all its tasks, and therefore at     *)
(* most that many attempts more than it has tasks.                         *)
(***************************************************************************)
WorkflowBudget ==
  resumes = 0 =>
    /\ SumOver([t \in Tasks |-> Len(tried[t])]) <= MaxPerWorkflow
    /\ SumOver(tries) <= Cardinality(Tasks) + MaxPerWorkflow

BudgetsKept == TaskBudget /\ WorkflowBudget

(* Once the workflow is cancelled no runner begins another attempt, be it   *)
(* its first, the one after a repair or the one after a sleep.             *)
NoAttemptAfterCancel ==
  [][cancelled => \A t \in Tasks :
       stage[t] # "attempting" \/ tries'[t] # tries[t] => stage'[t] # "attempting"]_vars

(* "Every path terminates" (repair.py:4): whatever goes wrong, however     *)
(* often, every task comes to an end.                                      *)
EveryRunnerEnds == \A t \in Tasks : <>(stage[t] \in Ended)
=============================================================================
