----------------------------- MODULE AgentKernel -----------------------------
(***************************************************************************)
(* The loop of a goal: AgentKernel.run (airvis/agent_kernel.py), which     *)
(* plans, executes the planned tasks under a semaphore, evaluates them and *)
(* delegates or repairs until the goal is verified or its iterations are   *)
(* used up.  The goals of one kernel run in the threads of an AgentOS and  *)
(* share its counters _repairs and _delegations, which nothing resets and  *)
(* no lock guards: a goal counts after other goals may have counted since  *)
(* it looked.                                                              *)
(*                                                                         *)
(* The executor is AgentOS._execute_goal_task: it returns the workflow's   *)
(* result as a dict also when the workflow failed, and raises only when    *)
(* no workflow could be run (or the time-out of the task has passed).  For *)
(* the kernel a task whose workflow failed has therefore been completed.   *)
(***************************************************************************)
EXTENDS Naturals, Sequences, FiniteSets, FiniteSetsExt

CONSTANTS
  Goals,
  Kernels,
  KernelOf,        \* the kernel each goal runs on
  Custom,          \* kernels with a planner and an evaluator of their own
  PlanSizes,       \* how many tasks such a planner returns
  Stuck,           \* goals whose executor never returns and ignores wait_for
  MaxIterations,
  MaxParallel,     \* KernelPolicy.max_parallel_agents
  MaxRepairs,      \* KernelPolicy.max_repairs
  MaxDelegations,  \* KernelPolicy.max_delegations
  NeedsVerified    \* KernelPolicy.require_verification

ASSUME KernelAssumption ==
  /\ KernelOf \in [Goals -> Kernels]
  /\ Custom \subseteq Kernels /\ PlanSizes \subseteq Nat /\ Stuck \subseteq Goals
  /\ MaxIterations \in Nat \ {0} /\ MaxParallel \in Nat \ {0}
  /\ MaxRepairs \in Nat /\ MaxDelegations \in Nat
  /\ NeedsVerified \in BOOLEAN

VARIABLES
  goal,      \* AgentGoal and where run() is with it
  repairs,   \* _repairs
  delegated  \* _delegations

kernelVars == <<goal, repairs, delegated>>

Outcomes == {"solved", "unsolved", "failed"}  \* workflow completed; failed; executor raised
Settled(g) == \A i \in DOMAIN goal[g].tasks : goal[g].tasks[i] \in Outcomes
TasksIn(g, status) == {i \in DOMAIN goal[g].tasks : goal[g].tasks[i] = status}

NewGoal == [at |-> "idle", status |-> "pending", iteration |-> 0, tasks |-> <<>>, result |-> "none",
            owed |-> 0]

KernelInit ==
  /\ goal = [g \in Goals |-> NewGoal]
  /\ repairs = [k \in Kernels |-> 0]
  /\ delegated = [k \in Kernels |-> 0]

(* run(): the goal is registered and set running.                          *)
BeginGoal(g) ==
  /\ goal[g].at = "idle"
  /\ goal' = [goal EXCEPT ![g].at = "plan", ![g].status = "running"]
  /\ UNCHANGED <<repairs, delegated>>

(* One more iteration: _plan, which without a planner makes one task of    *)
(* the prompt; an empty plan is evaluated at once.                         *)
PlanGoal(g) ==
  /\ goal[g].at = "plan"
  /\ goal[g].iteration < MaxIterations
  /\ \E n \in IF KernelOf[g] \in Custom THEN PlanSizes ELSE {1} :
       goal' = [goal EXCEPT ![g].iteration = @ + 1,
                            ![g].tasks = [i \in 1..n |-> "pending"],
                            ![g].at = IF n = 0 THEN "evaluate" ELSE "execute"]
  /\ UNCHANGED <<repairs, delegated>>

(* The for loop's else: no iteration is left.                              *)
OutOfIterations(g) ==
  /\ goal[g].at = "plan"
  /\ goal[g].iteration = MaxIterations
  /\ goal' = [goal EXCEPT ![g].status = "exhausted", ![g].at = "done"]
  /\ UNCHANGED <<repairs, delegated>>

(* A task of _execute_tasks enters the semaphore ...                       *)
StartTask(g) ==
  /\ goal[g].at = "execute"
  /\ Cardinality(TasksIn(g, "running")) < MaxParallel
  /\ TasksIn(g, "pending") # {}
  /\ goal' = [goal EXCEPT ![g].tasks[Min(TasksIn(g, "pending"))] = "running"]
  /\ UNCHANGED <<repairs, delegated>>

(* ... and ends with what the executor returned, raised, or with the       *)
(* time-out of wait_for.  gather returns when the last one has ended.      *)
EndTask(g) ==
  /\ goal[g].at = "execute"
  /\ g \notin Stuck
  /\ \E i \in TasksIn(g, "running"), o \in Outcomes :
       LET after == [goal[g].tasks EXCEPT ![i] = o]
       IN  goal' = [goal EXCEPT
             ![g].tasks = after,
             ![g].at = IF \A n \in DOMAIN after : after[n] \in Outcomes
                       THEN "evaluate" ELSE "execute"]
  /\ UNCHANGED <<repairs, delegated>>

(* Mutant: tasks that failed do not count.                                 *)
VerdictIgnoresFailures(g) ==
  LET ended == DOMAIN goal[g].tasks
  IN  [verified |-> ended # {}, done |-> ended # {}, delegations |-> 0,
       result |-> IF ended = {} THEN "none" ELSE goal[g].tasks[Max(ended)]]

(* _evaluate without an evaluator: one failed task refutes the goal,       *)
(* otherwise any task that ended verifies it, and the result is the one of *)
(* the last.                                                               *)
DefaultVerdict(g) ==
  LET ended == IF TasksIn(g, "failed") = {} THEN DOMAIN goal[g].tasks ELSE {}
  IN  [verified |-> ended # {}, done |-> ended # {}, delegations |-> 0,
       result |-> IF ended = {} THEN "none" ELSE goal[g].tasks[Max(ended)]]

Verdicts(g) ==
  IF KernelOf[g] \in Custom
  THEN [verified : BOOLEAN, done : BOOLEAN, delegations : {0, 2}, result : {"none", "solved"}]
  ELSE {DefaultVerdict(g)}

Accepts(g, v) ==
  \/ v.verified
  \/ ~NeedsVerified /\ (goal[g].tasks = <<>> \/ v.done)

CompleteGoal(g, v) ==
  /\ Accepts(g, v)
  /\ goal' = [goal EXCEPT ![g].status = "completed", ![g].result = v.result, ![g].at = "done"]
  /\ UNCHANGED <<repairs, delegated>>

(* _delegate cuts the list of prompts to what the budget leaves now, ...   *)
Delegate(g, v) ==
  LET room == MaxDelegations - delegated[KernelOf[g]]
  IN  /\ ~Accepts(g, v) /\ goal[g].tasks # <<>> /\ v.delegations > 0
      /\ goal' = [goal EXCEPT ![g].at = "delegate",
                              ![g].owed = Cardinality({n \in 1..v.delegations : n <= room})]
      /\ UNCHANGED <<repairs, delegated>>

(* ... and registers a sub-task for each of them; no later iteration       *)
(* executes these.                                                         *)
RegisterSubtask(g) ==
  /\ goal[g].at = "delegate"
  /\ IF goal[g].owed = 0
     THEN /\ goal' = [goal EXCEPT ![g].at = "plan"]
          /\ UNCHANGED delegated
     ELSE /\ goal' = [goal EXCEPT ![g].owed = @ - 1]
          /\ delegated' = [delegated EXCEPT ![KernelOf[g]] = @ + 1]
  /\ UNCHANGED repairs

(* _repair: out of repairs the goal is marked exhausted, but run() goes on *)
(* to its next iteration all the same; otherwise a repair is counted.      *)
RepairGoal(g, v) ==
  /\ ~Accepts(g, v) /\ (goal[g].tasks = <<>> \/ v.delegations = 0)
  /\ goal' = IF repairs[KernelOf[g]] >= MaxRepairs
             THEN [goal EXCEPT ![g].status = "exhausted", ![g].at = "plan"]
             ELSE [goal EXCEPT ![g].at = "repair"]
  /\ UNCHANGED <<repairs, delegated>>

CountRepair(g) ==
  /\ goal[g].at = "repair"
  /\ repairs' = [repairs EXCEPT ![KernelOf[g]] = @ + 1]
  /\ goal' = [goal EXCEPT ![g].at = "plan"]
  /\ UNCHANGED delegated

Evaluate(g) ==
  /\ goal[g].at = "evaluate"
  /\ \E v \in Verdicts(g) : CompleteGoal(g, v) \/ Delegate(g, v) \/ RepairGoal(g, v)

StepGoal(g) ==
  \/ PlanGoal(g) \/ OutOfIterations(g) \/ StartTask(g) \/ EndTask(g) \/ Evaluate(g)
  \/ RegisterSubtask(g) \/ CountRepair(g)
=============================================================================
