------------------------------ MODULE DagEngine ------------------------------
(***************************************************************************)
(* DAGEngine.execute of airvis/orchestration/dag.py: one workflow run.     *)
(*                                                                         *)
(* The engine is a coroutine that owns a table of tasks and a dict         *)
(* "running" of asyncio handles.  It alternates between a top half that    *)
(* never awaits (stop, or launch what is ready) and asyncio.wait, where    *)
(* the task runners make progress: they end with a result, raise, or       *)
(* REPLAN, which mutates the very table the engine iterates over.  Runners *)
(* and engine share one event loop, so runners move only while the engine  *)
(* awaits (pc "wait" or "drain"); cancel() merely sets a flag and can come *)
(* at any moment.                                                          *)
(*                                                                         *)
(* What a runner does between its start and its end is left to RepairLoop. *)
(***************************************************************************)
EXTENDS TaskDag, Naturals, FiniteSets

CONSTANTS
  Tasks,             \* task ids, those of the plan and spare ones for REPLAN
  Plans,             \* the graphs a caller may submit
  MaxConcurrency,    \* WorkflowConfig.max_concurrency
  CancelDependents,  \* WorkflowConfig.cancel_dependents_on_failure
  FailFast,          \* WorkflowConfig.fail_fast
  SwallowsCancel,    \* may a runner survive handle.cancel()?
  StrayCancel,       \* may a runner end in CancelledError that nobody asked for?
  StoreFails         \* may a save raise (and be swallowed by _persist)?

Plan == [nodes: SUBSET Tasks, deps: [Tasks -> SUBSET Tasks],
         finalizers: SUBSET Tasks, prio: [Tasks -> Nat]]

ASSUME TasksAssumption == IsFiniteSet(Tasks)
ASSUME PlansAssumption ==
  /\ Plans \subseteq Plan
  /\ \A p \in Plans : p.finalizers \subseteq p.nodes
ASSUME ConcurrencyAssumption == MaxConcurrency \in Nat
ASSUME FlagsAssumption ==
  /\ CancelDependents \in BOOLEAN
  /\ FailFast \in BOOLEAN
  /\ SwallowsCancel \in BOOLEAN
  /\ StrayCancel \in BOOLEAN
  /\ StoreFails \in BOOLEAN

Slots == IF MaxConcurrency = 0 THEN 1 ELSE MaxConcurrency

Terminal == {"completed", "failed", "cancelled"}
Status   == Terminal \cup {"queued", "running"}
Ended    == {"ok", "failed", "aborted"}   \* how an asyncio handle can be done

VARIABLES
  nodes, deps, finalizers, prio,  \* DAGRun.tasks and the fields of its tasks
  depth,       \* task.metadata["replan_depth"]
  status,      \* task.status; "absent" for an id the run does not contain
  attempts,    \* task.attempts, counted by mark_running
  handle,      \* the handle in "running"; "none" for a task without one
  pc,          \* where execute() is
  cancelled,   \* DAGRun.cancelled
  failedHard,  \* the local failed_hard
  store        \* the rows of the tasks table, "absent" where there is none

graph == <<nodes, deps, finalizers, prio, depth>>
vars  == <<graph, status, attempts, handle, pc, cancelled, failedHard, store>>

Row(st, dp, at) == [status |-> st, deps |-> dp, attempts |-> at]

TypeOK ==
  /\ nodes \subseteq Tasks
  /\ deps \in [Tasks -> SUBSET Tasks]
  /\ finalizers \subseteq Tasks
  /\ prio \in [Tasks -> Nat]
  /\ depth \in [Tasks -> 0..1]
  /\ status \in [Tasks -> Status \cup {"absent"}]
  /\ attempts \in [Tasks -> Nat]
  /\ handle \in [Tasks -> {"none", "active", "cancelling"} \cup Ended]
  /\ pc \in {"idle", "top", "wait", "settle", "drain", "ended", "rejected"}
  /\ cancelled \in BOOLEAN
  /\ failedHard \in BOOLEAN
  /\ store \in [Tasks -> [status: Status \cup {"absent"}, deps: SUBSET Tasks, attempts: Nat]]
-----------------------------------------------------------------------------
(* The tasks with an entry in the dict "running", and those asyncio.wait   *)
(* would report as done.                                                   *)
Running == {t \in Tasks : handle[t] # "none"}
Done    == {t \in Tasks : handle[t] \in Ended}

Unfinished == {t \in nodes : status[t] \notin Terminal}

(* Mutants, here and below: a wrong variant of the definition that follows *)
(* it, which the named property must notice.                               *)
(* UpstreamCompleted: the finalizer rule for every task.                   *)
AnyEndAllows(t) == \A d \in deps[t] \cap nodes : status[d] \in Terminal

(* DAGEngine._ready *)
DependenciesAllow(t) ==
  \A d \in deps[t] \cap nodes :
    IF t \in finalizers THEN status[d] \in Terminal ELSE status[d] = "completed"

(* StartedOnce: the scan does not skip what is running. *)
ReadyOrRunning == {t \in Unfinished : DependenciesAllow(t)}

Ready == {t \in nodes : status[t] = "queued" /\ DependenciesAllow(t)}

(* NoIdleSlot: "if" for "while", one launch per turn of the loop. *)
LaunchableSingly(L) ==
  /\ L \subseteq Ready
  /\ Cardinality(L) <= 1
  /\ Cardinality(L) + Cardinality(Running) <= Slots
  /\ L = {} => Ready = {} \/ Cardinality(Running) = Slots

(***************************************************************************)
(* The prefix of the sorted ready list that the free slots take.  Tasks of *)
(* equal priority are ordered by creation time, which is not modelled: any *)
(* of them may go first.                                                   *)
(***************************************************************************)
Launchable(L) ==
  /\ L \subseteq Ready
  /\ Cardinality(L) + Cardinality(Running) <= Slots
  /\ L = Ready \/ Cardinality(L) + Cardinality(Running) = Slots
  /\ \A t \in L, u \in Ready \ L : prio[t] >= prio[u]

(* StoreCurrent: the row is made before the task is updated. *)
PersistEarly(S) ==
  store' = [t \in Tasks |-> IF t \in S THEN Row(status[t], deps[t], attempts[t]) ELSE store[t]]

(* DAGEngine._persist of the tasks of S, after the step; every save may    *)
(* fail silently on its own when StoreFails.                               *)
Persist(S) ==
  \E W \in (IF StoreFails THEN SUBSET S ELSE {S}) :
    store' = [t \in Tasks |-> IF t \in W THEN Row(status'[t], deps'[t], attempts'[t])
                                         ELSE store[t]]

(* ImplementsTaskGraph: finalizers are not spared. *)
DoomedAll(t) == Downstream({d \in nodes : d # t /\ status[d] \notin Terminal}, deps, t)

(* The tasks _cancel_dependents reaches from a task that failed. *)
Doomed(t) ==
  Downstream({d \in nodes : d # t /\ status[d] \notin Terminal /\ d \notin finalizers},
             deps, t)
-----------------------------------------------------------------------------
(* The caller (Orchestrator.run) has saved the plan it hands over. *)
Init ==
  /\ \E p \in Plans :
       /\ nodes = p.nodes
       /\ deps = p.deps
       /\ finalizers = p.finalizers
       /\ prio = p.prio
       /\ status = [t \in Tasks |-> IF t \in p.nodes THEN "queued" ELSE "absent"]
       /\ store = [t \in Tasks |-> IF t \in p.nodes THEN Row("queued", p.deps[t], 0)
                                                    ELSE Row("absent", {}, 0)]
  /\ depth = [t \in Tasks |-> 0]
  /\ attempts = [t \in Tasks |-> 0]
  /\ handle = [t \in Tasks |-> "none"]
  /\ pc = "idle"
  /\ cancelled = FALSE
  /\ failedHard = FALSE

(* DurableProgress: everything starts over. *)
StartOver(resume, st) == "queued"

(***************************************************************************)
(* The prologue of execute().  An empty or invalid graph raises before the *)
(* run is registered.  A resumed run keeps COMPLETED tasks, puts RUNNING   *)
(* and FAILED ones back in the queue and leaves every other status alone.  *)
(***************************************************************************)
AfterPrologue(resume, st) ==
  IF resume /\ st \notin {"running", "failed"} THEN st ELSE "queued"

Execute(resume) ==
  /\ pc = "idle"
  /\ IF nodes = {} \/ ~ValidGraph(nodes, deps)
     THEN pc' = "rejected" /\ UNCHANGED status
     ELSE /\ pc' = "top"
          /\ status' = [t \in Tasks |-> IF t \in nodes THEN AfterPrologue(resume, status[t])
                                                       ELSE status[t]]
  /\ UNCHANGED <<graph, attempts, handle, cancelled, failedHard, store>>

(* DAGEngine.cancel: False until execute() has registered the run. *)
Cancel ==
  /\ pc \notin {"idle", "rejected"}
  /\ ~cancelled
  /\ cancelled' = TRUE
  /\ UNCHANGED <<graph, status, attempts, handle, pc, failedHard, store>>

(* RunTerminates: the loop is left only when it is told to stop. *)
SpinWhenIdle(L) == IF Running \cup L = {} THEN "top" ELSE "wait"

AfterLaunch(L) == IF Running \cup L = {} THEN "ended" ELSE "wait"

(***************************************************************************)
(* The top half of the loop up to the next await, when the run goes on.    *)
(* The coroutines of new handles run before asyncio.wait can return, so    *)
(* their mark_running belongs to this step; a slot of the semaphore is     *)
(* always free for them because only Slots handles exist.                  *)
(***************************************************************************)
Launch(L) ==
  /\ pc = "top"
  /\ ~cancelled
  /\ ~failedHard
  /\ Launchable(L)
  /\ status' = [t \in Tasks |-> IF t \in L THEN "running" ELSE status[t]]
  /\ attempts' = [t \in Tasks |-> IF t \in L THEN attempts[t] + 1 ELSE attempts[t]]
  /\ handle' = [t \in Tasks |-> IF t \in L THEN "active" ELSE handle[t]]
  /\ pc' = AfterLaunch(L)
  /\ UNCHANGED <<graph, cancelled, failedHard, store>>

(* _cancel_remaining: everything unfinished, running tasks included, is    *)
(* CANCELLED and saved.                                                    *)
CancelRemaining ==
  /\ status' = [t \in Tasks |-> IF t \in Unfinished THEN "cancelled" ELSE status[t]]
  /\ Persist(Unfinished)

(***************************************************************************)
(* The top half when the run stops early: the flag of cancel() is seen, or *)
(* the batch just settled held a failure and fail_fast is on.  Everything  *)
(* unfinished becomes CANCELLED at once; only then are the handles         *)
(* cancelled and awaited.                                                  *)
(***************************************************************************)
StopRun ==
  /\ pc = "top"
  /\ cancelled \/ failedHard
  /\ handle' = [t \in Tasks |-> IF handle[t] = "active" THEN "cancelling" ELSE handle[t]]
  /\ pc' = IF Running = {} THEN "ended" ELSE "drain"
  /\ UNCHANGED <<graph, attempts, cancelled, failedHard>>
  /\ CancelRemaining

(***************************************************************************)
(* One iteration of the loop over "done", which includes every handle that *)
(* is done when asyncio.wait returns; the order is that of a set.  A       *)
(* CancelledError makes the task CANCELLED without saving it and without   *)
(* touching its dependents.                                                *)
(***************************************************************************)
SettleAborted(t) ==
  /\ handle[t] = "aborted"
  /\ status' = [status EXCEPT ![t] = "cancelled"]
  /\ UNCHANGED <<failedHard, store>>

SettleCompleted(t) ==
  /\ handle[t] = "ok"
  /\ status' = [status EXCEPT ![t] = "completed"]
  /\ UNCHANGED failedHard
  /\ Persist({t})

SettleFailed(t) ==
  /\ handle[t] = "failed"
  /\ LET gone == IF CancelDependents THEN Doomed(t) ELSE {}
     IN  /\ status' = [u \in Tasks |-> IF u = t THEN "failed"
                                       ELSE IF u \in gone THEN "cancelled" ELSE status[u]]
         /\ failedHard' = (failedHard \/ FailFast)
         /\ Persist({t} \cup gone)

Settle(t) ==
  /\ pc \in {"wait", "settle"}
  /\ handle' = [handle EXCEPT ![t] = "none"]
  /\ pc' = IF Done = {t} THEN "top" ELSE "settle"
  /\ UNCHANGED <<graph, attempts, cancelled>>
  /\ \/ SettleAborted(t)
     \/ SettleCompleted(t)
     \/ SettleFailed(t)

(* LateResultsDropped: the results of the gather are put into the table. *)
DrainedAndSettled ==
  /\ pc = "drain"
  /\ Running = Done
  /\ status' = [t \in Tasks |-> IF handle[t] = "ok" THEN "completed" ELSE status[t]]
  /\ handle' = [t \in Tasks |-> "none"]
  /\ pc' = "ended"
  /\ UNCHANGED <<graph, attempts, cancelled, failedHard, store>>

(* asyncio.gather over the cancelled handles returns; their results are    *)
(* dropped.                                                                *)
Drained ==
  /\ pc = "drain"
  /\ Running = Done
  /\ handle' = [t \in Tasks |-> "none"]
  /\ pc' = "ended"
  /\ UNCHANGED <<graph, status, attempts, cancelled, failedHard, store>>
-----------------------------------------------------------------------------
(* The runners, while the engine awaits. *)
Awaiting == pc \in {"wait", "drain"}

RunnerEnds(t, how) ==
  /\ Awaiting
  /\ handle[t] = "active"
  /\ how = "aborted" => StrayCancel
  /\ handle' = [handle EXCEPT ![t] = how]
  /\ UNCHANGED <<graph, status, attempts, pc, cancelled, failedHard, store>>

(***************************************************************************)
(* The delivery of handle.cancel().  The CancelledError normally unwinds   *)
(* the runner.  NativeBackend.execute catches it and returns a failed      *)
(* result instead, and where asyncio.wait_for awaits it in the same task   *)
(* (Python 3.12 on) the runner then goes on with its repair loop.          *)
(***************************************************************************)
RunnerUnwinds(t) ==
  /\ Awaiting
  /\ handle[t] = "cancelling"
  /\ handle' = [handle EXCEPT ![t] = "aborted"]
  /\ UNCHANGED <<graph, status, attempts, pc, cancelled, failedHard, store>>

RunnerSwallows(t) ==
  /\ SwallowsCancel
  /\ Awaiting
  /\ handle[t] = "cancelling"
  /\ handle' = [handle EXCEPT ![t] = "active"]
  /\ UNCHANGED <<graph, status, attempts, pc, cancelled, failedHard, store>>

(* The dependencies after t has been split: the subtasks are chained, the  *)
(* first takes over those of t, and what depended on t depends on the      *)
(* second.                                                                 *)
Rewired(t, s1, s2) ==
  [u \in Tasks |->
     IF u = s1 THEN deps[t]
     ELSE IF u = s2 THEN {s1}
     ELSE IF u \in DependentsOf(nodes, deps, t) THEN (deps[u] \ {t}) \cup {s2}
     ELSE deps[u]]

(***************************************************************************)
(* The REPLAN repair: Planner.replan splits t into two chained subtasks,   *)
(* the first with t's dependencies, and add_tasks makes the tasks that     *)
(* depended on t depend on the second one, reviving those already          *)
(* CANCELLED.  No await separates this from the end of the runner, whose   *)
(* result is "ok".  Nothing is saved here.  Bound: two spare ids.          *)
(***************************************************************************)
Replan(t, s1, s2) ==
  LET outer == DependentsOf(nodes, deps, t)
      revived == {u \in outer : status[u] = "cancelled"}
  IN  /\ Awaiting
      /\ handle[t] = "active"
      /\ depth[t] = 0
      /\ {s1, s2} \cap nodes = {}
      /\ s1 # s2
      /\ nodes' = nodes \cup {s1, s2}
      /\ deps' = Rewired(t, s1, s2)
      /\ status' = [u \in Tasks |-> IF u \in {s1, s2} \cup revived THEN "queued" ELSE status[u]]
      /\ attempts' = [u \in Tasks |-> IF u \in {s1, s2} THEN 0 ELSE attempts[u]]
      /\ prio' = [u \in Tasks |-> IF u \in {s1, s2} THEN prio[t] ELSE prio[u]]
      /\ depth' = [u \in Tasks |-> IF u \in {s1, s2} THEN 1 ELSE depth[u]]
      /\ finalizers' = finalizers \ {s1, s2}
      /\ handle' = [handle EXCEPT ![t] = IF ValidGraph(nodes', deps') THEN "ok" ELSE "failed"]
      /\ UNCHANGED <<pc, cancelled, failedHard, store>>

(* A terminated run stays as it is. *)
Finished == pc \in {"ended", "rejected"} /\ UNCHANGED vars

Engine ==
  \/ \E L \in SUBSET Ready : Launch(L)
  \/ StopRun
  \/ \E t \in Tasks : Settle(t)
  \/ Drained

Runner(t) ==
  \/ \E how \in Ended : RunnerEnds(t, how)
  \/ RunnerUnwinds(t)
  \/ RunnerSwallows(t)
  \/ \E s1, s2 \in Tasks : Replan(t, s1, s2)

Next ==
  \/ Execute(FALSE)
  \/ Engine
  \/ \E t \in Tasks : Runner(t)
  \/ Cancel
  \/ Finished

Spec == Init /\ [][Next]_vars

(***************************************************************************)
(* The event loop keeps running the engine, and every runner ends: its     *)
(* backend call is under asyncio.wait_for and its repair loop is bounded   *)
(* (RepairLoop).  Nobody is obliged to cancel.                             *)
(***************************************************************************)
Fairness ==
  /\ WF_vars(Execute(FALSE) \/ Engine)
  /\ \A t \in Tasks : WF_vars(Runner(t))

FairSpec == Spec /\ Fairness
-----------------------------------------------------------------------------
(* A task has been let through the dependency check of this run. *)
Entered(t) == status[t] \in {"running", "completed"} \/ handle[t] # "none"

(***************************************************************************)
(* No task runs, or has completed, unless everything it depends on has     *)
(* completed -- with the dependencies it has now, after any REPLAN has     *)
(* rewired them under the engine's feet.  Finalizers are exempt.           *)
(***************************************************************************)
UpstreamCompleted ==
  \A t \in nodes \ finalizers :
    Entered(t) => \A d \in deps[t] : status[d] = "completed"

(***************************************************************************)
(* "running" and the RUNNING statuses never disagree while the loop goes   *)
(* on, and there are never more handles than max_concurrency: the          *)
(* semaphore _run_one takes could not block.                               *)
(***************************************************************************)
HandlesAgree ==
  /\ pc # "drain" => Running = {t \in Tasks : status[t] = "running"}
  /\ Cardinality(Running) <= Slots

(***************************************************************************)
(* validate_graph is called before the run and again by add_tasks; the     *)
(* second call can never fail, because splitting a running task and        *)
(* rewiring its dependents keeps a valid graph valid.                      *)
(***************************************************************************)
GraphStaysValid ==
  pc \notin {"idle", "rejected"} => nodes # {} /\ ValidGraph(nodes, deps)

(***************************************************************************)
(* The inductive invariant behind the three properties above.  Its middle  *)
(* part says which ids have which status and when, and that the handles    *)
(* which outlive the loop belong to tasks that cannot come to an end.      *)
(***************************************************************************)
Bookkeeping ==
  /\ \A t \in Tasks : status[t] = "absent" <=> t \notin nodes
  /\ Running \subseteq nodes
  /\ pc \in {"idle", "rejected"} => \A t \in nodes : status[t] = "queued"
  /\ pc = "drain" => \A t \in Tasks : /\ status[t] # "running"
                                      /\ handle[t] # "none" => status[t] # "completed"

EngineInv ==
  /\ TypeOK
  /\ Bookkeeping
  /\ HandlesAgree
  /\ GraphStaysValid
  /\ UpstreamCompleted

(* A task is started at most once per run, however it is rewired, cancelled *)
(* or revived: repairs happen inside one start.                             *)
StartedOnce == \A t \in Tasks : attempts[t] <= 1

(***************************************************************************)
(* No lost wake-up: while the engine sleeps with nothing to collect, a     *)
(* ready task waits only because every slot is taken; and a run that ends  *)
(* by itself leaves no task that could have been started.                  *)
(***************************************************************************)
NoIdleSlot ==
  /\ pc = "wait" /\ Done = {} => Ready = {} \/ Cardinality(Running) = Slots
  /\ pc = "ended" /\ ~cancelled /\ ~failedHard => Ready = {}

(***************************************************************************)
(* When a run ends, every task with a terminal status has been saved with  *)
(* it, and with the dependencies it had in the end.  A finalizer that had  *)
(* counted a CANCELLED task as settled is excepted from the latter: that   *)
(* task may come back and be split after the finalizer was saved.  (No     *)
(* save fails, no runner is cancelled from outside: that status is never   *)
(* saved.)                                                                 *)
(***************************************************************************)
StoreCurrent ==
  pc = "ended" =>
    \A t \in nodes : status[t] \in Terminal =>
      /\ store[t].status = status[t] /\ store[t].attempts = attempts[t]
      /\ t \notin finalizers => store[t].deps = deps[t]

(***************************************************************************)
(* A result is final, and once the run is being stopped the result of a    *)
(* runner that ends late, having swallowed its cancellation, changes       *)
(* nothing: no CANCELLED task becomes COMPLETED or FAILED behind the       *)
(* caller's back.                                                          *)
(***************************************************************************)
LateResultsDropped ==
  [][\A t \in Tasks :
       /\ status[t] \in {"completed", "failed"} => status'[t] = status[t]
       /\ pc \in {"drain", "ended"} /\ status[t] \notin {"completed", "failed"} =>
            status'[t] \notin {"running", "completed", "failed"}]_vars

(* Every run ends, whatever fails, replans or is cancelled. *)
RunTerminates == <>(pc \in {"ended", "rejected"})
=============================================================================
