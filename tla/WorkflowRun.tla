----------------------------- MODULE WorkflowRun -----------------------------
(***************************************************************************)
(* One workflow through Orchestrator.run, cancel and resume of             *)
(* airvis/orchestration/orchestrator.py: planning, the hand-over to        *)
(* DAGEngine, the verdict -- and the death of the process at any moment,   *)
(* after which only the rows of StateStore are left to resume from.        *)
(***************************************************************************)
EXTENDS DagEngine

CONSTANTS
  MaxResumes,  \* bound: how often the caller resumes
  MaxCrashes,  \* bound: how often the process dies
  MinTenths    \* ReviewConfig.min_score, in tenths

ASSUME WorkflowAssumption ==
  /\ MaxResumes \in Nat
  /\ MaxCrashes \in Nat
  /\ MinTenths \in 0..10

VARIABLES
  phase,        \* where run() or resume() is; "down" when no process is left
  resumed,      \* is the current call resume() rather than run()?
  wfCancelled,  \* is the workflow in Orchestrator._cancelled?
  doomed,       \* wfCancelled as every runner of this execution first finds it
  record,       \* the status column of the workflow's row
  into,         \* result.metadata["replanned_into"]
  drawn,        \* the ids ever generated (a uuid is never generated twice)
  resumes, crashes

wfVars == <<phase, resumed, wfCancelled, doomed, record, into, drawn, resumes, crashes>>
allVars == <<vars, wfVars>>

WfTypeOK ==
  /\ TypeOK
  /\ phase \in {"new", "planning", "executing", "returned", "raised", "down"}
  /\ resumed \in BOOLEAN /\ wfCancelled \in BOOLEAN /\ doomed \in BOOLEAN
  /\ record \in {"none", "created", "running", "completed", "failed", "cancelled"}
  /\ into \in [Tasks -> SUBSET Tasks]
  /\ drawn \subseteq Tasks
  /\ resumes \in 0..MaxResumes
  /\ crashes \in 0..MaxCrashes

NoRow == Row("absent", {}, 0)

WfInit ==
  /\ nodes = {}
  /\ deps = [t \in Tasks |-> {}]
  /\ finalizers = {}
  /\ prio = [t \in Tasks |-> 0]
  /\ depth = [t \in Tasks |-> 0]
  /\ status = [t \in Tasks |-> "absent"]
  /\ attempts = [t \in Tasks |-> 0]
  /\ handle = [t \in Tasks |-> "none"]
  /\ pc = "idle"
  /\ cancelled = FALSE /\ failedHard = FALSE
  /\ store = [t \in Tasks |-> NoRow]
  /\ phase = "new"
  /\ resumed = FALSE /\ wfCancelled = FALSE /\ doomed = FALSE
  /\ record = "none"
  /\ into = [t \in Tasks |-> {}]
  /\ drawn = {}
  /\ resumes = 0 /\ crashes = 0
-----------------------------------------------------------------------------
(* run() up to the await of the planner. *)
StartRun ==
  /\ phase = "new"
  /\ phase' = "planning"
  /\ wfCancelled' = FALSE
  /\ record' = "created"
  /\ UNCHANGED <<vars, resumed, doomed, into, drawn, resumes, crashes>>

(* The planner returns a plan, whose tasks  saved  _persist_workflow gets  *)
(* to save.                                                                *)
Planned(p, saved) ==
  /\ phase = "planning"
  /\ record' = "running"
  /\ finalizers' = p.finalizers
  /\ prio' = p.prio
  /\ store' = [t \in Tasks |-> IF t \in saved THEN Row("queued", p.deps[t], 0) ELSE NoRow]
  /\ drawn' = p.nodes

PlanReady(p) ==
  /\ Planned(p, p.nodes)
  /\ phase' = "executing"
  /\ nodes' = p.nodes
  /\ deps' = p.deps
  /\ status' = [t \in Tasks |-> IF t \in p.nodes THEN "queued" ELSE "absent"]
  /\ UNCHANGED <<depth, attempts, handle, pc, cancelled, failedHard,
                 resumed, wfCancelled, doomed, into, resumes, crashes>>

PlanFails ==
  /\ phase = "planning"
  /\ phase' = "returned"
  /\ record' = "failed"
  /\ UNCHANGED <<vars, resumed, wfCancelled, doomed, into, drawn, resumes, crashes>>

(* The call of DAGEngine.execute. *)
Begin ==
  /\ phase = "executing"
  /\ Execute(resumed)
  /\ doomed' = wfCancelled
  /\ UNCHANGED <<phase, resumed, wfCancelled, record, into, drawn, resumes, crashes>>

(* CallReturns: the exception of execute() is forgotten. *)
RejectedOnResume ==
  /\ phase = "executing"
  /\ pc = "rejected"
  /\ resumed
  /\ phase' = "raised"
  /\ UNCHANGED <<vars, resumed, wfCancelled, doomed, record, into, drawn, resumes, crashes>>

(* An invalid graph: run() turns the exception into a failed result,       *)
(* resume() lets it through to its caller.                                 *)
Rejected ==
  /\ phase = "executing"
  /\ pc = "rejected"
  /\ IF resumed THEN phase' = "raised" /\ UNCHANGED record
                ELSE phase' = "returned" /\ record' = "failed"
  /\ UNCHANGED <<vars, resumed, wfCancelled, doomed, into, drawn, resumes, crashes>>

(***************************************************************************)
(* ReviewSystem.review_workflow: one failed task fails the workflow; tasks *)
(* that were cancelled, or never settled, only lower the ratio.            *)
(***************************************************************************)
With(st) == {t \in nodes : status[t] = st}

(* A mutant, like those below: RecordAgrees, the ratio alone decides. *)
RatioPasses == 10 * Cardinality(With("completed")) >= MinTenths * Cardinality(nodes)

ReviewPasses ==
  /\ 10 * Cardinality(With("completed")) >= MinTenths * Cardinality(nodes)
  /\ With("failed") = {}

Verdict ==
  IF ~resumed /\ wfCancelled THEN "cancelled"
  ELSE IF ReviewPasses THEN "completed" ELSE "failed"

Conclude ==
  /\ phase = "executing"
  /\ pc = "ended"
  /\ phase' = "returned"
  /\ record' = Verdict
  /\ UNCHANGED <<vars, resumed, wfCancelled, doomed, into, drawn, resumes, crashes>>

(* CancelNeverLost: the engine is told only while it sleeps. *)
CancelSleeper ==
  /\ phase \notin {"new", "down"}
  /\ wfCancelled' = TRUE
  /\ IF pc = "wait" /\ ~cancelled THEN Cancel ELSE UNCHANGED vars
  /\ UNCHANGED <<phase, resumed, doomed, record, into, drawn, resumes, crashes>>

(* Orchestrator.cancel, which reaches DAGEngine.cancel only when the run   *)
(* is registered there; it may be called again, and then it tells the      *)
(* engine again.                                                           *)
CancelWorkflow ==
  /\ phase \notin {"new", "down"}
  /\ wfCancelled' = TRUE
  /\ IF pc \notin {"idle", "rejected"} /\ ~cancelled THEN Cancel ELSE UNCHANGED vars
  /\ UNCHANGED <<phase, resumed, doomed, record, into, drawn, resumes, crashes>>

(***************************************************************************)
(* resume(): the tasks are rebuilt from their rows, in this process or in  *)
(* a later one; a replan result is there exactly if its task was saved     *)
(* COMPLETED.  Without any task row it raises.                             *)
(***************************************************************************)
Stored == {t \in Tasks : store[t].status # "absent"}

Resume ==
  /\ phase \in {"returned", "raised", "down"}
  /\ resumes < MaxResumes
  /\ resumes' = resumes + 1
  /\ resumed' = TRUE
  /\ IF Stored = {} THEN phase' = "raised" ELSE phase' = "executing"
  /\ nodes' = Stored
  /\ deps' = [t \in Tasks |-> store[t].deps]
  /\ status' = [t \in Tasks |-> store[t].status]
  /\ attempts' = [t \in Tasks |-> store[t].attempts]
  /\ handle' = [t \in Tasks |-> "none"]
  /\ pc' = "idle"
  /\ cancelled' = FALSE
  /\ failedHard' = FALSE
  /\ into' = [t \in Tasks |-> IF store[t].status = "completed" THEN into[t] ELSE {}]
  /\ UNCHANGED <<finalizers, prio, depth, store, wfCancelled, doomed, record, drawn, crashes>>

(***************************************************************************)
(* The process dies.  Fields of a task that never change once it exists    *)
(* (finalizer, priority, replan depth) are left in place for the resume to *)
(* find.                                                                   *)
(***************************************************************************)
Die ==
  /\ phase \notin {"new", "down"}
  /\ crashes < MaxCrashes
  /\ crashes' = crashes + 1
  /\ phase' = "down"
  /\ nodes' = {}
  /\ deps' = [t \in Tasks |-> {}]
  /\ status' = [t \in Tasks |-> "absent"]
  /\ attempts' = [t \in Tasks |-> 0]
  /\ handle' = [t \in Tasks |-> "none"]
  /\ pc' = "idle"
  /\ cancelled' = FALSE
  /\ failedHard' = FALSE
  /\ wfCancelled' = FALSE
  /\ UNCHANGED <<finalizers, prio, depth, resumed, doomed, record, into, drawn, resumes>>

Crash == Die /\ UNCHANGED store

(***************************************************************************)
(* The process dies between two rows of one pass of _cancel_dependents,    *)
(* which works its way down from a task already saved as FAILED, or of     *)
(* _cancel_remaining.  Every row is a transaction of its own.              *)
(***************************************************************************)
SavedOf(S, st) ==
  [u \in Tasks |-> IF u \in S THEN Row(st, deps[u], attempts[u]) ELSE store[u]]

CrashInDependents(t, S) ==
  /\ pc \in {"wait", "settle"}
  /\ handle[t] = "failed"
  /\ CancelDependents
  /\ S # Doomed(t)
  /\ \A u \in S : deps[u] \cap (S \cup {t}) # {}
  /\ store' = [SavedOf(S, "cancelled") EXCEPT ![t] = Row("failed", deps[t], attempts[t])]
  /\ Die

CrashInRemaining(S) ==
  /\ pc = "top"
  /\ cancelled \/ failedHard
  /\ S # Unfinished
  /\ store' = SavedOf(S, "cancelled")
  /\ Die

CrashBetweenRows ==
  /\ phase = "executing"
  /\ \/ \E t \in Tasks : \E S \in SUBSET Doomed(t) : CrashInDependents(t, S)
     \/ \E S \in SUBSET Unfinished : CrashInRemaining(S)

(* The process dies while the plan is saved, which an LLM may have listed  *)
(* in any order: a task may be there without what it depends on, and then  *)
(* a resume is turned away.                                                *)
CrashWhileSaving(p, saved) ==
  /\ crashes < MaxCrashes
  /\ crashes' = crashes + 1
  /\ Planned(p, saved)
  /\ phase' = "down"
  /\ wfCancelled' = FALSE
  /\ UNCHANGED <<nodes, deps, depth, status, attempts, handle, pc, cancelled, failedHard,
                 resumed, doomed, into, resumes>>

(* The saves of run() are not guarded: when one raises, so does the call,  *)
(* with what was saved before it left in place.                            *)
PlanUnsaved(p, saved) ==
  /\ StoreFails
  /\ Planned(p, saved)
  /\ phase' = "raised"
  /\ UNCHANGED <<nodes, deps, depth, status, attempts, handle, pc, cancelled, failedHard,
                 resumed, wfCancelled, doomed, into, resumes, crashes>>

VerdictUnsaved ==
  /\ StoreFails
  /\ phase = "executing"
  /\ pc = "ended"
  /\ phase' = "raised"
  /\ UNCHANGED <<vars, resumed, wfCancelled, doomed, record, into, drawn, resumes, crashes>>

(* The engine and the runners, during the await of execute().              *)
EngineStep ==
  /\ phase = "executing"
  /\ Engine
  /\ UNCHANGED wfVars

(***************************************************************************)
(* A runner first looks into _cancelled.  Once the run is registered       *)
(* cancel() also sets DAGRun.cancelled, which stops further launches; so   *)
(* the runners that find the workflow cancelled on arrival are those of an *)
(* execution that began when it already was.  They raise at once.          *)
(***************************************************************************)
RunnerStep(t) ==
  /\ phase = "executing"
  /\ \/ /\ \E how \in Ended : (doomed => how = "failed") /\ RunnerEnds(t, how)
        /\ UNCHANGED wfVars
     \/ /\ RunnerUnwinds(t) \/ RunnerSwallows(t)
        /\ UNCHANGED wfVars
     \/ \E s1, s2 \in Tasks \ drawn :
          /\ ~doomed
          /\ Replan(t, s1, s2)
          /\ into' = [into EXCEPT ![t] = {s1, s2}]
          /\ drawn' = drawn \cup {s1, s2}
          /\ UNCHANGED <<phase, resumed, wfCancelled, doomed, record, resumes, crashes>>

Rest == phase \in {"returned", "raised", "down"} /\ UNCHANGED allVars

Call ==
  \/ StartRun
  \/ \E p \in Plans : PlanReady(p)
  \/ PlanFails
  \/ Begin
  \/ Rejected
  \/ Conclude
  \/ VerdictUnsaved
  \/ EngineStep

WfNext ==
  \/ Call
  \/ \E t \in Tasks : RunnerStep(t)
  \/ CancelWorkflow
  \/ Resume
  \/ Crash
  \/ CrashBetweenRows
  \/ \E p \in Plans : \E saved \in SUBSET p.nodes : CrashWhileSaving(p, saved) \/ PlanUnsaved(p, saved)
  \/ Rest

WfSpec == WfInit /\ [][WfNext]_allVars

(* A process that lives keeps its call going and its runners end; nobody   *)
(* has to cancel, to crash or to resume.                                   *)
WfFairness ==
  /\ WF_allVars(Call)
  /\ \A t \in Tasks : WF_allVars(RunnerStep(t))

WfFairSpec == WfSpec /\ WfFairness

-----------------------------------------------------------------------------
(***************************************************************************)
(* No cancellation falls between the two objects that keep one: when a     *)
(* cancelled workflow is executing, either the engine's loop will see the  *)
(* flag at its next turn, or every runner refuses to work on arrival.      *)
(***************************************************************************)
CancelNeverLost ==
  phase = "executing" /\ wfCancelled /\ pc \notin {"idle", "rejected"} => cancelled \/ doomed

(***************************************************************************)
(* Progress is durable: once a task is saved COMPLETED its row is never    *)
(* overwritten, and the task is never started again, by whatever sequence  *)
(* of failures, cancellations, crashes and resumes ("resume skips          *)
(* completed tasks", test_dag_review_repair.py:164).                       *)
(***************************************************************************)
DurableProgress ==
  [][\A t \in Tasks : store[t].status = "completed" =>
       /\ store'[t] = store[t]
       /\ status[t] # "running" => status'[t] # "running"]_allVars

(***************************************************************************)
(* A call that comes back with the workflow COMPLETED leaves no task saved *)
(* as FAILED: the verdict, computed from the tasks in memory, agrees with  *)
(* the rows a later resume will read, which were written one by one.       *)
(* Finalizers are excepted: one that failed in an earlier call may wait    *)
(* for ever, after a resume, behind a task that a REPLAN revived, and      *)
(* then counts as unsettled in memory while its row still says FAILED.     *)
(* Without finalizers a resume of a COMPLETED workflow starts nothing, so  *)
(* that this stays true while it is at work and after its crash.  (No save *)
(* fails, no runner is cancelled from outside.)                            *)
(***************************************************************************)
RecordAgrees ==
  record = "completed" /\ (phase = "returned" \/ finalizers = {}) =>
    \A t \in Tasks \ finalizers : store[t].status # "failed"

(* run() and resume() come back to their caller, or the process is dead. *)
CallReturns ==
  phase \in {"planning", "executing"} ~> phase \in {"returned", "raised", "down"}

(* A task that was replanned counts as done only when the subtasks that    *)
(* replaced it are: no ordinary task runs on top of one whose subtasks     *)
(* never ran.                                                              *)
ReplannedWorkDone ==
  \A t \in nodes \ finalizers : status[t] = "running" =>
    \A u \in deps[t] : \A s \in into[u] : status[s] = "completed"
=============================================================================
