-------------------------- MODULE WorkflowRunProofs --------------------------
(***************************************************************************)
(* WorkflowRun, for every plan, every configuration and any number of      *)
(* crashes and resumes: no cancellation is lost between the orchestrator   *)
(* and the engine, what is saved as COMPLETED stays so, no task counts as  *)
(* done on top of work that was not, and a verdict COMPLETED hides no row  *)
(* of an ordinary task that says FAILED.                                   *)
(***************************************************************************)
EXTENDS WorkflowRun, DagEngineProofs

(* The engine's part of a step of a workflow.                              *)
LEMMA WfStepCases ==
  ASSUME [WfNext]_allVars
  PROVE  \/ StartRun \/ \E p \in Plans : PlanReady(p)
         \/ PlanFails \/ Begin \/ Rejected \/ Conclude \/ VerdictUnsaved
         \/ EngineStep
         \/ \E t \in Tasks : RunnerStep(t)
         \/ CancelWorkflow \/ Resume \/ Crash \/ CrashBetweenRows
         \/ \E p \in Plans : \E saved \in SUBSET p.nodes :
              CrashWhileSaving(p, saved) \/ PlanUnsaved(p, saved)
         \/ UNCHANGED allVars
  BY DEF WfNext, Call, Rest

(* What a process that dies within a pass of saves has changed.            *)
LEMMA RowsCutShort ==
  ASSUME TypeOK, CrashBetweenRows
  PROVE  /\ phase = "executing" /\ pc \in {"top", "wait", "settle"} /\ Die
         /\ store' \in [Tasks -> [status: Status \cup {"absent"}, deps: SUBSET Tasks, attempts: Nat]]
         /\ \A t \in Tasks :
              \/ store'[t] = store[t]
              \/ /\ store'[t].status = "cancelled" /\ store'[t].deps = deps[t]
                 /\ t \in nodes /\ status[t] \notin Terminal
              \/ /\ store'[t].status = "failed" /\ store'[t].deps = deps[t]
                 /\ handle[t] = "failed" /\ pc # "top"
<1> DEFINE Rows == [status: Status \cup {"absent"}, deps: SUBSET Tasks, attempts: Nat]
<1>1. \A t \in Tasks : \A st \in Terminal : /\ Row(st, deps[t], attempts[t]) \in Rows
                                            /\ Row(st, deps[t], attempts[t]).status = st
                                            /\ Row(st, deps[t], attempts[t]).deps = deps[t]
  BY DEF TypeOK, Row, Status
<1>2. \A t \in Tasks : store[t] \in Rows
  BY DEF TypeOK
<1> HIDE DEF Rows
<1>3. ASSUME NEW u \in Tasks, NEW S, S \in SUBSET Doomed(u), CrashInDependents(u, S)
      PROVE  /\ pc \in {"wait", "settle"} /\ handle[u] = "failed" /\ Die
             /\ store' = [t \in Tasks |-> IF t = u THEN Row("failed", deps[t], attempts[t])
                                          ELSE IF t \in S THEN Row("cancelled", deps[t], attempts[t])
                                          ELSE store[t]]
             /\ \A t \in S : t \in nodes /\ status[t] \notin Terminal
  BY <1>3 DEF CrashInDependents, SavedOf, Doomed, Downstream
<1>4. ASSUME NEW S \in SUBSET Unfinished, CrashInRemaining(S)
      PROVE  /\ pc = "top" /\ Die
             /\ store' = [t \in Tasks |-> IF t \in S THEN Row("cancelled", deps[t], attempts[t])
                                          ELSE store[t]]
             /\ \A t \in S : t \in nodes /\ status[t] \notin Terminal
  BY <1>4 DEF CrashInRemaining, SavedOf, Unfinished
<1>5. phase = "executing"
  BY DEF CrashBetweenRows
<1>6. {"failed", "cancelled"} \subseteq Terminal
  BY DEF Terminal
<1>7. CASE \E u \in Tasks : \E S \in SUBSET Doomed(u) : CrashInDependents(u, S)
  <2>0. PICK u \in Tasks : \E S \in SUBSET Doomed(u) : CrashInDependents(u, S)
    BY <1>7
  <2>1. PICK S \in SUBSET Doomed(u) : CrashInDependents(u, S)
    BY <2>0
  <2>2. store' \in [Tasks -> Rows]
    BY <1>1, <1>2, <1>3, <1>6, <2>1
  <2> QED
    BY <1>1, <1>3, <1>5, <1>6, <2>1, <2>2 DEF Rows
<1>8. CASE \E S \in SUBSET Unfinished : CrashInRemaining(S)
  <2>1. PICK S \in SUBSET Unfinished : CrashInRemaining(S)
    BY <1>8
  <2>2. store' \in [Tasks -> Rows]
    BY <1>1, <1>2, <1>4, <1>6, <2>1
  <2> QED
    BY <1>1, <1>4, <1>5, <1>6, <2>1, <2>2 DEF Rows
<1> QED
  BY <1>7, <1>8 DEF CrashBetweenRows

(* The plan handed over, whatever part of it is saved.                     *)
LEMMA PlannedType ==
  ASSUME NEW p \in Plans, NEW saved \in SUBSET p.nodes, Planned(p, saved)
  PROVE  /\ finalizers' \subseteq Tasks /\ prio' \in [Tasks -> Nat]
         /\ store' \in [Tasks -> [status: Status \cup {"absent"}, deps: SUBSET Tasks, attempts: Nat]]
         /\ p.nodes \subseteq Tasks /\ p.deps \in [Tasks -> SUBSET Tasks]
         /\ \A t \in Tasks : store'[t].status \in {"queued", "absent"}
         /\ \A t \in Tasks : store'[t].status # "absent" => t \in p.nodes
<1>1. p.nodes \subseteq Tasks /\ p.deps \in [Tasks -> SUBSET Tasks]
      /\ p.finalizers \subseteq Tasks /\ p.prio \in [Tasks -> Nat]
  BY PlansAssumption DEF Plan
<1>2. store' = [t \in Tasks |-> IF t \in saved THEN Row("queued", p.deps[t], 0) ELSE NoRow]
  BY DEF Planned
<1>3. \A t \in Tasks : /\ Row("queued", p.deps[t], 0) \in [status: Status \cup {"absent"}, deps: SUBSET Tasks, attempts: Nat]
                       /\ Row("queued", p.deps[t], 0).status = "queued"
  BY <1>1 DEF Row, Status
<1>4. NoRow \in [status: Status \cup {"absent"}, deps: SUBSET Tasks, attempts: Nat]
      /\ NoRow.status = "absent"
  BY DEF NoRow, Row
<1> QED
  BY <1>1, <1>2, <1>3, <1>4 DEF Planned

(* The engine's variables keep their types also across crash and resume.   *)
LEMMA WfTypeStep ==
  ASSUME TypeOK, [WfNext]_allVars
  PROVE  TypeOK'
<1> USE DEF TypeOK, graph, vars
<1>1. ASSUME UNCHANGED vars
      PROVE  TypeOK'
  BY <1>1
<1>2. CASE StartRun \/ PlanFails \/ Rejected \/ Conclude \/ VerdictUnsaved
  BY <1>1, <1>2 DEF StartRun, PlanFails, Rejected, Conclude, VerdictUnsaved
<1>3. ASSUME NEW p \in Plans, PlanReady(p)
      PROVE  TypeOK'
  <2>1. Planned(p, p.nodes)
    BY <1>3 DEF PlanReady
  <2>2. status' \in [Tasks -> Status \cup {"absent"}]
    BY <1>3 DEF PlanReady, Status
  <2>3. /\ nodes' \subseteq Tasks /\ deps' \in [Tasks -> SUBSET Tasks]
        /\ UNCHANGED <<depth, attempts, handle, pc, cancelled, failedHard>>
    BY <1>3, <2>1, PlannedType DEF PlanReady
  <2> QED
    BY <2>1, <2>2, <2>3, PlannedType
<1>4. CASE Begin
  <2>1. status' \in [Tasks -> Status \cup {"absent"}]
    BY <1>4 DEF Begin, Execute, AfterPrologue, Status
  <2> QED
    BY <1>4, <2>1 DEF Begin, Execute
<1>5. CASE EngineStep
  BY <1>5, TypeStep DEF EngineStep, Next
<1>6. ASSUME NEW t \in Tasks, RunnerStep(t)
      PROVE  TypeOK'
  BY <1>6, TypeStep DEF RunnerStep, Next, Runner
<1>7. CASE CancelWorkflow
  BY <1>1, <1>7, TypeStep DEF CancelWorkflow, Next
<1>8. CASE Resume
  <2>1. /\ deps' = [t \in Tasks |-> store[t].deps]
        /\ status' = [t \in Tasks |-> store[t].status]
        /\ attempts' = [t \in Tasks |-> store[t].attempts]
        /\ nodes' = Stored
    BY <1>8 DEF Resume
  <2>2. /\ deps' \in [Tasks -> SUBSET Tasks] /\ status' \in [Tasks -> Status \cup {"absent"}]
        /\ attempts' \in [Tasks -> Nat] /\ nodes' \subseteq Tasks
    BY <2>1 DEF Stored
  <2> QED
    BY <1>8, <2>2 DEF Resume
<1>9. CASE Crash \/ CrashBetweenRows
  <2>1. Die
    BY <1>9, RowsCutShort DEF Crash
  <2>2. store' \in [Tasks -> [status: Status \cup {"absent"}, deps: SUBSET Tasks, attempts: Nat]]
    BY <1>9, RowsCutShort DEF Crash
  <2>3. status' \in [Tasks -> Status \cup {"absent"}]
    BY <2>1 DEF Die
  <2> QED
    BY <2>1, <2>2, <2>3 DEF Die
<1>10. ASSUME NEW p \in Plans, NEW saved \in SUBSET p.nodes,
              CrashWhileSaving(p, saved) \/ PlanUnsaved(p, saved)
       PROVE  TypeOK'
  <2>1. Planned(p, saved)
    BY <1>10 DEF CrashWhileSaving, PlanUnsaved
  <2>2. UNCHANGED <<nodes, deps, depth, status, attempts, handle, pc, cancelled, failedHard>>
    BY <1>10 DEF CrashWhileSaving, PlanUnsaved
  <2> QED
    BY <2>1, <2>2, PlannedType
<1>11. ASSUME UNCHANGED allVars
       PROVE  TypeOK'
  BY <1>1, <1>11 DEF allVars
<1> QED
  BY WfStepCases, <1>2, <1>3, <1>4, <1>5, <1>6, <1>7, <1>8, <1>9, <1>10, <1>11

LEMMA WfTypeInit ==
  ASSUME WfInit
  PROVE  TypeOK
<1>1. /\ store \in [Tasks -> [status: Status \cup {"absent"}, deps: SUBSET Tasks, attempts: Nat]]
      /\ status \in [Tasks -> Status \cup {"absent"}]
  BY DEF WfInit, NoRow, Row
<1>2. /\ nodes \subseteq Tasks /\ deps \in [Tasks -> SUBSET Tasks]
      /\ finalizers \subseteq Tasks /\ prio \in [Tasks -> Nat] /\ depth \in [Tasks -> 0..1]
  BY DEF WfInit
<1>3. /\ attempts \in [Tasks -> Nat]
      /\ handle \in [Tasks -> {"none", "active", "cancelling"} \cup Ended]
      /\ pc = "idle" /\ cancelled \in BOOLEAN /\ failedHard \in BOOLEAN
  BY DEF WfInit
<1> QED
  BY <1>1, <1>2, <1>3 DEF TypeOK
-----------------------------------------------------------------------------
(* CancelNeverLost is inductive once it is known that the engine has not   *)
(* been called before there is a plan.                                     *)
CancelInv ==
  /\ phase \in {"new", "planning"} => pc = "idle"
  /\ CancelNeverLost

LEMMA CancelStep ==
  ASSUME CancelInv, [WfNext]_allVars
  PROVE  CancelInv'
<1> USE DEF CancelInv, CancelNeverLost
<1>1. CASE StartRun \/ PlanFails \/ Rejected \/ Conclude \/ VerdictUnsaved
  BY <1>1 DEF StartRun, PlanFails, Rejected, Conclude, VerdictUnsaved, vars
<1>2. ASSUME NEW p \in Plans, PlanReady(p)
      PROVE  CancelInv'
  BY <1>2 DEF PlanReady, Planned
<1>3. CASE Begin
  BY <1>3 DEF Begin, Execute
<1>4. CASE EngineStep
  BY <1>4 DEF EngineStep, Engine, Launch, StopRun, CancelRemaining, Settle, Drained, wfVars
<1>5. ASSUME NEW t \in Tasks, RunnerStep(t)
      PROVE  CancelInv'
  BY <1>5 DEF RunnerStep, RunnerEnds, RunnerUnwinds, RunnerSwallows, Replan, wfVars
<1>6. CASE CancelWorkflow
  BY <1>6 DEF CancelWorkflow, Cancel, vars
<1>7. CASE Resume \/ Crash \/ CrashBetweenRows
  BY <1>7 DEF Resume, Crash, CrashBetweenRows, CrashInDependents, CrashInRemaining, Die
<1>8. ASSUME NEW p \in Plans, NEW saved \in SUBSET p.nodes,
             CrashWhileSaving(p, saved) \/ PlanUnsaved(p, saved)
      PROVE  CancelInv'
  BY <1>8 DEF CrashWhileSaving, PlanUnsaved, Planned
<1>9. ASSUME UNCHANGED allVars
      PROVE  CancelInv'
  BY <1>9 DEF allVars, wfVars, vars
<1> QED
  BY WfStepCases, <1>1, <1>2, <1>3, <1>4, <1>5, <1>6, <1>7, <1>8, <1>9

(* No cancel() falls between Orchestrator._cancelled and DAGRun.cancelled. *)
THEOREM CancelNeverFallsBetween == WfSpec => []CancelNeverLost
<1>1. WfInit => CancelInv
  BY DEF WfInit, CancelInv, CancelNeverLost
<1>2. CancelInv /\ [WfNext]_allVars => CancelInv'
  BY CancelStep
<1>3. CancelInv => CancelNeverLost
  BY DEF CancelInv
<1> QED
  BY <1>1, <1>2, <1>3, PTL DEF WfSpec
-----------------------------------------------------------------------------
(***************************************************************************)
(* Why a row saved COMPLETED is never overwritten: while a process lives   *)
(* its task is COMPLETED in memory too and has no handle, no save touches  *)
(* such a task, and no id is ever drawn twice.                             *)
(***************************************************************************)
Saved(t) == store[t].status = "completed"

DurableInv ==
  /\ nodes \subseteq drawn
  /\ phase \in {"new", "planning"} => nodes = {}
  /\ \A t \in Tasks :
       /\ store[t].status # "absent" => t \in drawn
       /\ handle[t] # "none" => t \in nodes /\ status[t] # "completed"
       /\ Saved(t) => /\ phase \notin {"new", "planning"}
                      /\ phase = "executing" => status[t] = "completed"
                      /\ phase = "executing" /\ pc = "idle" => resumed

(* What a step keeps of a row that is saved COMPLETED.                     *)
RowKept ==
  \A t \in Tasks : Saved(t) =>
    /\ store'[t] = store[t]
    /\ status[t] # "running" => status'[t] # "running"
LEMMA PersistOnly ==
  ASSUME NEW S, Persist(S), NEW t \in Tasks
  PROVE  store'[t] = store[t] \/ (t \in S /\ store'[t].status = status'[t])
  BY DEF Persist, Row

LEMMA QuietDurable ==
  ASSUME DurableInv, UNCHANGED <<nodes, status, handle, pc, store, drawn, resumed>>,
         phase' = phase \/ phase' \in {"planning", "returned", "raised"},
         phase' = "planning" => phase \in {"new", "planning"}
  PROVE  DurableInv' /\ RowKept
  BY DEF DurableInv, RowKept, Saved

LEMMA DurableEngine ==
  ASSUME TypeOK, DurableInv, EngineStep
  PROVE  DurableInv' /\ RowKept
<1> USE DEF TypeOK, graph, wfVars
<1>0. phase = "executing" /\ UNCHANGED <<phase, drawn, resumed>>
  BY DEF EngineStep
<1>1. ASSUME NEW L \in SUBSET Ready, Launch(L)
      PROVE  DurableInv' /\ RowKept
  <2>1. /\ \A t \in Tasks : status'[t] = IF t \in L THEN "running" ELSE status[t]
        /\ \A t \in Tasks : handle'[t] = IF t \in L THEN "active" ELSE handle[t]
        /\ pc' # "idle" /\ UNCHANGED <<nodes, store>>
    BY <1>1 DEF Launch, AfterLaunch
  <2>2. \A t \in L : t \in nodes /\ status[t] = "queued"
    BY DEF Ready
  <2> QED
    BY <1>0, <2>1, <2>2 DEF DurableInv, RowKept, Saved
<1>2. CASE StopRun
  <2>1. /\ \A t \in Tasks : status'[t] = IF t \in Unfinished THEN "cancelled" ELSE status[t]
        /\ \A t \in Tasks : handle'[t] # "none" => handle[t] # "none"
        /\ pc' # "idle" /\ UNCHANGED nodes
    BY <1>2 DEF StopRun, CancelRemaining
  <2>2. \A t \in Tasks : store'[t] = store[t] \/ (t \in Unfinished /\ store'[t].status = status'[t])
    BY <1>2, PersistOnly DEF StopRun, CancelRemaining
  <2>3. \A t \in Unfinished : t \in nodes /\ status[t] # "completed"
    BY DEF Unfinished, Terminal
  <2> QED
    BY <1>0, <2>1, <2>2, <2>3 DEF DurableInv, RowKept, Saved
<1>3. ASSUME NEW t \in Tasks, Settle(t)
      PROVE  DurableInv' /\ RowKept
  <2>1. /\ handle[t] # "none" /\ \A u \in Tasks : handle'[u] = IF u = t THEN "none" ELSE handle[u]
        /\ pc' # "idle" /\ UNCHANGED nodes
    BY <1>3 DEF Settle, SettleAborted, SettleCompleted, SettleFailed
  <2>2. t \in nodes /\ status[t] # "completed"
    BY <2>1 DEF DurableInv
  <2>3. CASE SettleAborted(t)
    BY <1>0, <2>1, <2>2, <2>3 DEF SettleAborted, DurableInv, RowKept, Saved
  <2>4. CASE SettleCompleted(t)
    <3>1. \A u \in Tasks : store'[u] = store[u] \/ (u = t /\ store'[u].status = "completed")
      BY <2>4, PersistOnly DEF SettleCompleted
    <3>2. \A u \in Tasks : status'[u] = IF u = t THEN "completed" ELSE status[u]
      BY <2>4 DEF SettleCompleted
    <3> QED
      BY <1>0, <2>1, <2>2, <3>1, <3>2 DEF DurableInv, RowKept, Saved
  <2>5. CASE SettleFailed(t)
    <3>1. \A u \in Doomed(t) : u \in nodes /\ status[u] # "completed"
      BY DEF Doomed, Downstream, Terminal
    <3>2. PICK gone \in SUBSET Doomed(t) :
            /\ \A u \in Tasks : status'[u] = IF u = t THEN "failed"
                                             ELSE IF u \in gone THEN "cancelled" ELSE status[u]
            /\ \A u \in Tasks :
                 store'[u] = store[u] \/ (u \in {t} \cup gone /\ store'[u].status = status'[u])
      <4>1. CASE CancelDependents
        <5> WITNESS Doomed(t) \in SUBSET Doomed(t)
        <5> QED
          BY <2>5, <4>1, PersistOnly DEF SettleFailed
      <4>2. CASE ~CancelDependents
        <5> WITNESS {} \in SUBSET Doomed(t)
        <5> QED
          BY <2>5, <4>2, PersistOnly DEF SettleFailed
      <4> QED
        BY <4>1, <4>2
    <3> QED
      BY <1>0, <2>1, <2>2, <3>1, <3>2 DEF DurableInv, RowKept, Saved
  <2> QED
    BY <1>3, <2>3, <2>4, <2>5 DEF Settle
<1>4. CASE Drained
  BY <1>0, <1>4 DEF Drained, DurableInv, RowKept, Saved
<1> QED
  BY <1>1, <1>2, <1>3, <1>4 DEF EngineStep, Engine

LEMMA DurableRunner ==
  ASSUME TypeOK, DurableInv, NEW t \in Tasks, RunnerStep(t)
  PROVE  DurableInv' /\ RowKept
<1> USE DEF TypeOK, graph, wfVars
<1>1. CASE \E how \in Ended : RunnerEnds(t, how) /\ UNCHANGED wfVars
  BY <1>1 DEF RunnerEnds, DurableInv, RowKept, Saved
<1>2. CASE (RunnerUnwinds(t) \/ RunnerSwallows(t)) /\ UNCHANGED wfVars
  BY <1>2 DEF RunnerUnwinds, RunnerSwallows, DurableInv, RowKept, Saved
<1>3. ASSUME NEW s1 \in Tasks \ drawn, NEW s2 \in Tasks \ drawn, Replan(t, s1, s2),
             drawn' = drawn \cup {s1, s2}, UNCHANGED <<phase, resumed>>, phase = "executing"
      PROVE  DurableInv' /\ RowKept
  <2>1. /\ nodes' = nodes \cup {s1, s2} /\ UNCHANGED <<pc, store>>
        /\ \A u \in Tasks : handle'[u] # "none" => handle[u] # "none"
        /\ \A u \in Tasks : \/ status'[u] = status[u]
                            \/ status'[u] = "queued" /\ (u \in {s1, s2} \/ status[u] = "cancelled")
    BY <1>3 DEF Replan
  <2>2. \A u \in Tasks : Saved(u) => u \notin {s1, s2}
    BY DEF DurableInv, Saved
  <2> QED
    BY <1>3, <2>1, <2>2 DEF DurableInv, RowKept, Saved
<1> QED
  BY <1>1, <1>2, <1>3 DEF RunnerStep

LEMMA DurableStep ==
  ASSUME TypeOK, DurableInv, [WfNext]_allVars
  PROVE  DurableInv' /\ RowKept
<1> USE DEF TypeOK, graph, vars
<1>1. CASE StartRun \/ PlanFails \/ Rejected \/ Conclude \/ VerdictUnsaved
  <2>1. CASE Rejected
    BY <2>1, QuietDurable DEF Rejected
  <2>2. CASE StartRun \/ PlanFails \/ Conclude \/ VerdictUnsaved
    BY <2>2, QuietDurable DEF StartRun, PlanFails, Conclude, VerdictUnsaved
  <2> QED
    BY <1>1, <2>1, <2>2
<1>2. ASSUME NEW p \in Plans, NEW saved \in SUBSET p.nodes, Planned(p, saved)
      PROVE  /\ \A t \in Tasks : ~Saved(t) /\ ~Saved(t)' /\ handle[t] = "none"
             /\ \A t \in Tasks : store'[t].status # "absent" => t \in drawn'
             /\ nodes = {} /\ drawn' = p.nodes
  <2>1. phase = "planning" /\ drawn' = p.nodes
    BY <1>2 DEF Planned
  <2>2. nodes = {} /\ \A t \in Tasks : ~Saved(t) /\ handle[t] = "none"
    BY <2>1 DEF DurableInv
  <2>3. /\ \A t \in Tasks : store'[t].status \in {"queued", "absent"}
        /\ \A t \in Tasks : store'[t].status # "absent" => t \in p.nodes
    BY <1>2, PlannedType
  <2> QED
    BY <2>1, <2>2, <2>3 DEF Saved
<1>3. ASSUME NEW p \in Plans, PlanReady(p)
      PROVE  DurableInv' /\ RowKept
  BY <1>2, <1>3 DEF PlanReady, DurableInv, RowKept
<1>4. ASSUME NEW p \in Plans, NEW saved \in SUBSET p.nodes,
             CrashWhileSaving(p, saved) \/ PlanUnsaved(p, saved)
      PROVE  DurableInv' /\ RowKept
  <2>1. Planned(p, saved) /\ UNCHANGED <<nodes, handle>> /\ phase' \in {"down", "raised"}
    BY <1>4 DEF CrashWhileSaving, PlanUnsaved
  <2> QED
    BY <1>2, <2>1 DEF DurableInv, RowKept
<1>5. CASE Begin
  <2>1. /\ phase = "executing" /\ pc = "idle" /\ pc' \in {"top", "rejected"}
        /\ \A t \in Tasks : \/ status'[t] = status[t]
                            \/ status'[t] = "queued" /\ (~resumed \/ status[t] # "completed")
        /\ UNCHANGED <<phase, resumed, drawn, nodes, handle, store>>
    BY <1>5 DEF Begin, Execute, AfterPrologue
  <2> QED
    BY <2>1 DEF DurableInv, RowKept, Saved
<1>6. CASE EngineStep
  BY <1>6, DurableEngine
<1>7. ASSUME NEW t \in Tasks, RunnerStep(t)
      PROVE  DurableInv' /\ RowKept
  BY <1>7, DurableRunner
<1>8. CASE CancelWorkflow
  BY <1>8, QuietDurable DEF CancelWorkflow, Cancel
<1>9. CASE Resume
  BY <1>9 DEF Resume, Stored, DurableInv, RowKept, Saved
<1>10. CASE Crash \/ CrashBetweenRows
  <2>1. /\ nodes' = {} /\ phase' = "down" /\ UNCHANGED drawn
        /\ \A t \in Tasks : status'[t] = "absent" /\ handle'[t] = "none"
    BY <1>10, RowsCutShort DEF Crash, Die
  <2>2. ASSUME NEW t \in Tasks
        PROVE  \/ store'[t] = store[t]
               \/ store'[t].status \in {"failed", "cancelled"} /\ t \in drawn /\ ~Saved(t)
    <3>1. CASE Crash
      BY <3>1 DEF Crash
    <3>2. CASE CrashBetweenRows
      BY <3>2, RowsCutShort DEF DurableInv, Terminal
    <3> QED
      BY <1>10, <3>1, <3>2
  <2>3. \A t \in Tasks : Saved(t) => phase \notin {"new", "planning"}
    BY DEF DurableInv
  <2> QED
    BY <2>1, <2>2, <2>3 DEF DurableInv, RowKept, Saved
<1>11. ASSUME UNCHANGED allVars
       PROVE  DurableInv' /\ RowKept
  BY <1>11, QuietDurable DEF allVars, wfVars
<1> QED
  BY WfStepCases, <1>1, <1>3, <1>4, <1>5, <1>6, <1>7, <1>8, <1>9, <1>10, <1>11

(* Progress is durable over every sequence of crashes, resumes, failed     *)
(* saves, cancellations and replans.                                       *)
THEOREM ProgressAlwaysDurable == WfSpec => DurableProgress
<1>1. WfInit => TypeOK /\ DurableInv
  <2>1. WfInit => DurableInv
    BY DEF WfInit, DurableInv, Saved, NoRow, Row
  <2> QED
    BY <2>1, WfTypeInit
<1>2. TypeOK /\ DurableInv /\ [WfNext]_allVars => TypeOK' /\ DurableInv' /\ RowKept
  BY WfTypeStep, DurableStep
<1>3. RowKept =>
        \A t \in Tasks : store[t].status = "completed" =>
          /\ store'[t] = store[t]
          /\ status[t] # "running" => status'[t] # "running"
  BY DEF RowKept, Saved
<1> QED
  BY <1>1, <1>2, <1>3, PTL DEF WfSpec, DurableProgress
-----------------------------------------------------------------------------
(***************************************************************************)
(* UpstreamCompleted across crashes and resumes.  What a resume rebuilds   *)
(* the tasks from are the rows, so the rows must be closed upwards by      *)
(* themselves: a task is saved COMPLETED with its dependencies of that     *)
(* moment, all of which were then completed, hence saved before it.  While *)
(* the engine is on, its own invariant takes over.                         *)
(***************************************************************************)
RowsUpright ==
  \A t \in Tasks :
    /\ store[t].status # "running"
    /\ Saved(t) /\ t \notin finalizers => \A d \in store[t].deps : Saved(d)

MemorySaved ==
  phase = "executing" => \A t \in Tasks : status[t] = "completed" => Saved(t)

(* Before execute() is called, or after it has refused the graph.          *)
AtRest ==
  /\ \A t \in Tasks : handle[t] = "none" /\ status[t] # "running"
  /\ \A t \in Tasks : status[t] = "absent" <=> t \notin nodes
  /\ UpstreamCompleted

UpstreamInv ==
  /\ phase \in {"new", "planning"} => pc = "idle"
  /\ IF pc \in {"idle", "rejected"} THEN AtRest ELSE EngineInv
  /\ MemorySaved
  /\ RowsUpright

LEMMA RowMade ==
  ASSUME ~StoreFails, NEW S \in SUBSET Tasks, Persist(S), NEW t \in Tasks
  PROVE  /\ t \notin S => store'[t] = store[t]
         /\ t \in S => store'[t].status = status'[t] /\ store'[t].deps = deps'[t]
<1>1. store' = [u \in Tasks |-> IF u \in S THEN Row(status'[u], deps'[u], attempts'[u]) ELSE store[u]]
  BY DEF Persist
<1> QED
  BY <1>1 DEF Row

(* The row of a task that completes is made in the same step.              *)
LEMMA EngineSaves ==
  ASSUME ~StoreFails, TypeOK, EngineStep, NEW t \in Tasks
  PROVE  /\ status'[t] = "completed" => status[t] = "completed" \/ Saved(t)'
         /\ \/ store'[t] = store[t]
            \/ store'[t].status \in {"failed", "cancelled"}
            \/ store'[t].status = "completed" /\ store'[t].deps = deps[t] /\ handle[t] = "ok"
<1> USE DEF TypeOK, graph, Saved
<1>1. ASSUME NEW L \in SUBSET Ready, Launch(L)
      PROVE  store' = store /\ (status'[t] = "completed" => status[t] = "completed")
  BY <1>1 DEF Launch
<1>2. ASSUME StopRun
      PROVE  /\ status'[t] = "completed" => status[t] = "completed"
             /\ store'[t] = store[t] \/ store'[t].status = "cancelled"
  <2>1. Unfinished \in SUBSET Tasks
    BY DEF Unfinished
  <2> QED
    BY <1>2, <2>1, RowMade DEF StopRun, CancelRemaining
<1>3. ASSUME NEW u \in Tasks, Settle(u)
      PROVE  /\ status'[t] = "completed" => status[t] = "completed" \/ Saved(t)'
             /\ \/ store'[t] = store[t]
                \/ store'[t].status \in {"failed", "cancelled"}
                \/ store'[t].status = "completed" /\ store'[t].deps = deps[t] /\ handle[t] = "ok"
  <2>1. deps' = deps
    BY <1>3 DEF Settle
  <2>2. CASE SettleAborted(u)
    BY <2>2 DEF SettleAborted
  <2>3. CASE SettleCompleted(u)
    <3>1. /\ t \notin {u} => store'[t] = store[t]
          /\ t \in {u} => store'[t].status = status'[t] /\ store'[t].deps = deps'[t]
      BY <2>3, RowMade DEF SettleCompleted
    <3>2. status'[t] = IF t = u THEN "completed" ELSE status[t]
      BY <2>3 DEF SettleCompleted
    <3> QED
      BY <2>1, <2>3, <3>1, <3>2 DEF SettleCompleted
  <2>4. CASE SettleFailed(u)
    <3> DEFINE gone == IF CancelDependents THEN Doomed(u) ELSE {}
    <3>1. {u} \cup gone \in SUBSET Tasks
      BY DEF Doomed, Downstream
    <3>2. /\ status'[t] = IF t = u THEN "failed" ELSE IF t \in gone THEN "cancelled" ELSE status[t]
          /\ Persist({u} \cup gone)
      BY <2>4 DEF SettleFailed
    <3>3. /\ t \notin {u} \cup gone => store'[t] = store[t]
          /\ t \in {u} \cup gone => store'[t].status = status'[t]
      BY <3>1, <3>2, RowMade
    <3> QED
      BY <3>2, <3>3
  <2> QED
    BY <1>3, <2>2, <2>3, <2>4 DEF Settle
<1>4. CASE Drained
  BY <1>4 DEF Drained
<1> QED
  BY <1>1, <1>2, <1>3, <1>4 DEF EngineStep, Engine

LEMMA UpstreamEngine ==
  ASSUME ~StoreFails, TypeOK, DurableInv, UpstreamInv, RowKept, EngineStep
  PROVE  UpstreamInv'
<1>1. EngineInv /\ EngineInv' /\ pc' \notin {"idle", "rejected"}
  <2>1. pc \notin {"idle", "rejected"} /\ pc' \notin {"idle", "rejected"}
    BY DEF EngineStep, Engine, Launch, AfterLaunch, StopRun, Settle, Drained
  <2>2. EngineInv
    BY <2>1 DEF UpstreamInv
  <2> QED
    BY <2>1, <2>2, EngineInvStep DEF EngineStep, Next
<1>2. phase = "executing" /\ phase' = "executing" /\ finalizers' = finalizers
  BY DEF EngineStep, wfVars, Engine, Launch, StopRun, Settle, Drained, graph
<1>3. \A t \in Tasks : Saved(t) => store'[t] = store[t] /\ Saved(t)'
  BY DEF RowKept, Saved
<1>4. MemorySaved'
  BY <1>2, <1>3, EngineSaves DEF UpstreamInv, MemorySaved
<1>5. ASSUME NEW t \in Tasks
      PROVE  /\ store'[t].status # "running"
             /\ Saved(t)' /\ t \notin finalizers' => \A d \in store'[t].deps : Saved(d)'
  <2>1. CASE store'[t] = store[t]
    BY <1>2, <1>3, <2>1 DEF UpstreamInv, RowsUpright, Saved, TypeOK
  <2>2. CASE store'[t].status \in {"failed", "cancelled"}
    BY <2>2 DEF Saved
  <2>3. CASE store'[t].status = "completed" /\ store'[t].deps = deps[t] /\ handle[t] = "ok"
    <3>1. t \in nodes /\ Entered(t)
      BY <1>1, <2>3 DEF EngineInv, Bookkeeping, Running, Entered
    <3>2. t \notin finalizers => \A d \in deps[t] : status[d] = "completed"
      BY <1>1, <3>1 DEF EngineInv, UpstreamCompleted
    <3>3. deps[t] \subseteq Tasks
      BY DEF TypeOK
    <3> QED
      BY <1>2, <1>3, <2>3, <3>2, <3>3 DEF UpstreamInv, MemorySaved
  <2> QED
    BY <2>1, <2>2, <2>3, EngineSaves
<1> QED
  BY <1>1, <1>2, <1>4, <1>5 DEF UpstreamInv, RowsUpright

LEMMA UpstreamRunner ==
  ASSUME TypeOK, DurableInv, UpstreamInv, NEW t \in Tasks, RunnerStep(t)
  PROVE  UpstreamInv'
<1>1. /\ pc \notin {"idle", "rejected"} /\ pc' = pc /\ store' = store /\ phase' = phase
      /\ phase = "executing"
  BY DEF RunnerStep, RunnerEnds, RunnerUnwinds, RunnerSwallows, Replan, Awaiting, wfVars
<1>2. EngineInv'
  <2>1. EngineInv
    BY <1>1 DEF UpstreamInv
  <2> QED
    BY <2>1, EngineInvStep DEF RunnerStep, Next, Runner
<1>3. \A u \in Tasks : status'[u] = "completed" => status[u] = "completed"
  BY DEF TypeOK, RunnerStep, RunnerEnds, RunnerUnwinds, RunnerSwallows, Replan
<1>4. \A u \in Tasks : Saved(u) => (u \in finalizers <=> u \in finalizers')
  <2>1. CASE finalizers' = finalizers
    BY <2>1
  <2>2. CASE \E s1, s2 \in Tasks \ drawn : finalizers' = finalizers \ {s1, s2}
    BY <2>2 DEF DurableInv, Saved
  <2> QED
    BY <2>1, <2>2 DEF RunnerStep, RunnerEnds, RunnerUnwinds, RunnerSwallows, Replan, graph
<1>5. RowsUpright' /\ MemorySaved'
  BY <1>1, <1>3, <1>4 DEF UpstreamInv, RowsUpright, MemorySaved, Saved
<1> QED
  BY <1>1, <1>2, <1>5 DEF UpstreamInv

LEMMA UpstreamQuiet ==
  ASSUME UpstreamInv,
         UNCHANGED <<graph, status, attempts, handle, pc, cancelled, failedHard, store>>,
         \/ phase' = phase
         \/ phase' \in {"returned", "raised"}
         \/ phase = "new" /\ phase' = "planning"
  PROVE  UpstreamInv'
<1>1. UNCHANGED <<nodes, deps, finalizers, status, attempts, handle, pc, store>>
  BY DEF graph
<1>2. pc \notin {"idle", "rejected"} => EngineInv'
  BY EngineInvStep DEF UpstreamInv, Next, vars
<1>3. AtRest => AtRest'
  BY <1>1 DEF AtRest, UpstreamCompleted, Entered
<1>4. RowsUpright' /\ MemorySaved'
  BY <1>1 DEF UpstreamInv, RowsUpright, MemorySaved, Saved
<1> QED
  BY <1>1, <1>2, <1>3, <1>4 DEF UpstreamInv

(* The rows of a plan say "queued", whatever part of it is saved.          *)
LEMMA UpstreamPlanned ==
  ASSUME TypeOK, DurableInv, UpstreamInv, NEW p \in Plans, NEW saved \in SUBSET p.nodes,
         \/ PlanReady(p) /\ saved = p.nodes
         \/ CrashWhileSaving(p, saved)
         \/ PlanUnsaved(p, saved)
  PROVE  UpstreamInv'
<1>1. Planned(p, saved) /\ phase = "planning" /\ pc = "idle" /\ nodes = {}
  BY DEF PlanReady, CrashWhileSaving, PlanUnsaved, Planned, UpstreamInv, DurableInv
<1>2. \A t \in Tasks : store'[t].status \in {"queued", "absent"}
  BY <1>1, PlannedType
<1>3. pc' = "idle" /\ handle' = handle /\ phase' \in {"executing", "raised", "down"}
  BY <1>1 DEF PlanReady, CrashWhileSaving, PlanUnsaved
<1>4. AtRest
  BY <1>1 DEF UpstreamInv
<1>5. /\ \A t \in Tasks : status'[t] \in {"queued", "absent"}
      /\ \A t \in Tasks : status'[t] = "absent" <=> t \notin nodes'
      /\ nodes' \subseteq Tasks
  <2>1. CASE PlanReady(p)
    BY <2>1, <1>1, PlannedType DEF PlanReady
  <2>2. CASE CrashWhileSaving(p, saved) \/ PlanUnsaved(p, saved)
    BY <1>1, <1>4, <2>2 DEF CrashWhileSaving, PlanUnsaved, AtRest, TypeOK
  <2> QED
    BY <2>1, <2>2
<1>6. AtRest'
  BY <1>3, <1>4, <1>5 DEF AtRest, UpstreamCompleted, Entered
<1> QED
  BY <1>2, <1>3, <1>5, <1>6 DEF UpstreamInv, RowsUpright, MemorySaved, Saved

(* execute() takes the graph: its own invariant holds from here on.        *)
LEMMA UpstreamBegin ==
  ASSUME TypeOK, TypeOK', DurableInv, UpstreamInv, Begin
  PROVE  UpstreamInv'
<1> USE DEF graph
<1>1. /\ phase = "executing" /\ pc = "idle" /\ pc' \in {"top", "rejected"} /\ AtRest
      /\ UNCHANGED <<phase, nodes, deps, finalizers, handle, store>>
  BY DEF Begin, Execute, UpstreamInv
<1>2. \A t \in Tasks : /\ status'[t] = "completed" => status[t] = "completed"
                       /\ status'[t] # "running"
                       /\ status'[t] = "absent" <=> status[t] = "absent"
  <2>1. pc' = "rejected" => status' = status
    BY <1>1 DEF Begin, Execute
  <2>2. pc' = "top" =>
          status' = [t \in Tasks |-> IF t \in nodes THEN AfterPrologue(resumed, status[t])
                                                   ELSE status[t]]
    BY DEF Begin, Execute
  <2> QED
    BY <1>1, <2>1, <2>2 DEF AtRest, AfterPrologue
<1>3. ASSUME NEW t \in nodes \ finalizers, Entered(t)', NEW d \in deps[t]
      PROVE  status'[d] = "completed"
  <2>1. t \in Tasks /\ d \in Tasks
    BY DEF TypeOK
  <2>2. status[t] = "completed" /\ status'[t] = "completed"
    BY <1>1, <1>2, <1>3, <2>1 DEF Entered, AtRest
  <2>3. status[d] = "completed"
    BY <1>1, <2>2 DEF AtRest, UpstreamCompleted, Entered
  <2>4. pc' = "top" => resumed
    BY <1>1, <2>1, <2>2 DEF DurableInv, UpstreamInv, MemorySaved
  <2> QED
    BY <2>1, <2>3, <2>4, <1>1 DEF Begin, Execute, AfterPrologue
<1>4. UpstreamCompleted'
  BY <1>1, <1>3 DEF UpstreamCompleted
<1>5. AtRest'
  BY <1>1, <1>2, <1>4 DEF AtRest
<1>6. ASSUME pc' = "top"
      PROVE  EngineInv'
  <2>1. Running' = {} /\ \A t \in Tasks : status'[t] # "running" /\ handle'[t] = "none"
    BY <1>1, <1>2 DEF AtRest, Running
  <2>2. Bookkeeping'
    BY <1>1, <1>5, <1>6, <2>1 DEF Bookkeeping, AtRest
  <2>3. HandlesAgree'
    BY <2>1, FS_EmptySet, ConcurrencyAssumption DEF HandlesAgree, Slots
  <2>4. GraphStaysValid'
    BY <1>1, <1>6 DEF Begin, Execute, GraphStaysValid
  <2> QED
    BY <1>4, <2>2, <2>3, <2>4 DEF EngineInv
<1>7. RowsUpright' /\ MemorySaved'
  BY <1>1, <1>2 DEF UpstreamInv, RowsUpright, MemorySaved, Saved
<1> QED
  BY <1>1, <1>5, <1>6, <1>7 DEF UpstreamInv

(* A resume finds in the rows what it may rely on.                         *)
LEMMA UpstreamResume ==
  ASSUME TypeOK, UpstreamInv, Resume
  PROVE  UpstreamInv'
<1>1. /\ \A t \in Tasks : /\ status'[t] = store[t].status /\ deps'[t] = store[t].deps
                          /\ handle'[t] = "none"
      /\ nodes' = Stored /\ pc' = "idle" /\ phase' \in {"raised", "executing"}
      /\ UNCHANGED <<finalizers, store>>
  BY DEF Resume
<1>2. RowsUpright
  BY DEF UpstreamInv
<1>3. ASSUME NEW t \in nodes' \ finalizers', Entered(t)', NEW d \in deps'[t]
      PROVE  status'[d] = "completed"
  <2>1. t \in Tasks /\ Saved(t) /\ t \notin finalizers
    BY <1>1, <1>2, <1>3 DEF Stored, Entered, RowsUpright, Saved
  <2>2. d \in store[t].deps /\ d \in Tasks
    BY <1>1, <2>1 DEF TypeOK
  <2> QED
    BY <1>1, <1>2, <2>1, <2>2 DEF RowsUpright, Saved
<1>4. AtRest'
  BY <1>1, <1>2, <1>3 DEF AtRest, UpstreamCompleted, RowsUpright, Stored
<1> QED
  BY <1>1, <1>2, <1>4 DEF UpstreamInv, RowsUpright, MemorySaved, Saved

LEMMA UpstreamStep ==
  ASSUME ~StoreFails, TypeOK, TypeOK', DurableInv, RowKept, UpstreamInv, [WfNext]_allVars
  PROVE  UpstreamInv'
<1> USE DEF vars, graph, TypeOK
<1>1. CASE StartRun \/ PlanFails \/ Rejected \/ Conclude \/ VerdictUnsaved
  <2>1. CASE Rejected
    BY <2>1, UpstreamQuiet DEF Rejected
  <2>2. CASE StartRun \/ PlanFails \/ Conclude \/ VerdictUnsaved
    BY <2>2, UpstreamQuiet DEF StartRun, PlanFails, Conclude, VerdictUnsaved
  <2> QED
    BY <1>1, <2>1, <2>2
<1>2. ASSUME NEW p \in Plans, PlanReady(p)
      PROVE  UpstreamInv'
  BY <1>2, UpstreamPlanned
<1>3. ASSUME NEW p \in Plans, NEW saved \in SUBSET p.nodes,
             CrashWhileSaving(p, saved) \/ PlanUnsaved(p, saved)
      PROVE  UpstreamInv'
  BY <1>3, UpstreamPlanned
<1>4. CASE CancelWorkflow
  <2>1. CASE UNCHANGED vars
    BY <1>4, <2>1, UpstreamQuiet DEF CancelWorkflow
  <2>2. CASE Cancel
    <3>1. pc \notin {"idle", "rejected"} /\ pc' = pc /\ UNCHANGED <<status, store, finalizers>>
      BY <2>2 DEF Cancel, graph
    <3>2. EngineInv'
      BY <2>2, <3>1, EngineInvStep DEF UpstreamInv, Next
    <3>3. phase' = phase
      BY <1>4 DEF CancelWorkflow
    <3> QED
      BY <3>1, <3>2, <3>3 DEF UpstreamInv, RowsUpright, MemorySaved, Saved
  <2> QED
    BY <1>4, <2>1, <2>2 DEF CancelWorkflow
<1>5. CASE Crash \/ CrashBetweenRows
  <2>1. /\ nodes' = {} /\ pc' = "idle" /\ phase' = "down" /\ UNCHANGED finalizers
        /\ \A t \in Tasks : status'[t] = "absent" /\ handle'[t] = "none"
    BY <1>5, RowsCutShort DEF Crash, Die
  <2>2. \A t \in Tasks : store'[t] = store[t] \/ store'[t].status \in {"failed", "cancelled"}
    BY <1>5, RowsCutShort DEF Crash
  <2>3. \A t \in Tasks : store[t].deps \subseteq Tasks
    OBVIOUS
  <2>4. RowsUpright'
    <3> SUFFICES ASSUME NEW t \in Tasks
                 PROVE  /\ store'[t].status # "running"
                        /\ Saved(t)' /\ t \notin finalizers => \A d \in store'[t].deps : Saved(d)'
      BY <2>1 DEF RowsUpright
    <3>1. store[t].status # "running" /\ store[t].deps \subseteq Tasks
      BY <2>3 DEF UpstreamInv, RowsUpright
    <3>2. ASSUME Saved(t)', t \notin finalizers
          PROVE  \A d \in store'[t].deps : Saved(d)'
      <4>1. store'[t] = store[t] /\ Saved(t)
        BY <2>2, <3>2 DEF Saved
      <4>2. \A d \in store[t].deps : Saved(d)
        BY <3>2, <4>1 DEF UpstreamInv, RowsUpright
      <4> QED
        BY <3>1, <4>1, <4>2 DEF RowKept, Saved
    <3> QED
      BY <2>2, <3>1, <3>2
  <2> QED
    BY <2>1, <2>4 DEF UpstreamInv, AtRest, UpstreamCompleted, MemorySaved
<1>6. CASE UNCHANGED allVars
  BY <1>6, UpstreamQuiet DEF allVars, wfVars
<1> QED
  BY WfStepCases, <1>1, <1>2, <1>3, <1>4, <1>5, <1>6,
     UpstreamBegin, UpstreamEngine, UpstreamRunner, UpstreamResume

(* No ordinary task runs, or counts as completed, on top of work that was  *)
(* not done, over any number of crashes and resumes, provided that saves   *)
(* succeed (orchestrator.py:183 rebuilds the tasks from their rows alone). *)
THEOREM UpstreamOverResumes ==
  ASSUME ~StoreFails
  PROVE  WfSpec => []UpstreamCompleted
<1>1. WfInit => TypeOK /\ DurableInv /\ UpstreamInv
  <2>1. WfInit => DurableInv
    BY DEF WfInit, DurableInv, Saved, NoRow, Row
  <2>2. WfInit => UpstreamInv
    BY DEF WfInit, UpstreamInv, AtRest, UpstreamCompleted, RowsUpright, MemorySaved, Saved,
           NoRow, Row
  <2> QED
    BY <2>1, <2>2, WfTypeInit
<1>2. TypeOK /\ DurableInv /\ UpstreamInv /\ [WfNext]_allVars
        => TypeOK' /\ DurableInv' /\ UpstreamInv'
  BY WfTypeStep, DurableStep, UpstreamStep
<1>3. UpstreamInv => UpstreamCompleted
  BY DEF UpstreamInv, AtRest, EngineInv
<1> QED
  BY <1>1, <1>2, <1>3, PTL DEF WfSpec
-----------------------------------------------------------------------------
(***************************************************************************)
(* RecordAgrees.  A row that says FAILED is that of an ordinary task whose *)
(* dependencies are completed, and saved as such.  So a resume can start   *)
(* it at once, nothing can take its dependencies from it, and the run does *)
(* not end before it has a new row -- or has failed again, which the       *)
(* verdict sees.                                                           *)
(***************************************************************************)
FailedRow(t) == store[t].status = "failed"

FailedRowTold(t) ==
  /\ phase \notin {"new", "planning"}
  /\ \A d \in store[t].deps : Saved(d)
  /\ phase = "executing" =>
       /\ status[t] \in {"failed", "queued", "running"}
       /\ \A d \in deps[t] : status[d] = "completed"
       /\ pc = "idle" => resumed /\ status[t] = "failed"
       /\ pc \in {"drain", "ended"} => status[t] = "failed"

(* Handles are cancelled only when the run is being stopped.               *)
NoStray == pc \notin {"drain", "ended"} => \A t \in Tasks : handle[t] \notin {"cancelling", "aborted"}

ToldInv ==
  /\ EndInv
  /\ NoStray
  /\ finalizers \subseteq drawn
  /\ \A t \in Tasks \ finalizers : FailedRow(t) => FailedRowTold(t)
  /\ record = "completed" /\ phase = "returned" => \A t \in Tasks \ finalizers : ~FailedRow(t)

LEMMA ToldLaunch ==
  ASSUME TypeOK, UpstreamInv, ToldInv, EngineInv, EngineInv', phase = "executing",
         UNCHANGED wfVars, NEW L \in SUBSET Ready, Launch(L),
         NEW t \in Tasks \ finalizers, FailedRow(t)'
  PROVE  FailedRowTold(t)'
<1>1. /\ \A u \in Tasks : status'[u] = IF u \in L THEN "running" ELSE status[u]
      /\ pc' = (IF Running \cup L = {} THEN "ended" ELSE "wait")
      /\ UNCHANGED <<graph, store>> /\ Launchable(L)
      /\ L = {} => handle' = handle
  <2>1. L = {} => handle' = handle
    BY DEF Launch, TypeOK
  <2> QED
    BY <2>1 DEF Launch, AfterLaunch
<1>2. \A u \in L : status[u] = "queued"
  BY DEF Ready
<1>3. FailedRow(t) /\ FailedRowTold(t)
  BY <1>1 DEF ToldInv, FailedRow
<1>4. /\ \A d \in store'[t].deps : Saved(d)'
      /\ status[t] \in {"failed", "queued", "running"}
      /\ \A d \in deps[t] : status[d] = "completed"
  BY <1>1, <1>3 DEF FailedRowTold, Saved
<1>5. /\ status'[t] \in {"failed", "queued", "running"}
      /\ \A d \in deps'[t] : status'[d] = "completed"
  BY <1>1, <1>2, <1>4 DEF graph, TypeOK
<1>6. ASSUME pc' = "ended"
      PROVE  status'[t] = "failed"
  <2>1. Running = {} /\ L = {}
    BY <1>1, <1>6
  <2>2. Cardinality(L) = 0 /\ Cardinality(Running) = 0
    BY <2>1, FS_EmptySet
  <2>3. Slots # 0
    BY ConcurrencyAssumption DEF Slots
  <2>4. Ready = {}
    BY <1>1, <2>1, <2>2, <2>3, SlotsIsPositive DEF Launchable
  <2>5. status[t] # "running"
    BY <2>1 DEF EngineInv, HandlesAgree, Launch
  <2>6. t \in nodes
    BY <1>4 DEF EngineInv, Bookkeeping
  <2>7. status[t] # "queued"
    BY <1>4, <2>4, <2>6 DEF Ready, DependenciesAllow
  <2> QED
    BY <1>1, <1>4, <2>1, <2>5, <2>7
<1> QED
  BY <1>1, <1>4, <1>5, <1>6 DEF FailedRowTold, wfVars

LEMMA ToldStop ==
  ASSUME ~StoreFails, TypeOK, ToldInv, EngineInv, RowKept, phase = "executing",
         UNCHANGED wfVars, StopRun, NEW t \in Tasks \ finalizers, FailedRow(t)'
  PROVE  FailedRowTold(t)'
<1>1. /\ \A u \in Tasks : status'[u] = IF u \in Unfinished THEN "cancelled" ELSE status[u]
      /\ Persist(Unfinished) /\ UNCHANGED graph /\ pc' # "idle"
      /\ Unfinished \in SUBSET Tasks
  BY DEF StopRun, CancelRemaining, Unfinished, TypeOK
<1>2. t \notin Unfinished /\ store'[t] = store[t]
  BY <1>1, RowMade DEF FailedRow
<1>3. FailedRow(t) /\ FailedRowTold(t)
  BY <1>2 DEF ToldInv, FailedRow
<1>4. /\ \A d \in store[t].deps : Saved(d) /\ d \in Tasks
      /\ status[t] \in {"failed", "queued", "running"}
      /\ \A d \in deps[t] : status[d] = "completed" /\ d \in Tasks
  BY <1>3 DEF FailedRowTold, TypeOK
<1>5. t \in nodes
  BY <1>4 DEF EngineInv, Bookkeeping
<1>6. status[t] = "failed" /\ status'[t] = "failed"
  BY <1>1, <1>2, <1>4, <1>5 DEF Unfinished, Terminal
<1>7. \A d \in deps'[t] : status'[d] = "completed"
  BY <1>1, <1>4 DEF graph, Unfinished, Terminal
<1>8. \A d \in store'[t].deps : Saved(d)'
  BY <1>2, <1>4 DEF RowKept, Saved
<1> QED
  BY <1>1, <1>6, <1>7, <1>8 DEF FailedRowTold, wfVars

LEMMA ToldSettle ==
  ASSUME ~StoreFails, TypeOK, UpstreamInv, ToldInv, EngineInv, RowKept, phase = "executing",
         UNCHANGED wfVars, NEW u \in Tasks, Settle(u),
         NEW t \in Tasks \ finalizers, FailedRow(t)'
  PROVE  FailedRowTold(t)'
<1>1. /\ pc \in {"wait", "settle"} /\ pc' \in {"top", "settle"} /\ UNCHANGED graph
      /\ handle[u] # "none"
  BY DEF Settle, SettleAborted, SettleCompleted, SettleFailed
<1>2. status[u] = "running" /\ u \in nodes /\ ~SettleAborted(u)
  BY <1>1 DEF EngineInv, HandlesAgree, Bookkeeping, Running, SettleAborted, ToldInv, NoStray
<1>3. PICK gone \in SUBSET Doomed(u), st \in {"completed", "failed"} :
        /\ \A v \in Tasks : status'[v] = IF v = u THEN st
                                         ELSE IF v \in gone THEN "cancelled" ELSE status[v]
        /\ Persist({u} \cup gone)
  <2>1. CASE SettleCompleted(u)
    <3> WITNESS {} \in SUBSET Doomed(u), "completed" \in {"completed", "failed"}
    <3> QED
      BY <2>1 DEF SettleCompleted, TypeOK
  <2>2. CASE SettleFailed(u) /\ CancelDependents
    <3> WITNESS Doomed(u) \in SUBSET Doomed(u), "failed" \in {"completed", "failed"}
    <3> QED
      BY <2>2 DEF SettleFailed
  <2>3. CASE SettleFailed(u) /\ ~CancelDependents
    <3> WITNESS {} \in SUBSET Doomed(u), "failed" \in {"completed", "failed"}
    <3> QED
      BY <2>3 DEF SettleFailed
  <2> QED
    BY <1>2, <2>1, <2>2, <2>3 DEF Settle
<1>4. \A v \in gone : v \in nodes /\ v # u /\ status[v] = "queued"
  BY <1>2, DoomedIsWaiting DEF EngineInv
<1>5. {u} \cup gone \in SUBSET Tasks
  BY <1>4 DEF TypeOK
<1>6. /\ t \notin {u} \cup gone => store'[t] = store[t]
      /\ t \in {u} \cup gone => store'[t].status = status'[t] /\ store'[t].deps = deps'[t]
  BY <1>3, <1>5, RowMade
<1>7. t \notin gone
  BY <1>3, <1>4, <1>6 DEF FailedRow
<1>8. /\ status[t] \in {"failed", "queued", "running"}
      /\ \A d \in deps[t] : status[d] = "completed" /\ d \in Tasks
      /\ \A d \in store'[t].deps : Saved(d) /\ d \in Tasks
  <2>1. CASE t = u
    <3>1. Entered(t) /\ t \in nodes \ finalizers
      BY <1>2, <2>1 DEF Entered
    <3>2. \A d \in deps[t] : status[d] = "completed" /\ d \in Tasks
      BY <3>1 DEF EngineInv, UpstreamCompleted, TypeOK
    <3>3. store'[t].deps = deps[t]
      BY <1>1, <1>6, <2>1 DEF graph
    <3> QED
      BY <1>2, <2>1, <3>2, <3>3 DEF UpstreamInv, MemorySaved
  <2>2. CASE t # u
    <3>1. store'[t] = store[t] /\ FailedRowTold(t)
      BY <1>6, <1>7, <2>2 DEF ToldInv, FailedRow
    <3> QED
      BY <3>1 DEF FailedRowTold, TypeOK
  <2> QED
    BY <2>1, <2>2
<1>9. status'[t] \in {"failed", "queued", "running"}
  <2>1. t = u => status'[t] = "failed"
    BY <1>6 DEF FailedRow
  <2> QED
    BY <1>3, <1>7, <1>8, <2>1
<1>10. \A d \in deps'[t] : status'[d] = "completed"
  BY <1>1, <1>2, <1>3, <1>4, <1>8 DEF graph
<1>11. \A d \in store'[t].deps : Saved(d)'
  BY <1>8 DEF RowKept, Saved
<1> QED
  BY <1>1, <1>9, <1>10, <1>11 DEF FailedRowTold, wfVars

LEMMA ToldEngine ==
  ASSUME ~StoreFails, TypeOK, UpstreamInv, ToldInv, RowKept, EngineStep
  PROVE  ToldInv'
<1>1. /\ phase = "executing" /\ UNCHANGED wfVars /\ finalizers' = finalizers
      /\ pc \notin {"idle", "rejected"}
  BY DEF EngineStep, Engine, Launch, StopRun, Settle, Drained, graph
<1>2. EngineInv /\ EngineInv'
  BY <1>1, EngineInvStep DEF UpstreamInv, EngineStep, Next
<1>3. EndInv'
  BY <1>2, EndStep DEF ToldInv, EngineStep, Next
<1>4. NoStray'
  BY DEF EngineStep, Engine, ToldInv, NoStray, Launch, AfterLaunch, StopRun, Settle, Drained, TypeOK
<1>5. ASSUME NEW t \in Tasks \ finalizers, FailedRow(t)'
      PROVE  FailedRowTold(t)'
  <2>1. ASSUME NEW L \in SUBSET Ready, Launch(L)
        PROVE  FailedRowTold(t)'
    BY <1>1, <1>2, <1>5, <2>1, ToldLaunch
  <2>2. CASE StopRun
    BY <1>1, <1>2, <1>5, <2>2, ToldStop
  <2>3. ASSUME NEW u \in Tasks, Settle(u)
        PROVE  FailedRowTold(t)'
    BY <1>1, <1>2, <1>5, <2>3, ToldSettle
  <2>4. CASE Drained
    BY <1>1, <1>5, <2>4 DEF Drained, ToldInv, FailedRow, FailedRowTold, Saved, graph, wfVars
  <2> QED
    BY <2>1, <2>2, <2>3, <2>4 DEF EngineStep, Engine
<1> QED
  BY <1>1, <1>3, <1>4, <1>5 DEF ToldInv, wfVars

LEMMA ToldRunner ==
  ASSUME ~StrayCancel, TypeOK, DurableInv, UpstreamInv, ToldInv, NEW r \in Tasks, RunnerStep(r)
  PROVE  ToldInv'
<1>1. /\ phase = "executing" /\ phase' = phase /\ resumed' = resumed
      /\ pc \in {"wait", "drain"} /\ pc' = pc /\ UNCHANGED store
  BY DEF RunnerStep, RunnerEnds, RunnerUnwinds, RunnerSwallows, Replan, Awaiting, wfVars
<1>2. EngineInv
  BY <1>1 DEF UpstreamInv
<1>3. EndInv'
  BY <1>2, EndStep DEF ToldInv, RunnerStep, Next, Runner
<1>4. NoStray'
  <2>1. \A u \in Tasks : handle'[u] \in {handle[u], "ok", "failed"}
                           \/ handle[u] = "cancelling" \/ handle'[u] = "active"
    <3>1. ASSUME NEW how \in Ended, RunnerEnds(r, how)
          PROVE  \A u \in Tasks : handle'[u] \in {handle[u], "ok", "failed"}
      BY <3>1 DEF RunnerEnds, Ended, TypeOK
    <3>2. CASE RunnerUnwinds(r) \/ RunnerSwallows(r)
      BY <3>2 DEF RunnerUnwinds, RunnerSwallows, TypeOK
    <3>3. ASSUME NEW s1 \in Tasks, NEW s2 \in Tasks, Replan(r, s1, s2)
          PROVE  \A u \in Tasks : handle'[u] \in {handle[u], "ok", "failed"}
      BY <3>3 DEF Replan, TypeOK
    <3> QED
      BY <3>1, <3>2, <3>3 DEF RunnerStep
  <2> QED
    BY <1>1, <2>1 DEF ToldInv, NoStray
<1>5. CASE UNCHANGED <<graph, status>> /\ UNCHANGED wfVars
  BY <1>1, <1>3, <1>4, <1>5 DEF ToldInv, FailedRow, FailedRowTold, Saved, graph, wfVars
<1>6. ASSUME NEW s1 \in Tasks \ drawn, NEW s2 \in Tasks \ drawn, Replan(r, s1, s2),
             drawn' = drawn \cup {s1, s2}
      PROVE  ToldInv'
  <2>1. /\ handle[r] = "active" /\ s1 \notin nodes /\ s2 \notin nodes
        /\ deps' = Rewired(r, s1, s2) /\ finalizers' = finalizers \ {s1, s2}
    BY <1>6 DEF Replan
  <2>2. r \in nodes /\ status[r] # "completed"
    BY <1>1, <1>2, <2>1 DEF EngineInv, HandlesAgree, Bookkeeping, Running
  <2>3. ASSUME NEW t \in Tasks \ finalizers', FailedRow(t)'
        PROVE  FailedRowTold(t)'
    <3>1. t \in drawn
      BY <1>1, <2>3 DEF DurableInv, FailedRow
    <3>2. FailedRow(t) /\ t \in Tasks \ finalizers /\ t # s1 /\ t # s2
      BY <1>1, <1>6, <2>1, <2>3, <3>1 DEF FailedRow
    <3>3. FailedRowTold(t)
      BY <3>2 DEF ToldInv
    <3>4. r \notin deps[t] /\ status[t] # "cancelled"
      BY <1>1, <2>2, <3>3 DEF FailedRowTold
    <3>5. deps'[t] = deps[t]
      BY <2>1, <3>2, <3>4 DEF Rewired, DependentsOf
    <3>6. status'[t] = status[t]
      BY <1>6, <3>2, <3>4 DEF Replan
    <3>7. \A d \in Tasks : status[d] = "completed" => status'[d] = "completed"
      BY <1>2, <1>6, <2>1 DEF Replan, EngineInv, Bookkeeping
    <3>8. \A d \in deps'[t] : status'[d] = "completed"
      BY <1>1, <3>3, <3>5, <3>7 DEF FailedRowTold, TypeOK
    <3> QED
      BY <1>1, <3>3, <3>6, <3>8 DEF FailedRowTold, Saved
  <2>4. finalizers' \subseteq drawn'
    BY <1>6, <2>1 DEF ToldInv
  <2> QED
    BY <1>1, <1>3, <1>4, <2>3, <2>4 DEF ToldInv
<1> QED
  BY <1>5, <1>6 DEF RunnerStep, RunnerEnds, RunnerUnwinds, RunnerSwallows

(* What a step does that leaves engine and rows alone, or puts out both.   *)
LEMMA ToldQuiet ==
  ASSUME ToldInv, UNCHANGED <<graph, status, handle, pc, failedHard, store, resumed, drawn>>,
         cancelled' = cancelled \/ cancelled',
         \/ phase' = phase /\ record' = record
         \/ phase' \in {"returned", "raised"} /\ record' = "failed"
         \/ phase' = "raised"
         \/ phase' = "planning" /\ phase = "new"
  PROVE  ToldInv'
<1>1. EndInv' /\ NoStray' /\ finalizers' \subseteq drawn'
  BY DEF ToldInv, EndInv, NoStray, graph
<1>2. ASSUME NEW t \in Tasks \ finalizers', FailedRow(t)'
      PROVE  FailedRowTold(t)'
  BY <1>2 DEF ToldInv, FailedRow, FailedRowTold, Saved, graph
<1>3. record' = "completed" /\ phase' = "returned" => \A t \in Tasks \ finalizers' : ~FailedRow(t)'
  BY DEF ToldInv, FailedRow, graph
<1> QED
  BY <1>1, <1>2, <1>3 DEF ToldInv

(* The rows of a plan say "queued".                                        *)
LEMMA ToldPlanned ==
  ASSUME ToldInv, DurableInv, UpstreamInv, NEW p \in Plans, NEW saved \in SUBSET p.nodes,
         \/ PlanReady(p) /\ saved = p.nodes
         \/ CrashWhileSaving(p, saved)
         \/ PlanUnsaved(p, saved)
  PROVE  ToldInv'
<1>1. Planned(p, saved) /\ pc = "idle" /\ pc' = pc /\ handle' = handle /\ AtRest
  BY DEF PlanReady, CrashWhileSaving, PlanUnsaved, Planned, UpstreamInv
<1>2. \A t \in Tasks : ~FailedRow(t)'
  BY <1>1, PlannedType DEF FailedRow
<1>3. finalizers' \subseteq drawn'
  BY <1>1, PlansAssumption DEF Planned
<1> QED
  BY <1>1, <1>2, <1>3 DEF ToldInv, EndInv, NoStray, AtRest

LEMMA ToldBegin ==
  ASSUME TypeOK, ToldInv, UpstreamInv, Begin
  PROVE  ToldInv'
<1>1. /\ phase = "executing" /\ pc = "idle" /\ pc' \in {"top", "rejected"} /\ AtRest
      /\ UNCHANGED <<phase, resumed, record, drawn, graph, handle, store>>
  BY DEF Begin, Execute, UpstreamInv
<1>2. \A t \in Tasks : \/ status'[t] = status[t]
                       \/ status'[t] = AfterPrologue(resumed, status[t])
  BY DEF Begin, Execute
<1>3. ASSUME NEW t \in Tasks \ finalizers', FailedRow(t)'
      PROVE  FailedRowTold(t)'
  <2>1. t \in Tasks \ finalizers /\ FailedRow(t) /\ FailedRowTold(t)
    BY <1>1, <1>3 DEF ToldInv, FailedRow, graph
  <2>2. resumed /\ status[t] = "failed" /\ \A d \in deps[t] : status[d] = "completed" /\ d \in Tasks
    BY <1>1, <2>1 DEF FailedRowTold, TypeOK
  <2>3. status'[t] \in {"failed", "queued"} /\ \A d \in deps[t] : status'[d] = "completed"
    BY <1>2, <2>2 DEF AfterPrologue
  <2> QED
    BY <1>1, <2>1, <2>3 DEF FailedRowTold, Saved, graph
<1> QED
  BY <1>1, <1>3 DEF ToldInv, EndInv, NoStray, AtRest, graph

LEMMA ToldResume ==
  ASSUME TypeOK, ToldInv, Resume
  PROVE  ToldInv'
<1>1. /\ \A t \in Tasks : /\ status'[t] = store[t].status /\ deps'[t] = store[t].deps
                          /\ handle'[t] = "none"
      /\ resumed' /\ pc' = "idle" /\ phase' \in {"raised", "executing"}
      /\ UNCHANGED <<finalizers, drawn, store, record>>
  BY DEF Resume
<1>2. ASSUME NEW t \in Tasks \ finalizers', FailedRow(t)'
      PROVE  FailedRowTold(t)'
  <2>1. t \in Tasks \ finalizers /\ FailedRow(t) /\ FailedRowTold(t)
    BY <1>1, <1>2 DEF ToldInv, FailedRow
  <2>2. \A d \in store[t].deps : Saved(d) /\ d \in Tasks
    BY <2>1 DEF FailedRowTold, TypeOK
  <2> QED
    BY <1>1, <2>1, <2>2 DEF FailedRowTold, FailedRow, Saved
<1> QED
  BY <1>1, <1>2 DEF ToldInv, EndInv, NoStray

(* The verdict is taken when the engine has stopped: every FAILED row of   *)
(* an ordinary task is by now that of a task which is FAILED in memory.    *)
LEMMA ToldConclude ==
  ASSUME TypeOK, ToldInv, UpstreamInv, Conclude
  PROVE  ToldInv'
<1>1. /\ phase = "executing" /\ pc = "ended" /\ phase' = "returned" /\ record' = Verdict
      /\ UNCHANGED <<vars, drawn, resumed>>
  BY DEF Conclude
<1>2. EngineInv
  BY <1>1 DEF UpstreamInv
<1>3. ASSUME NEW t \in Tasks \ finalizers, FailedRow(t), Verdict = "completed"
      PROVE  FALSE
  <2>1. status[t] = "failed"
    BY <1>1, <1>3 DEF ToldInv, FailedRowTold
  <2>2. t \in nodes
    BY <1>2, <2>1 DEF EngineInv, Bookkeeping
  <2>3. With("failed") = {}
    BY <1>3 DEF Verdict, ReviewPasses
  <2> QED
    BY <2>1, <2>2, <2>3 DEF With
<1>4. UNCHANGED <<graph, status, handle, pc, cancelled, failedHard, store>>
  BY <1>1 DEF vars
<1>5. EndInv' /\ NoStray' /\ finalizers' \subseteq drawn'
  BY <1>1, <1>4 DEF ToldInv, EndInv, NoStray, graph
<1>6. ASSUME NEW t \in Tasks \ finalizers', FailedRow(t)'
      PROVE  FailedRowTold(t)'
  BY <1>1, <1>4, <1>6 DEF ToldInv, FailedRow, FailedRowTold, Saved, graph
<1> QED
  BY <1>1, <1>3, <1>4, <1>5, <1>6 DEF ToldInv, FailedRow, graph

LEMMA ToldStep ==
  ASSUME ~StoreFails, ~StrayCancel, TypeOK, DurableInv, RowKept, UpstreamInv, ToldInv,
         [WfNext]_allVars
  PROVE  ToldInv'
<1> USE DEF vars
<1>1. CASE StartRun \/ PlanFails \/ Rejected \/ VerdictUnsaved
  BY <1>1, ToldQuiet DEF StartRun, PlanFails, Rejected, VerdictUnsaved
<1>2. CASE CancelWorkflow
  <2>1. /\ UNCHANGED <<graph, status, handle, pc, failedHard, store, resumed, drawn>>
        /\ phase' = phase /\ record' = record /\ (cancelled' = cancelled \/ cancelled')
    BY <1>2 DEF CancelWorkflow, Cancel
  <2> QED
    BY <2>1, ToldQuiet
<1>3. CASE Crash \/ CrashBetweenRows
  <2>1. /\ pc' = "idle" /\ phase' = "down" /\ UNCHANGED <<finalizers, drawn, record>>
        /\ \A t \in Tasks : handle'[t] = "none"
        /\ phase \notin {"new"}
    BY <1>3, RowsCutShort DEF Crash, Die
  <2>2. ASSUME NEW t \in Tasks \ finalizers, FailedRow(t)'
        PROVE  \A d \in store'[t].deps : Saved(d) /\ d \in Tasks
    <3>1. CASE store'[t] = store[t]
      BY <2>2, <3>1 DEF ToldInv, FailedRow, FailedRowTold, TypeOK
    <3>2. CASE store'[t] # store[t]
      <4>1. /\ store'[t].deps = deps[t] /\ handle[t] = "failed" /\ pc \in {"wait", "settle"}
            /\ phase = "executing"
        BY <1>3, <2>2, <3>2, RowsCutShort DEF Crash, FailedRow
      <4>2. EngineInv
        BY <4>1 DEF UpstreamInv
      <4>3. Entered(t) /\ t \in nodes \ finalizers
        BY <4>1, <4>2 DEF Entered, EngineInv, Bookkeeping, Running
      <4>4. \A d \in deps[t] : status[d] = "completed" /\ d \in Tasks
        BY <4>2, <4>3 DEF EngineInv, UpstreamCompleted, TypeOK
      <4> QED
        BY <4>1, <4>4 DEF UpstreamInv, MemorySaved
    <3> QED
      BY <3>1, <3>2
  <2>3. ASSUME NEW t \in Tasks \ finalizers', FailedRow(t)'
        PROVE  FailedRowTold(t)'
    BY <2>1, <2>2, <2>3 DEF FailedRowTold, RowKept, Saved
  <2> QED
    BY <2>1, <2>3 DEF ToldInv, EndInv, NoStray
<1>4. CASE UNCHANGED allVars
  BY <1>4, ToldQuiet DEF allVars, wfVars
<1>5. ASSUME NEW p \in Plans, PlanReady(p)
      PROVE  ToldInv'
  BY <1>5, ToldPlanned
<1>6. ASSUME NEW p \in Plans, NEW saved \in SUBSET p.nodes,
             CrashWhileSaving(p, saved) \/ PlanUnsaved(p, saved)
      PROVE  ToldInv'
  BY <1>6, ToldPlanned
<1> QED
  BY WfStepCases, <1>1, <1>2, <1>3, <1>4, <1>5, <1>6,
     ToldBegin, ToldEngine, ToldRunner, ToldResume, ToldConclude

LEMMA ToldInit ==
  ASSUME WfInit
  PROVE  ToldInv
  BY DEF WfInit, ToldInv, EndInv, NoStray, FailedRow, NoRow, Row
-----------------------------------------------------------------------------
(***************************************************************************)
(* A workflow without finalizers does not end COMPLETED while a task whose *)
(* row says QUEUED could be started by a resume.  Such a task may well be  *)
(* left: a process that dies between the rows of one _cancel_dependents    *)
(* leaves QUEUED rows behind CANCELLED ones.  But then a dependency in its *)
(* row is not saved COMPLETED.  What a REPLAN has put in the place of that *)
(* dependency is no obstacle: subtasks without a row are never cancelled   *)
(* unless a task fails, so among them there is always one that can start.  *)
(***************************************************************************)
Fresh(t) == status[t] = "queued" /\ store[t].status = "absent"
Passes(d) == status[d] # "cancelled" /\ (status[d] = "queued" => Fresh(d))

Stuck(t) == \E d \in store[t].deps : ~Saved(d)

WaitTask(t) ==
  /\ store[t].status = "queued" => status[t] \in {"queued", "running"}
  /\ pc \notin {"drain", "ended"} =>
       /\ status[t] = "cancelled" => store[t].status # "absent"
       /\ Fresh(t) => \A d \in deps[t] : Passes(d)
       /\ store[t].status = "queued" => \A d \in deps[t] \ store[t].deps : Passes(d)
  /\ pc \in {"drain", "ended"} => store[t].status # "queued" \/ With("failed") # {} \/ Stuck(t)

WaitInv ==
  finalizers = {} =>
    /\ phase = "executing" /\ pc # "rejected" => \A t \in Tasks : WaitTask(t)
    /\ phase = "executing" /\ pc = "idle" =>
         /\ \A t \in Tasks : /\ store[t].status = status[t]
                             /\ status[t] = "queued" => deps[t] \subseteq store[t].deps
         /\ ~resumed => \A t \in Tasks : store[t].status \in {"queued", "absent"}

(* A queued task behind one that _cancel_dependents reaches is reached.    *)
LEMMA DoomedClosed ==
  ASSUME NEW u, NEW t \in nodes, finalizers = {}, t # u, status[t] = "queued",
         deps[t] \cap Doomed(u) # {}
  PROVE  t \in Doomed(u)
<1> DEFINE E == {d \in nodes : d # u /\ status[d] \notin Terminal /\ d \notin finalizers}
<1>1. t \in E /\ Doomed(u) = Downstream(E, deps, u)
  BY DEF Doomed, Terminal
<1> HIDE DEF E
<1>2. SUFFICES ASSUME NEW S \in SUBSET E, DownstreamClosed(S, E, deps, u)
               PROVE  t \in S
  BY <1>1 DEF Downstream
<1>3. Downstream(E, deps, u) \subseteq S
  BY <1>2 DEF Downstream
<1> QED
  BY <1>1, <1>2, <1>3 DEF DownstreamClosed

(* When a run ends by itself and nothing failed, a task whose row says     *)
(* QUEUED waits for one that is not saved COMPLETED.                       *)
LEMMA NothingWaits ==
  ASSUME DurableInv, phase = "executing", EngineInv, finalizers = {}, pc = "top",
         Ready = {}, Running = {}, With("failed") = {},
         \A t \in Tasks : WaitTask(t), NEW t \in Tasks, store[t].status = "queued"
  PROVE  Stuck(t)
<1> DEFINE S == {u \in nodes : Fresh(u)}
<1>1. \A u \in Tasks : status[u] # "running"
  BY DEF EngineInv, HandlesAgree
<1>2. ASSUME NEW d \in nodes, Passes(d), d \notin S
      PROVE  status[d] = "completed"
  <2>1. status[d] \in Status \cup {"absent"} /\ d \in Tasks
    BY DEF EngineInv, TypeOK
  <2>2. status[d] \notin {"failed", "running", "absent", "cancelled", "queued"}
    BY <1>1, <1>2, <2>1 DEF With, Passes, EngineInv, Bookkeeping
  <2> QED
    BY <2>1, <2>2 DEF Status, Terminal
<1>3. \A u \in nodes : u \in Tasks /\ deps[u] \subseteq nodes
  BY DEF EngineInv, GraphStaysValid, ValidGraph, UnknownDependency, TypeOK
<1>4. S = {}
  <2>1. SUFFICES ASSUME S # {}
                 PROVE  FALSE
    OBVIOUS
  <2>2. PICK m \in S : deps[m] \cap S = {}
    BY <2>1 DEF EngineInv, GraphStaysValid, ValidGraph, Acyclic
  <2>3. m \in nodes /\ m \in Tasks /\ Fresh(m)
    BY <1>3, <2>2
  <2>4. \A d \in deps[m] : Passes(d)
    BY <2>3 DEF WaitTask
  <2>5. \A d \in deps[m] : status[d] = "completed"
    BY <1>2, <1>3, <2>2, <2>3, <2>4
  <2>6. m \in Ready
    BY <2>3, <2>5 DEF Ready, DependenciesAllow, Fresh
  <2> QED
    BY <2>6
<1>5. t \in nodes /\ status[t] = "queued"
  BY <1>1 DEF WaitTask, EngineInv, Bookkeeping
<1>6. PICK d \in deps[t] \cap nodes : status[d] # "completed"
  BY <1>5 DEF Ready, DependenciesAllow
<1>7. ~Saved(d) /\ d \in Tasks
  BY <1>3, <1>6 DEF DurableInv
<1>8. d \in store[t].deps
  <2>1. SUFFICES ASSUME d \notin store[t].deps
                 PROVE  FALSE
    OBVIOUS
  <2>2. Passes(d)
    BY <1>6, <2>1 DEF WaitTask
  <2> QED
    BY <1>2, <1>4, <1>6, <2>2
<1> QED
  BY <1>7, <1>8 DEF Stuck

LEMMA WaitLaunch ==
  ASSUME TypeOK, DurableInv, EngineInv, WaitInv, finalizers = {}, phase = "executing",
         NEW L \in SUBSET Ready, Launch(L)
  PROVE  \A t \in Tasks : WaitTask(t)'
<1>1. /\ \A u \in Tasks : status'[u] = IF u \in L THEN "running" ELSE status[u]
      /\ pc = "top" /\ pc' = (IF Running \cup L = {} THEN "ended" ELSE "wait")
      /\ nodes' = nodes /\ deps' = deps /\ store' = store /\ Launchable(L)
  BY DEF Launch, AfterLaunch, graph
<1>2. \A u \in L : status[u] = "queued"
  BY DEF Ready
<1>3. \A u \in Tasks : WaitTask(u)
  BY <1>1 DEF WaitInv
<1>4. \A d \in Tasks : Passes(d) => Passes(d)'
  BY <1>1 DEF Passes, Fresh
<1>5. ASSUME NEW t \in Tasks
      PROVE  WaitTask(t)'
  <2>1. WaitTask(t) /\ deps[t] \subseteq Tasks
    BY <1>3 DEF TypeOK
  <2>2. store'[t].status = "queued" => status'[t] \in {"queued", "running"}
    BY <1>1, <2>1 DEF WaitTask
  <2>3. Fresh(t)' => \A d \in deps'[t] : Passes(d)'
    BY <1>1, <1>4, <2>1 DEF WaitTask, Fresh
  <2>7. status'[t] = "cancelled" => store'[t].status # "absent"
    BY <1>1, <2>1 DEF WaitTask
  <2>4. store'[t].status = "queued" => \A d \in deps'[t] \ store'[t].deps : Passes(d)'
    BY <1>1, <1>4, <2>1 DEF WaitTask
  <2>5. ASSUME pc' = "ended"
        PROVE  store'[t].status # "queued" \/ With("failed")' # {} \/ Stuck(t)'
    <3>1. Running = {} /\ L = {}
      BY <1>1, <2>5
    <3>2. Cardinality(L) = 0 /\ Cardinality(Running) = 0 /\ Slots # 0
      BY <3>1, FS_EmptySet, ConcurrencyAssumption DEF Slots
    <3>3. Ready = {}
      BY <1>1, <3>1, <3>2, SlotsIsPositive DEF Launchable
    <3>4. With("failed")' = With("failed") /\ Stuck(t)' = Stuck(t)
      BY <1>1, <3>1 DEF With, TypeOK, Stuck, Saved
    <3> QED
      BY <1>1, <1>3, <3>1, <3>3, <3>4, NothingWaits
  <2>6. pc' # "drain"
    BY <1>1
  <2> QED
    BY <2>2, <2>3, <2>4, <2>5, <2>6, <2>7 DEF WaitTask
<1> QED
  BY <1>5

LEMMA WaitStop ==
  ASSUME ~StoreFails, TypeOK, EngineInv, WaitInv, finalizers = {}, phase = "executing", StopRun
  PROVE  \A t \in Tasks : WaitTask(t)'
<1>1. Persist(Unfinished) /\ Unfinished \in SUBSET Tasks /\ pc = "top" /\ pc' \in {"drain", "ended"}
      /\ \A u \in Unfinished : u \in Tasks /\ status'[u] = "cancelled"
  BY DEF StopRun, CancelRemaining, Unfinished, TypeOK
<1>2. ASSUME NEW t \in Tasks
      PROVE  store'[t].status # "queued"
  <2>1. CASE t \in Unfinished
    BY <1>1, <2>1, RowMade
  <2>2. CASE t \notin Unfinished
    <3>1. store'[t] = store[t]
      BY <1>1, <2>2, RowMade
    <3>2. WaitTask(t)
      BY <1>1 DEF WaitInv
    <3> QED
      BY <2>2, <3>1, <3>2 DEF WaitTask, Unfinished, Terminal, EngineInv, Bookkeeping
  <2> QED
    BY <2>1, <2>2
<1> QED
  BY <1>1, <1>2 DEF WaitTask

LEMMA WaitSettle ==
  ASSUME ~StoreFails, TypeOK, EngineInv, ToldInv, WaitInv, finalizers = {}, phase = "executing",
         NEW u \in Tasks, Settle(u)
  PROVE  \A t \in Tasks : WaitTask(t)'
<1>1. /\ pc \in {"wait", "settle"} /\ pc' \in {"top", "settle"}
      /\ nodes' = nodes /\ deps' = deps
      /\ handle[u] # "none"
  BY DEF Settle, SettleAborted, SettleCompleted, SettleFailed, graph, TypeOK
<1>2. status[u] = "running" /\ u \in nodes /\ ~SettleAborted(u)
  BY <1>1 DEF EngineInv, HandlesAgree, Bookkeeping, Running, SettleAborted, ToldInv, NoStray
<1>3. PICK gone \in SUBSET Doomed(u), st \in {"completed", "failed"} :
        /\ \A v \in Tasks : status'[v] = IF v = u THEN st
                                         ELSE IF v \in gone THEN "cancelled" ELSE status[v]
        /\ Persist({u} \cup gone)
        /\ gone = {} \/ gone = Doomed(u)
  <2>1. CASE SettleCompleted(u)
    <3> WITNESS {} \in SUBSET Doomed(u), "completed" \in {"completed", "failed"}
    <3> QED
      BY <2>1 DEF SettleCompleted, TypeOK
  <2>2. CASE SettleFailed(u) /\ CancelDependents
    <3> WITNESS Doomed(u) \in SUBSET Doomed(u), "failed" \in {"completed", "failed"}
    <3> QED
      BY <2>2 DEF SettleFailed
  <2>3. CASE SettleFailed(u) /\ ~CancelDependents
    <3> WITNESS {} \in SUBSET Doomed(u), "failed" \in {"completed", "failed"}
    <3> QED
      BY <2>3 DEF SettleFailed
  <2> QED
    BY <1>2, <2>1, <2>2, <2>3 DEF Settle
<1>4. \A v \in gone : v \in nodes /\ v # u /\ status[v] = "queued"
  BY <1>2, DoomedIsWaiting DEF EngineInv
<1>5. {u} \cup gone \in SUBSET Tasks
  BY <1>4 DEF TypeOK
<1>6. \A v \in Tasks : /\ v \notin {u} \cup gone => store'[v] = store[v]
                       /\ v = u => store'[v].status = st
                       /\ v \in gone => store'[v].status = "cancelled"
  BY <1>3, <1>4, <1>5, RowMade
<1>7. \A t \in nodes : t # u /\ status[t] = "queued" /\ deps[t] \cap gone # {} => t \in gone
  BY <1>3, DoomedClosed
<1>8. \A t \in Tasks : WaitTask(t) /\ deps[t] \subseteq Tasks
  BY <1>1 DEF WaitInv, TypeOK
<1>9. \A d \in Tasks : Passes(d) /\ d \notin gone => Passes(d)'
  BY <1>3, <1>6 DEF Passes, Fresh
<1>10. ASSUME NEW t \in Tasks, store'[t].status \in {"queued", "absent"}
       PROVE  /\ t \notin {u} \cup gone /\ store'[t] = store[t] /\ status'[t] = status[t]
  <2>1. t \notin {u} \cup gone
    BY <1>3, <1>6, <1>10
  <2> QED
    BY <1>3, <1>6, <2>1
<1>11. ASSUME NEW t \in Tasks, t \notin {u} \cup gone, status[t] \in {"queued", "running"}
       PROVE  deps[t] \cap gone = {}
  <2>1. t \in nodes
    BY <1>11 DEF EngineInv, Bookkeeping
  <2>2. CASE status[t] = "queued"
    BY <1>7, <1>11, <2>1, <2>2
  <2>3. CASE status[t] = "running"
    BY <1>4, <2>1, <2>3 DEF EngineInv, UpstreamCompleted, Entered
  <2> QED
    BY <1>11, <2>2, <2>3
<1>12. ASSUME NEW t \in Tasks
       PROVE  WaitTask(t)'
  <2>1. store'[t].status = "queued" => status'[t] \in {"queued", "running"}
    BY <1>8, <1>10 DEF WaitTask
  <2>2. ASSUME Fresh(t)', NEW d \in deps'[t]
        PROVE  Passes(d)'
    <3>1. Fresh(t) /\ t \notin {u} \cup gone /\ status[t] = "queued" /\ d \in deps[t] /\ d \in Tasks
      BY <1>1, <1>8, <1>10, <2>2 DEF Fresh
    <3>2. d \notin gone
      BY <1>11, <3>1
    <3>3. Passes(d)
      BY <1>1, <1>8, <3>1 DEF WaitTask
    <3> QED
      BY <1>9, <3>1, <3>2, <3>3
  <2>3. ASSUME store'[t].status = "queued", NEW d \in deps'[t] \ store'[t].deps
        PROVE  Passes(d)'
    <3>1. /\ t \notin {u} \cup gone /\ store[t].status = "queued" /\ store'[t] = store[t]
          /\ d \in deps[t] \ store[t].deps /\ d \in Tasks
      BY <1>1, <1>8, <1>10, <2>3
    <3>2. Passes(d) /\ status[t] \in {"queued", "running"}
      BY <1>1, <1>8, <3>1 DEF WaitTask
    <3>3. d \notin gone
      BY <1>11, <3>1, <3>2
    <3> QED
      BY <1>9, <3>1, <3>2, <3>3
  <2>4. status'[t] = "cancelled" => store'[t].status # "absent"
    BY <1>1, <1>3, <1>6, <1>8 DEF WaitTask
  <2> QED
    BY <1>1, <2>1, <2>2, <2>3, <2>4 DEF WaitTask
<1> QED
  BY <1>12

LEMMA WaitReplan ==
  ASSUME TypeOK, DurableInv, EngineInv, WaitInv, finalizers = {}, phase = "executing",
         NEW r \in Tasks, NEW s1 \in Tasks \ drawn, NEW s2 \in Tasks \ drawn, Replan(r, s1, s2)
  PROVE  \A t \in Tasks : WaitTask(t)'
<1> DEFINE outer == DependentsOf(nodes, deps, r)
<1>1. /\ pc \in {"wait", "drain"} /\ pc' = pc /\ store' = store
      /\ handle[r] = "active" /\ s1 \notin nodes /\ s2 \notin nodes /\ s1 # s2
      /\ nodes' = nodes \cup {s1, s2} /\ deps' = Rewired(r, s1, s2)
      /\ \A v \in Tasks : status'[v] = IF \/ v \in {s1, s2}
                                          \/ v \in outer /\ status[v] = "cancelled"
                                       THEN "queued" ELSE status[v]
  BY DEF Replan, Awaiting
<1>2. status[s1] = "absent" /\ status[s2] = "absent" /\ r \in nodes
  BY <1>1 DEF EngineInv, Bookkeeping, Running
<1>3. store[s1].status = "absent" /\ store[s2].status = "absent"
  BY DEF DurableInv
<1>4. \A t \in Tasks : WaitTask(t) /\ deps[t] \subseteq Tasks
  BY <1>1 DEF WaitInv, TypeOK
<1>5. pc = "wait" => \A d \in deps[r] : status[d] = "completed"
  BY <1>1, <1>2 DEF EngineInv, HandlesAgree, Running, UpstreamCompleted, Entered
<1>6. /\ deps'[s1] = deps[r] /\ deps'[s2] = {s1}
      /\ \A t \in Tasks \ {s1, s2} : deps'[t] \subseteq deps[t] \cup {s2}
  BY <1>1 DEF Rewired
<1> HIDE DEF outer
<1>7. Passes(s1)' /\ Passes(s2)'
  BY <1>1, <1>3 DEF Passes, Fresh
<1>8. \A d \in Tasks : Passes(d) => Passes(d)'
  BY <1>1, <1>7 DEF Passes, Fresh
<1>9. ASSUME NEW t \in Tasks
      PROVE  WaitTask(t)'
  <2>1. store'[t].status = "queued" => t \notin {s1, s2} /\ status'[t] \in {"queued", "running"}
    BY <1>1, <1>3, <1>4 DEF WaitTask
  <2>2. ASSUME pc = "wait", Fresh(t)', NEW d \in deps'[t]
        PROVE  Passes(d)'
    <3>1. CASE t = s1
      BY <1>1, <1>2, <1>4, <1>5, <1>6, <1>8, <2>2, <3>1 DEF Passes
    <3>2. CASE t = s2
      BY <1>6, <1>7, <2>2, <3>2
    <3>3. CASE t \notin {s1, s2}
      <4>1. d = s2 \/ d \in deps[t]
        BY <1>6, <2>2, <3>3
      <4>2. CASE status[t] = "cancelled"
        BY <1>1, <1>4, <1>7, <1>8, <2>2, <3>3, <4>1, <4>2 DEF Fresh, WaitTask
      <4>3. CASE status[t] # "cancelled"
        <5>1. Fresh(t)
          BY <1>1, <2>2, <3>3, <4>3 DEF Fresh
        <5> QED
          BY <1>4, <1>7, <1>8, <2>2, <4>1, <5>1 DEF WaitTask
      <4> QED
        BY <4>2, <4>3
    <3> QED
      BY <3>1, <3>2, <3>3
  <2>3. ASSUME pc = "wait", store'[t].status = "queued", NEW d \in deps'[t] \ store'[t].deps
        PROVE  Passes(d)'
    <3>1. d = s2 \/ d \in deps[t] \ store[t].deps
      BY <1>1, <1>6, <2>1, <2>3
    <3> QED
      BY <1>1, <1>4, <1>7, <1>8, <2>3, <3>1 DEF WaitTask
  <2>5. pc = "wait" /\ status'[t] = "cancelled" => store'[t].status # "absent"
    BY <1>1, <1>4 DEF WaitTask
  <2>4. ASSUME pc = "drain"
        PROVE  store'[t].status # "queued" \/ With("failed")' # {} \/ Stuck(t)'
    <3>1. \A v \in With("failed") : v \in With("failed")'
      BY <1>1, <1>2 DEF With, TypeOK
    <3>2. Stuck(t)' = Stuck(t)
      BY <1>1 DEF Stuck, Saved
    <3> QED
      BY <1>1, <1>4, <2>4, <3>1, <3>2 DEF WaitTask
  <2> QED
    BY <1>1, <2>1, <2>2, <2>3, <2>4, <2>5 DEF WaitTask
<1> QED
  BY <1>9

LEMMA WaitRunner ==
  ASSUME TypeOK, DurableInv, UpstreamInv, WaitInv, finalizers = {},
         NEW r \in Tasks, RunnerStep(r)
  PROVE  WaitInv'
<1>1. phase = "executing" /\ phase' = phase /\ pc \in {"wait", "drain"} /\ pc' = pc
  BY DEF RunnerStep, RunnerEnds, RunnerUnwinds, RunnerSwallows, Replan, Awaiting, wfVars
<1>2. EngineInv
  BY <1>1 DEF UpstreamInv
<1>3. CASE UNCHANGED <<graph, status, store>>
  <2>1. \A t \in Tasks : WaitTask(t)
    BY <1>1 DEF WaitInv
  <2>2. \A t \in Tasks : WaitTask(t)'
    BY <1>1, <1>3, <2>1 DEF WaitTask, Passes, Fresh, Stuck, Saved, With, graph
  <2> QED
    BY <1>1, <2>2 DEF WaitInv
<1>4. ASSUME NEW s1 \in Tasks \ drawn, NEW s2 \in Tasks \ drawn, Replan(r, s1, s2)
      PROVE  WaitInv'
  BY <1>1, <1>2, <1>4, WaitReplan DEF WaitInv
<1>5. CASE (\E how \in Ended : RunnerEnds(r, how)) \/ RunnerUnwinds(r) \/ RunnerSwallows(r)
  BY <1>3, <1>5 DEF RunnerEnds, RunnerUnwinds, RunnerSwallows
<1> QED
  BY <1>4, <1>5 DEF RunnerStep

LEMMA WaitEngine ==
  ASSUME ~StoreFails, TypeOK, DurableInv, UpstreamInv, ToldInv, WaitInv, finalizers = {}, EngineStep
  PROVE  WaitInv'
<1>1. phase = "executing" /\ phase' = phase /\ pc \notin {"idle", "rejected"}
      /\ pc' \notin {"idle", "rejected"}
  BY DEF EngineStep, Engine, Launch, AfterLaunch, StopRun, Settle, Drained, wfVars
<1>2. EngineInv
  BY <1>1 DEF UpstreamInv
<1>3. ASSUME \A t \in Tasks : WaitTask(t)'
      PROVE  WaitInv'
  BY <1>1, <1>3 DEF WaitInv
<1>4. ASSUME NEW L \in SUBSET Ready, Launch(L)
      PROVE  WaitInv'
  BY <1>1, <1>2, <1>3, <1>4, WaitLaunch
<1>5. CASE StopRun
  BY <1>1, <1>2, <1>3, <1>5, WaitStop
<1>6. ASSUME NEW u \in Tasks, Settle(u)
      PROVE  WaitInv'
  BY <1>1, <1>2, <1>3, <1>6, WaitSettle
<1>7. CASE Drained
  <2>1. pc = "drain" /\ pc' = "ended" /\ UNCHANGED <<graph, status, store>>
    BY <1>7 DEF Drained
  <2>2. \A t \in Tasks : WaitTask(t)
    BY <1>1 DEF WaitInv
  <2>3. \A t \in Tasks : WaitTask(t)'
    BY <2>1, <2>2 DEF WaitTask, With, Stuck, Saved, graph
  <2> QED
    BY <1>3, <2>3
<1> QED
  BY <1>4, <1>5, <1>6, <1>7 DEF EngineStep, Engine

(* Before the engine starts, memory and rows are the same; then the FAILED *)
(* tasks are put back into the queue, but not those with a QUEUED row.     *)
LEMMA WaitBegin ==
  ASSUME TypeOK, UpstreamInv, WaitInv, finalizers = {}, Begin
  PROVE  WaitInv'
<1>1. /\ phase = "executing" /\ pc = "idle" /\ pc' \in {"top", "rejected"} /\ AtRest
      /\ UNCHANGED <<phase, graph, store>>
  BY DEF Begin, Execute, UpstreamInv
<1>2. \A t \in Tasks : /\ store[t].status = status[t]
                       /\ status[t] = "queued" => deps[t] \subseteq store[t].deps
  BY <1>1 DEF WaitInv
<1>3. \A t \in Tasks : \/ status'[t] = status[t]
                       \/ status'[t] = "queued" /\ t \in nodes
  BY DEF Begin, Execute, AfterPrologue
<1>4. ASSUME NEW t \in Tasks
      PROVE  WaitTask(t)' \/ pc' = "rejected"
  <2>1. store'[t] = store[t] /\ deps'[t] = deps[t]
    BY <1>1 DEF graph
  <2>2. store'[t].status = "queued" => status'[t] = "queued" /\ deps'[t] \ store'[t].deps = {}
    BY <1>2, <1>3, <2>1
  <2>3. ~Fresh(t)'
    <3>1. t \in nodes => store[t].status # "absent"
      BY <1>1, <1>2 DEF AtRest
    <3>2. t \notin nodes => status'[t] = "absent"
      BY <1>1, <1>3 DEF AtRest
    <3> QED
      BY <2>1, <3>1, <3>2 DEF Fresh
  <2>4. status'[t] = "cancelled" => store'[t].status # "absent"
    BY <1>2, <1>3, <2>1
  <2> QED
    BY <1>1, <2>2, <2>3, <2>4 DEF WaitTask
<1> QED
  BY <1>1, <1>4 DEF WaitInv

LEMMA WaitResume ==
  ASSUME TypeOK, WaitInv, finalizers = {}, Resume
  PROVE  WaitInv'
<1>1. /\ \A t \in Tasks : status'[t] = store[t].status /\ deps'[t] = store[t].deps
      /\ resumed' /\ pc' = "idle" /\ store' = store
  BY DEF Resume
<1>2. \A t \in Tasks : WaitTask(t)'
  BY <1>1 DEF WaitTask, Fresh
<1> QED
  BY <1>1, <1>2 DEF WaitInv

LEMMA WaitPlanned ==
  ASSUME UpstreamInv, NEW p \in Plans, NEW saved \in SUBSET p.nodes,
         \/ PlanReady(p) /\ saved = p.nodes
         \/ CrashWhileSaving(p, saved)
         \/ PlanUnsaved(p, saved)
  PROVE  WaitInv'
<1>1. Planned(p, saved) /\ pc = "idle" /\ pc' = pc
  BY DEF PlanReady, CrashWhileSaving, PlanUnsaved, Planned, UpstreamInv
<1>2. /\ p.nodes \subseteq Tasks /\ p.deps \in [Tasks -> SUBSET Tasks]
      /\ \A t \in Tasks : store'[t].status \in {"queued", "absent"}
  BY <1>1, PlannedType
<1>3. CASE PlanReady(p) /\ saved = p.nodes
  <2>1. store' = [t \in Tasks |-> IF t \in p.nodes THEN Row("queued", p.deps[t], 0) ELSE NoRow]
    BY <1>1, <1>3 DEF Planned
  <2>2. \A t \in Tasks : /\ status'[t] = store'[t].status
                         /\ status'[t] = "queued" => deps'[t] = store'[t].deps
    BY <1>3, <2>1 DEF PlanReady, Row, NoRow
  <2>3. \A t \in Tasks : WaitTask(t)'
    BY <1>1, <2>2 DEF WaitTask, Fresh
  <2> QED
    BY <1>1, <1>2, <2>2, <2>3 DEF WaitInv
<1>4. CASE CrashWhileSaving(p, saved) \/ PlanUnsaved(p, saved)
  BY <1>4 DEF CrashWhileSaving, PlanUnsaved, WaitInv
<1> QED
  BY <1>3, <1>4

LEMMA WaitQuiet ==
  ASSUME WaitInv, UNCHANGED <<graph, status, pc, store, resumed>>,
         phase' = phase \/ phase' \in {"planning", "returned", "raised"}
  PROVE  WaitInv'
<1>1. \A t \in Tasks : WaitTask(t) => WaitTask(t)'
  BY DEF WaitTask, Passes, Fresh, Stuck, Saved, With, graph
<1> QED
  BY <1>1 DEF WaitInv, graph

LEMMA WaitStep ==
  ASSUME ~StoreFails, TypeOK, DurableInv, UpstreamInv, ToldInv, WaitInv, [WfNext]_allVars
  PROVE  WaitInv'
<1> USE DEF vars
<1>1. CASE StartRun \/ PlanFails \/ Rejected \/ Conclude \/ VerdictUnsaved
  BY <1>1, WaitQuiet DEF StartRun, PlanFails, Rejected, Conclude, VerdictUnsaved
<1>2. CASE CancelWorkflow
  <2>1. UNCHANGED <<graph, status, pc, store, resumed>> /\ phase' = phase
    BY <1>2 DEF CancelWorkflow, Cancel
  <2> QED
    BY <2>1, WaitQuiet
<1>3. CASE UNCHANGED allVars
  BY <1>3, WaitQuiet DEF allVars, wfVars
<1>4. ASSUME NEW p \in Plans, PlanReady(p)
      PROVE  WaitInv'
  BY <1>4, WaitPlanned
<1>5. ASSUME NEW p \in Plans, NEW saved \in SUBSET p.nodes,
             CrashWhileSaving(p, saved) \/ PlanUnsaved(p, saved)
      PROVE  WaitInv'
  BY <1>5, WaitPlanned
<1>6. CASE Crash \/ CrashBetweenRows
  BY <1>6, RowsCutShort DEF Crash, Die, WaitInv
<1>7. CASE Begin \/ EngineStep \/ Resume \/ \E r \in Tasks : RunnerStep(r)
  <2>1. finalizers' = {} => finalizers = {}
    <3>1. CASE finalizers' = finalizers
      BY <3>1
    <3>2. ASSUME NEW s1 \in Tasks \ drawn, NEW s2 \in Tasks \ drawn,
                 finalizers' = finalizers \ {s1, s2}
          PROVE  finalizers' = {} => finalizers = {}
      BY <3>2 DEF ToldInv
    <3> QED
      BY <1>7, <3>1, <3>2 DEF Begin, Execute, EngineStep, Engine, Launch, StopRun, Settle, Drained,
         Resume, RunnerStep, RunnerEnds, RunnerUnwinds, RunnerSwallows, Replan, graph
  <2>2. CASE finalizers' # {}
    BY <2>2 DEF WaitInv
  <2> QED
    BY <1>7, <2>1, <2>2, WaitBegin, WaitEngine, WaitResume, WaitRunner
<1> QED
  BY WfStepCases, <1>1, <1>2, <1>3, <1>4, <1>5, <1>6, <1>7
-----------------------------------------------------------------------------
(***************************************************************************)
(* A workflow that has ended COMPLETED and has no finalizer is over: its   *)
(* tasks are COMPLETED or CANCELLED, which a resume leaves alone, or they  *)
(* are QUEUED behind one that is not COMPLETED, and no resume starts them. *)
(***************************************************************************)
Stays == {"absent", "completed", "cancelled", "queued"}

OverTask(t) ==
  /\ store[t].status \in Stays
  /\ store[t].status = "queued" => Stuck(t)

OverInv ==
  record = "completed" =>
    /\ phase \notin {"new", "planning"}
    /\ finalizers = {} =>
         /\ \A t \in Tasks : OverTask(t)
         /\ phase = "executing" =>
              /\ \A t \in Tasks : /\ status[t] \in Stays /\ handle[t] = "none"
                                  /\ status[t] = "queued" => store[t].status = "queued"
                                                             /\ deps[t] = store[t].deps
              /\ pc = "idle" => resumed

(* Saves of CANCELLED for tasks that are not saved COMPLETED.              *)
LEMMA OverRows ==
  ASSUME \A t \in Tasks : OverTask(t), \A t \in Tasks : store[t].deps \subseteq Tasks,
         \A t \in Tasks : \/ store'[t] = store[t]
                          \/ store'[t].status = "cancelled" /\ ~Saved(t)
  PROVE  \A t \in Tasks : OverTask(t)'
<1>1. \A d \in Tasks : ~Saved(d) => ~Saved(d)'
  BY DEF Saved
<1>2. ASSUME NEW t \in Tasks
      PROVE  OverTask(t)'
  <2>1. CASE store'[t] = store[t]
    BY <1>1, <2>1 DEF OverTask, Stuck
  <2>2. CASE store'[t].status = "cancelled"
    BY <2>2 DEF OverTask, Stays
  <2> QED
    BY <2>1, <2>2
<1> QED
  BY <1>2

LEMMA OverEngine ==
  ASSUME ~StoreFails, TypeOK, DurableInv, UpstreamInv, OverInv, EngineStep
  PROVE  OverInv'
<1>1. /\ phase = "executing" /\ UNCHANGED wfVars /\ finalizers' = finalizers /\ deps' = deps
      /\ pc \notin {"idle", "rejected"} /\ pc' # "idle"
  BY DEF EngineStep, Engine, Launch, AfterLaunch, StopRun, Settle, Drained, graph
<1>2. EngineInv
  BY <1>1 DEF UpstreamInv
<1>3. SUFFICES ASSUME record = "completed", finalizers = {}
               PROVE  \A t \in Tasks : /\ OverTask(t)' /\ status'[t] \in Stays /\ handle'[t] = "none"
                                       /\ status'[t] = "queued" => store'[t].status = "queued"
                                                                   /\ deps'[t] = store'[t].deps
  BY <1>1 DEF OverInv, wfVars
<1>4. \A t \in Tasks : /\ OverTask(t) /\ status[t] \in Stays /\ handle[t] = "none"
                       /\ status[t] = "queued" => store[t].status = "queued"
                                                  /\ deps[t] = store[t].deps
  BY <1>1, <1>3 DEF OverInv
<1>5. Ready = {}
  <2>1. SUFFICES ASSUME NEW t \in Ready
                 PROVE  FALSE
    OBVIOUS
  <2>2. t \in nodes /\ t \in Tasks /\ status[t] = "queued" /\ deps[t] \subseteq nodes
    BY <1>1, <1>2 DEF Ready, EngineInv, GraphStaysValid, ValidGraph, UnknownDependency, TypeOK
  <2>3. PICK x \in deps[t] : ~Saved(x)
    BY <1>4, <2>2 DEF OverTask, Stuck
  <2>4. x \in Tasks /\ status[x] = "completed"
    BY <1>3, <2>2, <2>3 DEF Ready, DependenciesAllow, TypeOK
  <2> QED
    BY <1>1, <2>3, <2>4 DEF UpstreamInv, MemorySaved
<1>6. ASSUME UNCHANGED <<store, status, handle>>
      PROVE  \A t \in Tasks : /\ OverTask(t)' /\ status'[t] \in Stays /\ handle'[t] = "none"
                              /\ status'[t] = "queued" => store'[t].status = "queued"
                                                          /\ deps'[t] = store'[t].deps
  BY <1>1, <1>4, <1>6 DEF OverTask, Stuck, Saved
<1>7. ASSUME NEW L \in SUBSET Ready, Launch(L)
      PROVE  UNCHANGED <<store, status, handle>>
  BY <1>5, <1>7 DEF Launch, TypeOK
<1>8. CASE StopRun
  <2>1. /\ Unfinished \in SUBSET Tasks /\ Persist(Unfinished)
        /\ \A t \in Tasks : status'[t] = IF t \in Unfinished THEN "cancelled" ELSE status[t]
        /\ \A t \in Tasks : handle'[t] = "none"
    BY <1>4, <1>8 DEF StopRun, CancelRemaining, Unfinished, TypeOK
  <2>2. \A t \in Tasks : /\ t \notin Unfinished => store'[t] = store[t]
                         /\ t \in Unfinished => store'[t].status = "cancelled"
    BY <2>1, RowMade
  <2>3. \A t \in Unfinished : ~Saved(t)
    BY <1>1 DEF Unfinished, Terminal, DurableInv, TypeOK
  <2>4. \A t \in Tasks : OverTask(t)'
    <3>1. \A t \in Tasks : \/ store'[t] = store[t]
                           \/ store'[t].status = "cancelled" /\ ~Saved(t)
      BY <2>2, <2>3
    <3>2. \A t \in Tasks : OverTask(t)
      BY <1>4
    <3>3. \A t \in Tasks : store[t].deps \subseteq Tasks
      BY DEF TypeOK
    <3> QED
      BY <3>1, <3>2, <3>3, OverRows
  <2>5. \A t \in Tasks : status[t] = "queued" => t \in Unfinished
    BY <1>2 DEF EngineInv, Bookkeeping, Unfinished, Terminal
  <2> QED
    BY <1>4, <2>1, <2>2, <2>4, <2>5 DEF Stays
<1>9. ASSUME NEW u \in Tasks, Settle(u)
      PROVE  FALSE
  BY <1>4, <1>9 DEF Settle, SettleAborted, SettleCompleted, SettleFailed
<1>10. CASE Drained
  <2>1. UNCHANGED <<store, status, handle>>
    BY <1>4, <1>10 DEF Drained, TypeOK
  <2> QED
    BY <1>6, <2>1
<1> QED
  BY <1>6, <1>7, <1>8, <1>9, <1>10 DEF EngineStep, Engine

LEMMA OverRunner ==
  ASSUME TypeOK, ToldInv, OverInv, NEW r \in Tasks, RunnerStep(r)
  PROVE  OverInv'
<1>1. phase = "executing" /\ handle[r] # "none" /\ UNCHANGED record /\ phase' = phase
  BY DEF RunnerStep, RunnerEnds, RunnerUnwinds, RunnerSwallows, Replan, wfVars
<1>2. finalizers' = {} => finalizers = {}
  <2>1. CASE finalizers' = finalizers
    BY <2>1
  <2>2. ASSUME NEW s1 \in Tasks \ drawn, NEW s2 \in Tasks \ drawn,
               finalizers' = finalizers \ {s1, s2}
        PROVE  finalizers' = {} => finalizers = {}
    BY <2>2 DEF ToldInv
  <2> QED
    BY <2>1, <2>2 DEF RunnerStep, RunnerEnds, RunnerUnwinds, RunnerSwallows, Replan, graph
<1> QED
  BY <1>1, <1>2 DEF OverInv

LEMMA OverConclude ==
  ASSUME TypeOK, UpstreamInv, ToldInv, WaitInv, Conclude
  PROVE  OverInv'
<1>1. /\ phase = "executing" /\ pc = "ended" /\ phase' = "returned" /\ record' = Verdict
      /\ UNCHANGED vars
  BY DEF Conclude
<1>2. ASSUME Verdict = "completed", finalizers = {}, NEW t \in Tasks
      PROVE  OverTask(t)
  <2>1. With("failed") = {}
    BY <1>2 DEF Verdict, ReviewPasses
  <2>2. store[t].status = "queued" => Stuck(t)
    BY <1>1, <1>2, <2>1 DEF WaitInv, WaitTask
  <2>3. store[t].status # "running"
    BY DEF UpstreamInv, RowsUpright
  <2>4. store[t].status # "failed"
    <3> SUFFICES ASSUME store[t].status = "failed"
                 PROVE  FALSE
      OBVIOUS
    <3>1. status[t] = "failed"
      BY <1>1, <1>2 DEF ToldInv, FailedRow, FailedRowTold
    <3>2. t \in nodes
      BY <1>1, <3>1 DEF UpstreamInv, EngineInv, Bookkeeping
    <3> QED
      BY <2>1, <3>1, <3>2 DEF With
  <2>5. store[t].status \in Status \cup {"absent"}
    BY DEF TypeOK
  <2> QED
    BY <2>2, <2>3, <2>4, <2>5 DEF OverTask, Status, Terminal, Stays
<1> QED
  BY <1>1, <1>2 DEF OverInv, OverTask, Stuck, Saved, vars, graph

LEMMA OverStep ==
  ASSUME ~StoreFails, TypeOK, DurableInv, UpstreamInv, ToldInv, WaitInv, OverInv,
         [WfNext]_allVars
  PROVE  OverInv'
<1> USE DEF vars, graph
<1>0. ASSUME store' = store
      PROVE  \A t \in Tasks : OverTask(t) => OverTask(t)'
  BY <1>0 DEF OverTask, Stuck, Saved
<1>1. CASE StartRun \/ PlanFails \/ Rejected \/ VerdictUnsaved
  BY <1>0, <1>1 DEF StartRun, PlanFails, Rejected, VerdictUnsaved, OverInv
<1>2. CASE CancelWorkflow
  BY <1>0, <1>2 DEF CancelWorkflow, Cancel, OverInv
<1>3. CASE UNCHANGED allVars
  BY <1>0, <1>3 DEF allVars, wfVars, OverInv
<1>4. ASSUME NEW p \in Plans, NEW saved \in SUBSET p.nodes, Planned(p, saved)
      PROVE  OverInv'
  BY <1>4 DEF Planned, OverInv
<1>5. CASE Crash
  BY <1>0, <1>5 DEF Crash, Die, OverInv
<1>6. CASE CrashBetweenRows
  <2>1. phase = "executing" /\ phase' = "down" /\ record' = record /\ finalizers' = finalizers
    BY <1>6, RowsCutShort DEF Die
  <2>2. ASSUME record = "completed", finalizers = {}
        PROVE  \A t \in Tasks : OverTask(t)'
    <3>1. \A t \in Tasks : OverTask(t) /\ handle[t] = "none"
      BY <2>1, <2>2 DEF OverInv
    <3>2. \A t \in Tasks : \/ store'[t] = store[t]
                           \/ store'[t].status = "cancelled" /\ status[t] \notin Terminal
      BY <1>6, <3>1, RowsCutShort
    <3>3. \A t \in Tasks : status[t] \notin Terminal => ~Saved(t)
      BY <2>1 DEF DurableInv, Terminal
    <3>4. \A t \in Tasks : \/ store'[t] = store[t]
                           \/ store'[t].status = "cancelled" /\ ~Saved(t)
      BY <3>2, <3>3
    <3>5. \A t \in Tasks : store[t].deps \subseteq Tasks
      BY DEF TypeOK
    <3>6. \A t \in Tasks : OverTask(t)
      BY <3>1
    <3> QED
      BY <3>4, <3>5, <3>6, OverRows
  <2> QED
    BY <2>1, <2>2 DEF OverInv
<1>7. CASE Begin
  <2>1. /\ phase = "executing" /\ pc = "idle" /\ pc' # "idle"
        /\ UNCHANGED <<phase, record, handle, store, finalizers, deps>>
    BY <1>7 DEF Begin, Execute
  <2>2. \A t \in Tasks : \/ status'[t] = status[t]
                         \/ status'[t] = AfterPrologue(resumed, status[t])
    BY <1>7 DEF Begin, Execute
  <2> QED
    BY <1>0, <2>1, <2>2 DEF OverInv, AfterPrologue, Stays
<1>8. CASE Resume
  <2>1. /\ \A t \in Tasks : /\ status'[t] = store[t].status /\ deps'[t] = store[t].deps
                            /\ handle'[t] = "none"
        /\ resumed' /\ UNCHANGED <<store, record, finalizers>>
        /\ phase' \in {"raised", "executing"}
    BY <1>8 DEF Resume
  <2> QED
    BY <1>0, <2>1 DEF OverInv, OverTask
<1> QED
  BY WfStepCases, <1>1, <1>2, <1>3, <1>4, <1>5, <1>6, <1>7, <1>8,
     OverEngine, OverRunner, OverConclude DEF PlanReady, CrashWhileSaving, PlanUnsaved

(* The verdict of a workflow agrees with the rows it leaves behind, over   *)
(* any number of crashes, cancellations, replans and resumes, provided     *)
(* that saves succeed and runners are cancelled by the engine only.        *)
THEOREM RecordAlwaysAgrees ==
  ASSUME ~StoreFails, ~StrayCancel
  PROVE  WfSpec => []RecordAgrees
<1> DEFINE Inv == TypeOK /\ DurableInv /\ UpstreamInv /\ ToldInv /\ WaitInv /\ OverInv
<1>1. WfInit => Inv
  <2>1. WfInit => DurableInv
    BY DEF WfInit, DurableInv, Saved, NoRow, Row
  <2>2. WfInit => UpstreamInv
    BY DEF WfInit, UpstreamInv, AtRest, UpstreamCompleted, RowsUpright, MemorySaved, Saved,
           NoRow, Row
  <2>3. WfInit => WaitInv /\ OverInv
    BY DEF WfInit, WaitInv, OverInv
  <2> QED
    BY <2>1, <2>2, <2>3, WfTypeInit, ToldInit
<1>2. Inv /\ [WfNext]_allVars => Inv'
  <2> SUFFICES ASSUME Inv, [WfNext]_allVars
               PROVE  Inv'
    OBVIOUS
  <2>1. TypeOK' /\ DurableInv' /\ RowKept
    BY WfTypeStep, DurableStep
  <2> QED
    BY <2>1, UpstreamStep, ToldStep, WaitStep, OverStep
<1>3. Inv => RecordAgrees
  BY DEF ToldInv, OverInv, OverTask, FailedRow, RecordAgrees, Stays
<1> QED
  BY <1>1, <1>2, <1>3, PTL DEF WfSpec
=============================================================================
