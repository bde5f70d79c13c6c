--------------------------- MODULE DagEngineProofs ---------------------------
(***************************************************************************)
(* DagEngine, for every set of tasks, every plan and every configuration:  *)
(* EngineInv is an invariant of Spec, and with it the four properties it   *)
(* is made of; a task is started once, results are final and late ones     *)
(* dropped, no slot stays idle, the store is current when a run ends, and  *)
(* the engine implements TaskGraph.                                        *)
(***************************************************************************)
EXTENDS DagRefinement, TLAPS, FiniteSetTheorems

(* First, facts about task graphs that hold for every graph.                *)

(* The set Downstream is closed, and it is the least such set: whatever is *)
(* reached is reached from the failed task or from something reached.      *)
LEMMA DownstreamReached ==
  ASSUME NEW eligible, NEW links, NEW failed,
         NEW d \in Downstream(eligible, links, failed)
  PROVE  /\ d \in eligible
         /\ links[d] \cap (Downstream(eligible, links, failed) \cup {failed}) # {}
<1> DEFINE D == Downstream(eligible, links, failed)
<1>1. D \subseteq eligible
  BY DEF Downstream
<1>2. DownstreamClosed(D, eligible, links, failed)
  <2> SUFFICES ASSUME NEW t \in eligible, links[t] \cap (D \cup {failed}) # {},
                      NEW S \in SUBSET eligible, DownstreamClosed(S, eligible, links, failed)
               PROVE  t \in S
    BY DEF DownstreamClosed, Downstream
  <2>1. D \subseteq S
    BY DEF Downstream
  <2> QED
    BY <2>1 DEF DownstreamClosed
<1>3. SUFFICES ASSUME links[d] \cap (D \cup {failed}) = {}
               PROVE  FALSE
  BY <1>1
<1>4. DownstreamClosed(D \ {d}, eligible, links, failed)
  BY <1>2, <1>3 DEF DownstreamClosed
<1>5. D \ {d} \in SUBSET eligible
  BY <1>1
<1> QED
  BY <1>4, <1>5 DEF Downstream

(* new  is  links  with a chain of two new tasks in the place of t. *)
IsSplit(ids, links, new, t, s1, s2) ==
  /\ t \in ids /\ s1 \notin ids /\ s2 \notin ids /\ s1 # s2
  /\ new[s1] = links[t] /\ new[s2] = {s1}
  /\ \A u \in ids : new[u] = IF t \in links[u] THEN (links[u] \ {t}) \cup {s2} ELSE links[u]

(* DAGEngine relies on it in add_tasks: putting a chain of two new tasks   *)
(* in the place of a task keeps a valid graph valid, so that the           *)
(* validate_graph at its end never raises.                                 *)
LEMMA SplitKeepsValid ==
  ASSUME NEW ids, NEW links, NEW new, NEW t, NEW s1, NEW s2,
         ValidGraph(ids, links),
         IsSplit(ids, links, new, t, s1, s2)
  PROVE  ValidGraph(ids \cup {s1, s2}, new)
<1> USE DEF IsSplit
<1>1. \A u \in ids : links[u] \subseteq ids
  BY DEF ValidGraph, UnknownDependency
<1>2. ~UnknownDependency(ids \cup {s1, s2}, new)
  BY <1>1 DEF UnknownDependency
<1>3. t \notin links[t]
  <2>1. {t} \in SUBSET ids /\ {t} # {}
    OBVIOUS
  <2> QED
    BY <2>1 DEF ValidGraph, Acyclic
<1>4. Acyclic(ids \cup {s1, s2}, new)
  <2> SUFFICES ASSUME NEW S \in SUBSET (ids \cup {s1, s2}), S # {}
               PROVE  \E u \in S : new[u] \cap S = {}
    BY DEF Acyclic
  <2>1. CASE s1 \notin S /\ s2 \notin S
    <3>1. S \in SUBSET ids
      BY <2>1
    <3>2. PICK u \in S : links[u] \cap S = {}
      BY <3>1 DEF ValidGraph, Acyclic
    <3>3. new[u] \subseteq links[u] \cup {s2}
      BY <3>1
    <3> QED
      BY <2>1, <3>2, <3>3
  <2>2. CASE s1 \in S \/ s2 \in S
    <3> DEFINE S0 == (S \ {s1, s2}) \cup {t}
    <3>1. PICK u \in S0 : links[u] \cap S0 = {}
      <4>1. S0 \in SUBSET ids /\ S0 # {}
        OBVIOUS
      <4> HIDE DEF S0
      <4> QED
        BY <4>1 DEF ValidGraph, Acyclic
    <3>2. CASE u # t
      <4>1. u \in S /\ u \in ids /\ t \notin links[u]
        BY <3>1, <3>2
      <4>2. new[u] = links[u] /\ links[u] \subseteq ids
        BY <4>1, <1>1
      <4>3. links[u] \cap S = {}
        BY <4>2, <3>1
      <4> QED
        BY <4>1, <4>2, <4>3
    <3>3. CASE u = t /\ s1 \in S
      BY <3>1, <3>3, <1>1
    <3>4. CASE u = t /\ s1 \notin S
      BY <2>2, <3>4
    <3> QED
      BY <3>2, <3>3, <3>4
  <2> QED
    BY <2>1, <2>2
<1> QED
  BY <1>2, <1>4 DEF ValidGraph
-----------------------------------------------------------------------------
LEMMA SlotsIsPositive == Slots \in Nat
  BY ConcurrencyAssumption DEF Slots

(* Whatever subset of the rows a save replaces, the store keeps its type.  *)
LEMMA PersistType ==
  ASSUME TypeOK, NEW S, Persist(S),
         status' \in [Tasks -> Status \cup {"absent"}],
         deps' \in [Tasks -> SUBSET Tasks],
         attempts' \in [Tasks -> Nat]
  PROVE  store' \in [Tasks -> [status: Status \cup {"absent"}, deps: SUBSET Tasks, attempts: Nat]]
  BY DEF TypeOK, Persist, Row

(* Nothing that _cancel_dependents reaches is running or a finalizer.      *)
LEMMA DoomedIsWaiting ==
  ASSUME TypeOK, Bookkeeping, HandlesAgree, GraphStaysValid, UpstreamCompleted,
         NEW t \in Tasks, status[t] = "running",
         NEW d \in Doomed(t)
  PROVE  d \in nodes /\ d # t /\ d \notin finalizers /\ status[d] = "queued"
<1> DEFINE E == {u \in nodes : u # t /\ status[u] \notin Terminal /\ u \notin finalizers}
<1>1. d \in E /\ deps[d] \cap (Downstream(E, deps, t) \cup {t}) # {}
  BY DownstreamReached DEF Doomed
<1>2. Downstream(E, deps, t) \subseteq E
  BY DEF Downstream
<1>3. PICK u \in deps[d] : u \in E \/ u = t
  BY <1>1, <1>2
<1>4. status[u] # "completed"
  BY <1>3 DEF Terminal
<1>5. status[d] # "running"
  BY <1>1, <1>3, <1>4 DEF UpstreamCompleted, Entered
<1>6. status[d] # "absent"
  BY <1>1 DEF Bookkeeping, TypeOK
<1>7. status[d] \in Status \cup {"absent"}
  BY <1>1 DEF TypeOK
<1> QED
  BY <1>1, <1>5, <1>6, <1>7 DEF Status

LEMMA TypeInit == Init => TypeOK
<1> SUFFICES ASSUME Init
             PROVE  TypeOK
  OBVIOUS
<1>1. PICK p \in Plan :
        /\ nodes = p.nodes /\ deps = p.deps /\ finalizers = p.finalizers /\ prio = p.prio
        /\ status = [t \in Tasks |-> IF t \in p.nodes THEN "queued" ELSE "absent"]
        /\ store = [t \in Tasks |-> IF t \in p.nodes THEN Row("queued", p.deps[t], 0)
                                                      ELSE Row("absent", {}, 0)]
  BY PlansAssumption DEF Init
<1>2. nodes \subseteq Tasks /\ deps \in [Tasks -> SUBSET Tasks]
  BY <1>1 DEF Plan
<1>3. finalizers \subseteq Tasks /\ prio \in [Tasks -> Nat]
  BY <1>1 DEF Plan
<1>4. status \in [Tasks -> Status \cup {"absent"}]
  BY <1>1 DEF Status
<1>5. store \in [Tasks -> [status: Status \cup {"absent"}, deps: SUBSET Tasks, attempts: Nat]]
  BY <1>1, <1>2 DEF Status, Row
<1>6. depth \in [Tasks -> 0..1] /\ attempts \in [Tasks -> Nat]
  BY DEF Init
<1>7. handle \in [Tasks -> {"none", "active", "cancelling"} \cup Ended]
  BY DEF Init
<1>8. pc = "idle" /\ cancelled = FALSE /\ failedHard = FALSE
  BY DEF Init
<1> QED
  BY <1>2, <1>3, <1>4, <1>5, <1>6, <1>7, <1>8 DEF TypeOK

LEMMA TypeStep ==
  ASSUME TypeOK, [Next]_vars
  PROVE  TypeOK'
<1> USE DEF TypeOK, graph
<1>1. CASE Execute(FALSE)
  BY <1>1 DEF Execute, AfterPrologue, Status
<1>2. ASSUME NEW L \in SUBSET Ready, Launch(L)
      PROVE  TypeOK'
  BY <1>2 DEF Launch, AfterLaunch, Status
<1>3. CASE StopRun
  <2>1. status' \in [Tasks -> Status \cup {"absent"}]
    BY <1>3 DEF StopRun, CancelRemaining, Status, Terminal
  <2>2. /\ nodes' \subseteq Tasks /\ deps' \in [Tasks -> SUBSET Tasks]
        /\ finalizers' \subseteq Tasks /\ prio' \in [Tasks -> Nat] /\ depth' \in [Tasks -> 0..1]
        /\ attempts' \in [Tasks -> Nat] /\ cancelled' \in BOOLEAN /\ failedHard' \in BOOLEAN
        /\ handle' \in [Tasks -> {"none", "active", "cancelling"} \cup Ended]
        /\ pc' \in {"ended", "drain"}
    BY <1>3 DEF StopRun, CancelRemaining
  <2>3. store' \in [Tasks -> [status: Status \cup {"absent"}, deps: SUBSET Tasks, attempts: Nat]]
    BY <1>3, <2>1, <2>2, PersistType DEF StopRun, CancelRemaining
  <2> QED
    BY <2>1, <2>2, <2>3
<1>4. ASSUME NEW t \in Tasks, Settle(t)
      PROVE  TypeOK'
  <2>1. status' \in [Tasks -> Status \cup {"absent"}] /\ failedHard' \in BOOLEAN
    <3>1. CASE SettleAborted(t)
      BY <3>1 DEF SettleAborted, Status, Terminal
    <3>2. CASE SettleCompleted(t)
      BY <3>2 DEF SettleCompleted, Status, Terminal
    <3>3. CASE SettleFailed(t)
      BY <3>3, FlagsAssumption DEF SettleFailed, Status, Terminal
    <3> QED
      BY <1>4, <3>1, <3>2, <3>3 DEF Settle
  <2>2. /\ nodes' \subseteq Tasks /\ deps' \in [Tasks -> SUBSET Tasks]
        /\ finalizers' \subseteq Tasks /\ prio' \in [Tasks -> Nat] /\ depth' \in [Tasks -> 0..1]
        /\ attempts' \in [Tasks -> Nat] /\ cancelled' \in BOOLEAN
        /\ handle' \in [Tasks -> {"none", "active", "cancelling"} \cup Ended]
        /\ pc' \in {"top", "settle"}
    BY <1>4 DEF Settle
  <2>3. store' \in [Tasks -> [status: Status \cup {"absent"}, deps: SUBSET Tasks, attempts: Nat]]
    <3>1. CASE SettleAborted(t)
      BY <3>1 DEF SettleAborted
    <3>2. CASE SettleCompleted(t)
      BY <3>2, <2>1, <2>2, PersistType DEF SettleCompleted
    <3>3. CASE SettleFailed(t)
      BY <3>3, <2>1, <2>2, PersistType DEF SettleFailed
    <3> QED
      BY <1>4, <3>1, <3>2, <3>3 DEF Settle
  <2> QED
    BY <2>1, <2>2, <2>3
<1>5. CASE Drained
  BY <1>5 DEF Drained
<1>6. ASSUME NEW t \in Tasks, NEW how \in Ended, RunnerEnds(t, how)
      PROVE  TypeOK'
  BY <1>6 DEF RunnerEnds
<1>7. ASSUME NEW t \in Tasks, RunnerUnwinds(t)
      PROVE  TypeOK'
  BY <1>7 DEF RunnerUnwinds, Ended
<1>8. ASSUME NEW t \in Tasks, RunnerSwallows(t)
      PROVE  TypeOK'
  BY <1>8 DEF RunnerSwallows
<1>9. ASSUME NEW t \in Tasks, NEW s1 \in Tasks, NEW s2 \in Tasks, Replan(t, s1, s2)
      PROVE  TypeOK'
  <2>1. deps' \in [Tasks -> SUBSET Tasks]
    BY <1>9 DEF Replan, Rewired
  <2>2. status' \in [Tasks -> Status \cup {"absent"}]
    BY <1>9 DEF Replan, Status
  <2>3. handle' \in [Tasks -> {"none", "active", "cancelling"} \cup Ended]
    BY <1>9 DEF Replan, Ended
  <2>4. prio' \in [Tasks -> Nat] /\ depth' \in [Tasks -> 0..1] /\ attempts' \in [Tasks -> Nat]
    BY <1>9 DEF Replan
  <2> QED
    BY <1>9, <2>1, <2>2, <2>3, <2>4 DEF Replan
<1>10. CASE Cancel
  BY <1>10 DEF Cancel
<1>11. CASE UNCHANGED vars
  BY <1>11 DEF vars
<1> QED
  BY <1>1, <1>2, <1>3, <1>4, <1>5, <1>6, <1>7, <1>8, <1>9, <1>10, <1>11
  DEF Next, Engine, Runner, Finished

(* The engine's state keeps its type: TypeOK alone is inductive.           *)
THEOREM TypeCorrect == Spec => []TypeOK
<1>1. Init => TypeOK
  BY TypeInit
<1>2. TypeOK /\ [Next]_vars => TypeOK'
  BY TypeStep
<1> QED
  BY <1>1, <1>2, PTL DEF Spec

-----------------------------------------------------------------------------
LEMMA EngineInit ==
  ASSUME Init
  PROVE  EngineInv
<1>1. TypeOK
  BY TypeInit
<1>2. /\ pc = "idle"
      /\ \A t \in Tasks : handle[t] = "none"
      /\ \A t \in Tasks : status[t] = IF t \in nodes THEN "queued" ELSE "absent"
  BY DEF Init
<1>3. Running = {} /\ Cardinality(Running) = 0
  BY <1>2, FS_EmptySet DEF Running
<1>4. Bookkeeping
  BY <1>1, <1>2, <1>3 DEF Bookkeeping, TypeOK
<1>5. HandlesAgree
  BY <1>2, <1>3, SlotsIsPositive DEF HandlesAgree
<1>6. GraphStaysValid
  BY <1>2 DEF GraphStaysValid
<1>7. UpstreamCompleted
  BY <1>1, <1>2 DEF UpstreamCompleted, Entered, TypeOK
<1> QED
  BY <1>1, <1>4, <1>5, <1>6, <1>7 DEF EngineInv

(* The guard of Execute is what establishes GraphStaysValid. *)
LEMMA ExecuteStep ==
  ASSUME EngineInv, Execute(FALSE)
  PROVE  Bookkeeping' /\ HandlesAgree' /\ GraphStaysValid' /\ UpstreamCompleted'
<1> USE DEF EngineInv, graph
<1>1. \A t \in nodes : status[t] = "queued"
  BY DEF Execute, Bookkeeping
<1>2. status' = status
  BY <1>1 DEF Execute, AfterPrologue, TypeOK
<1>3. UNCHANGED <<nodes, deps, finalizers, handle>> /\ pc' \in {"top", "rejected"}
  BY DEF Execute
<1>4. Running' = Running
  BY <1>3 DEF Running
<1>5. Bookkeeping'
  BY <1>1, <1>2, <1>3, <1>4 DEF Bookkeeping, Execute
<1>6. HandlesAgree'
  BY <1>2, <1>3, <1>4 DEF HandlesAgree, Execute
<1>7. GraphStaysValid'
  BY <1>3 DEF GraphStaysValid, Execute
<1>8. UpstreamCompleted'
  BY <1>2, <1>3 DEF UpstreamCompleted, Entered
<1> QED
  BY <1>5, <1>6, <1>7, <1>8

(* Launching: what becomes Entered has just been found ready. *)
LEMMA LaunchStep ==
  ASSUME EngineInv, NEW L \in SUBSET Ready, Launch(L)
  PROVE  Bookkeeping' /\ HandlesAgree' /\ GraphStaysValid' /\ UpstreamCompleted'
<1> USE DEF EngineInv, graph
<1>1. L \subseteq nodes /\ \A t \in L : status[t] = "queued" /\ DependenciesAllow(t)
  BY DEF Ready
<1>2. L \subseteq Tasks
  BY <1>1 DEF TypeOK
<1>3. UNCHANGED <<nodes, deps, finalizers>> /\ pc' \in {"ended", "wait"}
  BY DEF Launch, AfterLaunch
<1>4. /\ \A t \in Tasks : status'[t] = IF t \in L THEN "running" ELSE status[t]
      /\ \A t \in Tasks : handle'[t] = IF t \in L THEN "active" ELSE handle[t]
  BY DEF Launch
<1>5. Running' = Running \cup L
  BY <1>2, <1>4 DEF Running
<1>6. Bookkeeping'
  BY <1>1, <1>2, <1>3, <1>4, <1>5 DEF Bookkeeping
<1>7. Running = {t \in Tasks : status[t] = "running"}
  BY DEF HandlesAgree, Launch
<1>8. Cardinality(Running') <= Slots
  <2>1. IsFiniteSet(Running) /\ IsFiniteSet(L)
    BY <1>2, FS_Subset, TasksAssumption DEF Running
  <2>2. /\ Cardinality(Running) \in Nat /\ Cardinality(L) \in Nat
        /\ Cardinality(Running \cap L) \in Nat
    BY <2>1, FS_CardinalityType, FS_Intersection
  <2>3. Cardinality(Running \cup L) = Cardinality(Running) + Cardinality(L) - Cardinality(Running \cap L)
    BY <2>1, FS_Union
  <2>4. Cardinality(L) + Cardinality(Running) <= Slots
    BY DEF Launch, Launchable
  <2> QED
    BY <1>5, <2>2, <2>3, <2>4, SlotsIsPositive
<1>9. HandlesAgree'
  <2>1. Running' = {t \in Tasks : status'[t] = "running"}
    BY <1>2, <1>4, <1>5, <1>7
  <2> QED
    BY <1>8, <2>1 DEF HandlesAgree
<1>10. GraphStaysValid'
  BY <1>3 DEF GraphStaysValid, Launch
<1>11. UpstreamCompleted'
  <2> SUFFICES ASSUME NEW t \in nodes \ finalizers, Entered(t)', NEW d \in deps[t]
               PROVE  status'[d] = "completed"
    BY <1>3 DEF UpstreamCompleted
  <2>1. t \in Tasks /\ d \in nodes /\ d \in Tasks
    BY DEF GraphStaysValid, ValidGraph, UnknownDependency, Launch, TypeOK
  <2>2. status[d] = "completed"
    <3>1. CASE t \in L
      BY <1>1, <2>1, <3>1 DEF DependenciesAllow
    <3>2. CASE t \notin L
      BY <1>4, <2>1, <3>2 DEF UpstreamCompleted, Entered
    <3> QED
      BY <3>1, <3>2
  <2> QED
    BY <1>1, <1>4, <2>1, <2>2
<1> QED
  BY <1>6, <1>9, <1>10, <1>11

(* Stopping: completed tasks stay completed, so nothing loses its upstream. *)
LEMMA StopStep ==
  ASSUME EngineInv, StopRun
  PROVE  Bookkeeping' /\ HandlesAgree' /\ GraphStaysValid' /\ UpstreamCompleted'
<1> USE DEF EngineInv, graph
<1>1. UNCHANGED <<nodes, deps, finalizers>> /\ pc = "top" /\ pc' \in {"ended", "drain"}
  BY DEF StopRun, CancelRemaining
<1>2. /\ \A t \in Tasks : status'[t] = IF t \in Unfinished THEN "cancelled" ELSE status[t]
      /\ \A t \in Tasks : handle'[t] = IF handle[t] = "active" THEN "cancelling" ELSE handle[t]
  BY DEF StopRun, CancelRemaining
<1>3. Running' = Running
  BY <1>2 DEF Running
<1>4. Running = {t \in Tasks : status[t] = "running"}
  BY <1>1 DEF HandlesAgree
<1>5. \A t \in Tasks : status'[t] # "running"
  <2> SUFFICES ASSUME NEW t \in Tasks, status[t] = "running"
               PROVE  t \in Unfinished
    BY <1>2
  <2> QED
    BY DEF Bookkeeping, Unfinished, Terminal
<1>6. \A t \in Tasks : status'[t] = "completed" <=> status[t] = "completed"
  BY <1>2 DEF Unfinished, Terminal
<1>7. \A t \in Tasks : status'[t] = "absent" <=> status[t] = "absent"
  BY <1>2 DEF Unfinished, Bookkeeping
<1>8. Bookkeeping'
  <2>1. \A t \in Tasks : handle'[t] # "none" => status'[t] # "completed"
    BY <1>2, <1>4, <1>6 DEF Running
  <2> QED
    BY <1>1, <1>3, <1>5, <1>7, <2>1 DEF Bookkeeping
<1>9. HandlesAgree'
  <2>1. pc' = "ended" => Running = {}
    BY DEF StopRun, CancelRemaining
  <2> QED
    BY <1>1, <1>3, <1>5, <2>1 DEF HandlesAgree
<1>10. GraphStaysValid'
  BY <1>1 DEF GraphStaysValid
<1>11. UpstreamCompleted'
  <2> SUFFICES ASSUME NEW t \in nodes \ finalizers, Entered(t)', NEW d \in deps[t]
               PROVE  status'[d] = "completed"
    BY <1>1 DEF UpstreamCompleted
  <2>1. t \in Tasks /\ d \in Tasks
    BY DEF TypeOK
  <2>2. Entered(t)
    BY <1>2, <1>5, <1>6, <2>1 DEF Entered
  <2> QED
    BY <1>6, <2>1, <2>2 DEF UpstreamCompleted
<1> QED
  BY <1>8, <1>9, <1>10, <1>11

(***************************************************************************)
(* Settling: the task leaves RUNNING and the dict together; what fails     *)
(* takes along only tasks that nothing has started or finished.            *)
(***************************************************************************)
LEMMA SettleStep ==
  ASSUME EngineInv, NEW t \in Tasks, Settle(t)
  PROVE  Bookkeeping' /\ HandlesAgree' /\ GraphStaysValid' /\ UpstreamCompleted'
<1> USE DEF EngineInv, graph
<1>1. UNCHANGED <<nodes, deps, finalizers>> /\ pc \in {"wait", "settle"} /\ pc' \in {"top", "settle"}
  BY DEF Settle
<1>2. \A u \in Tasks : handle'[u] = IF u = t THEN "none" ELSE handle[u]
  BY DEF Settle, TypeOK
<1>3. Running = {u \in Tasks : status[u] = "running"}
  BY <1>1 DEF HandlesAgree
<1>4. status[t] = "running"
  BY <1>3 DEF Settle, SettleAborted, SettleCompleted, SettleFailed, Running
<1>5. t \in nodes
  BY <1>4 DEF Bookkeeping
<1>6. PICK gone \in SUBSET Doomed(t), end \in Terminal :
        \A u \in Tasks : status'[u] = IF u = t THEN end
                                      ELSE IF u \in gone THEN "cancelled" ELSE status[u]
  <2>1. CASE SettleAborted(t)
    <3> USE DEF Terminal
    <3> WITNESS {} \in SUBSET Doomed(t), "cancelled" \in Terminal
    <3> QED
      BY <2>1 DEF SettleAborted, TypeOK
  <2>2. CASE SettleCompleted(t)
    <3> USE DEF Terminal
    <3> WITNESS {} \in SUBSET Doomed(t), "completed" \in Terminal
    <3> QED
      BY <2>2 DEF SettleCompleted, TypeOK
  <2>3. CASE SettleFailed(t)
    <3> USE DEF Terminal
    <3> WITNESS (IF CancelDependents THEN Doomed(t) ELSE {}) \in SUBSET Doomed(t),
                "failed" \in Terminal
    <3> QED
      BY <2>3 DEF SettleFailed, TypeOK
  <2> QED
    BY <2>1, <2>2, <2>3 DEF Settle
<1>7. \A u \in gone : u \in nodes /\ u # t /\ u \notin finalizers /\ status[u] = "queued"
  BY <1>4, <1>6, DoomedIsWaiting
<1>8. \A u \in Tasks : status'[u] = "running" <=> u # t /\ status[u] = "running"
  BY <1>6, <1>7 DEF Terminal
<1>9. \A u \in Tasks : status[u] = "completed" => status'[u] = "completed"
  BY <1>4, <1>6, <1>7
<1>10. Running' = Running \ {t}
  BY <1>2 DEF Running
<1>11. \A u \in Tasks : status'[u] = "absent" <=> status[u] = "absent"
  BY <1>4, <1>6, <1>7 DEF Terminal
<1>12. Bookkeeping'
  BY <1>1, <1>10, <1>11 DEF Bookkeeping
<1>13. HandlesAgree'
  <2>1. Running' = {u \in Tasks : status'[u] = "running"}
    BY <1>3, <1>8, <1>10
  <2>2. IsFiniteSet(Running)
    BY FS_Subset, TasksAssumption DEF Running
  <2>3. Cardinality(Running') <= Cardinality(Running)
    BY <1>10, <2>2, FS_Subset
  <2>4. Cardinality(Running) \in Nat /\ Cardinality(Running') \in Nat
    BY <1>10, <2>2, FS_CardinalityType, FS_Subset
  <2> QED
    BY <1>1, <2>1, <2>3, <2>4, SlotsIsPositive DEF HandlesAgree
<1>14. GraphStaysValid'
  BY <1>1 DEF GraphStaysValid
<1>15. UpstreamCompleted'
  <2> SUFFICES ASSUME NEW u \in nodes \ finalizers, Entered(u)', NEW d \in deps[u]
               PROVE  status'[d] = "completed"
    BY <1>1 DEF UpstreamCompleted
  <2>1. u \in Tasks /\ d \in Tasks
    BY DEF TypeOK
  <2>2. Entered(u)
    BY <1>2, <1>4, <1>6, <1>7, <1>8, <2>1 DEF Entered
  <2> QED
    BY <1>9, <2>1, <2>2 DEF UpstreamCompleted
<1> QED
  BY <1>12, <1>13, <1>14, <1>15

(* The handles that are left over belong to no running task. *)
LEMMA DrainedStep ==
  ASSUME EngineInv, Drained
  PROVE  Bookkeeping' /\ HandlesAgree' /\ GraphStaysValid' /\ UpstreamCompleted'
<1> USE DEF EngineInv, graph
<1>1. UNCHANGED <<nodes, deps, finalizers, status>> /\ pc = "drain" /\ pc' = "ended"
  BY DEF Drained
<1>2. \A t \in Tasks : handle'[t] = "none"
  BY DEF Drained
<1>3. Running' = {} /\ Cardinality(Running') = 0
  BY <1>2, FS_EmptySet DEF Running
<1>4. Bookkeeping'
  BY <1>1, <1>2, <1>3 DEF Bookkeeping
<1>5. HandlesAgree'
  BY <1>1, <1>3, SlotsIsPositive DEF HandlesAgree, Bookkeeping
<1>6. GraphStaysValid'
  BY <1>1 DEF GraphStaysValid
<1>7. UpstreamCompleted'
  BY <1>1, <1>2 DEF UpstreamCompleted, Entered, TypeOK
<1> QED
  BY <1>4, <1>5, <1>6, <1>7

(* A runner that ends, unwinds or swallows its cancellation only changes   *)
(* the kind of its handle; so does a cancel() its flag.                    *)
LEMMA HandleKindStep ==
  ASSUME EngineInv, UNCHANGED <<nodes, deps, finalizers, status, pc>>,
         \A t \in Tasks : handle'[t] = "none" <=> handle[t] = "none"
  PROVE  Bookkeeping' /\ HandlesAgree' /\ GraphStaysValid' /\ UpstreamCompleted'
<1> USE DEF EngineInv
<1>1. Running' = Running
  BY DEF Running
<1>2. Bookkeeping'
  BY <1>1 DEF Bookkeeping
<1>3. HandlesAgree'
  BY <1>1 DEF HandlesAgree
<1>4. GraphStaysValid'
  BY DEF GraphStaysValid
<1>5. UpstreamCompleted'
  BY DEF UpstreamCompleted, Entered, TypeOK
<1> QED
  BY <1>2, <1>3, <1>4, <1>5

(***************************************************************************)
(* REPLAN: what depends on a task that still has a handle has not been     *)
(* entered, finalizers apart, so rewiring it takes nothing from it.        *)
(***************************************************************************)
LEMMA ReplanStep ==
  ASSUME EngineInv, NEW t \in Tasks, NEW s1 \in Tasks, NEW s2 \in Tasks, Replan(t, s1, s2)
  PROVE  Bookkeeping' /\ HandlesAgree' /\ GraphStaysValid' /\ UpstreamCompleted'
<1> USE DEF EngineInv
<1> DEFINE outer == DependentsOf(nodes, deps, t)
<1>1. /\ pc \in {"wait", "drain"} /\ pc' = pc
      /\ handle[t] = "active" /\ s1 \notin nodes /\ s2 \notin nodes /\ s1 # s2
      /\ nodes' = nodes \cup {s1, s2} /\ finalizers' = finalizers \ {s1, s2}
      /\ deps' = Rewired(t, s1, s2)
  BY DEF Replan, Awaiting
<1>2. t \in Running /\ t \in nodes
  BY <1>1 DEF Running, Bookkeeping
<1>3. status[t] # "completed"
  BY <1>1, <1>2 DEF HandlesAgree, Bookkeeping
<1>4. \A u \in Tasks : handle'[u] = "none" <=> handle[u] = "none"
  BY <1>1 DEF Replan, TypeOK
<1>5. \A u \in Tasks : status'[u] = IF \/ u \in {s1, s2}
                                       \/ u \in outer /\ status[u] = "cancelled"
                                    THEN "queued" ELSE status[u]
  BY DEF Replan
<1>6. Running' = Running
  BY <1>4 DEF Running
<1>7. s1 \notin Running /\ s2 \notin Running
      /\ status[s1] = "absent" /\ status[s2] = "absent"
  BY <1>1 DEF Bookkeeping
<1>8. \A u \in Tasks : /\ status'[u] = "running" <=> status[u] = "running"
                       /\ status'[u] = "completed" <=> status[u] = "completed"
  BY <1>5, <1>7
<1>9. Bookkeeping'
  <2>1. \A u \in Tasks : status'[u] = "absent" <=> u \notin nodes'
    BY <1>1, <1>5 DEF Bookkeeping
  <2> QED
    BY <1>1, <1>4, <1>6, <1>8, <2>1 DEF Bookkeeping
<1>10. HandlesAgree'
  BY <1>1, <1>6, <1>8 DEF HandlesAgree
<1>11. \A u \in Tasks : deps'[u] = IF u = s1 THEN deps[t]
                                   ELSE IF u = s2 THEN {s1}
                                   ELSE IF u \in outer THEN (deps[u] \ {t}) \cup {s2}
                                   ELSE deps[u]
  BY <1>1 DEF Rewired
<1>12. nodes \subseteq Tasks
  BY DEF TypeOK
<1>13. GraphStaysValid'
  <2>1. ValidGraph(nodes, deps)
    BY <1>1 DEF GraphStaysValid
  <2>2. \A u \in nodes : deps'[u] = IF t \in deps[u] THEN (deps[u] \ {t}) \cup {s2} ELSE deps[u]
    BY <1>1, <1>11, <1>12 DEF DependentsOf
  <2>3. deps'[s1] = deps[t] /\ deps'[s2] = {s1}
    BY <1>1, <1>11
  <2>4. ValidGraph(nodes \cup {s1, s2}, deps')
    <3>1. IsSplit(nodes, deps, deps', t, s1, s2)
      BY <1>1, <1>2, <2>2, <2>3 DEF IsSplit
    <3> QED
      BY <2>1, <3>1, SplitKeepsValid
  <2> QED
    BY <1>1, <2>4 DEF GraphStaysValid
<1>14. UpstreamCompleted'
  <2> SUFFICES ASSUME NEW u \in nodes' \ finalizers', Entered(u)', NEW d \in deps'[u]
               PROVE  status'[d] = "completed"
    BY DEF UpstreamCompleted
  <2>1. u \in Tasks /\ u # s1 /\ u # s2
    BY <1>1, <1>4, <1>5, <1>7, <1>12 DEF Entered, Running
  <2>2. u \in nodes \ finalizers /\ Entered(u)
    BY <1>1, <1>4, <1>8, <2>1 DEF Entered
  <2>3. t \notin deps[u]
    BY <1>3, <2>2 DEF UpstreamCompleted
  <2>4. d \in deps[u] /\ d \in Tasks
    BY <1>11, <2>1, <2>3 DEF DependentsOf, TypeOK
  <2> QED
    BY <1>8, <2>2, <2>4 DEF UpstreamCompleted
<1> QED
  BY <1>9, <1>10, <1>13, <1>14

LEMMA EngineInvStep ==
  ASSUME EngineInv, [Next]_vars
  PROVE  EngineInv'
<1>1. TypeOK'
  BY TypeStep DEF EngineInv
<1>2. Bookkeeping' /\ HandlesAgree' /\ GraphStaysValid' /\ UpstreamCompleted'
  <2> USE DEF graph
  <2>1. CASE Execute(FALSE)
    BY <2>1, ExecuteStep
  <2>2. ASSUME NEW L \in SUBSET Ready, Launch(L)
        PROVE  Bookkeeping' /\ HandlesAgree' /\ GraphStaysValid' /\ UpstreamCompleted'
    BY <2>2, LaunchStep
  <2>3. CASE StopRun
    BY <2>3, StopStep
  <2>4. ASSUME NEW t \in Tasks, Settle(t)
        PROVE  Bookkeeping' /\ HandlesAgree' /\ GraphStaysValid' /\ UpstreamCompleted'
    BY <2>4, SettleStep
  <2>5. CASE Drained
    BY <2>5, DrainedStep
  <2>6. ASSUME NEW t \in Tasks, NEW how \in Ended, RunnerEnds(t, how)
        PROVE  Bookkeeping' /\ HandlesAgree' /\ GraphStaysValid' /\ UpstreamCompleted'
    BY <2>6, HandleKindStep DEF RunnerEnds, EngineInv, TypeOK, Ended
  <2>7. ASSUME NEW t \in Tasks, RunnerUnwinds(t)
        PROVE  Bookkeeping' /\ HandlesAgree' /\ GraphStaysValid' /\ UpstreamCompleted'
    BY <2>7, HandleKindStep DEF RunnerUnwinds, EngineInv, TypeOK
  <2>8. ASSUME NEW t \in Tasks, RunnerSwallows(t)
        PROVE  Bookkeeping' /\ HandlesAgree' /\ GraphStaysValid' /\ UpstreamCompleted'
    BY <2>8, HandleKindStep DEF RunnerSwallows, EngineInv, TypeOK
  <2>9. ASSUME NEW t \in Tasks, NEW s1 \in Tasks, NEW s2 \in Tasks, Replan(t, s1, s2)
        PROVE  Bookkeeping' /\ HandlesAgree' /\ GraphStaysValid' /\ UpstreamCompleted'
    BY <2>9, ReplanStep
  <2>10. CASE Cancel
    BY <2>10, HandleKindStep DEF Cancel
  <2>11. CASE UNCHANGED vars
    BY <2>11, HandleKindStep DEF vars
  <2> QED
    BY <2>1, <2>2, <2>3, <2>4, <2>5, <2>6, <2>7, <2>8, <2>9, <2>10, <2>11
    DEF Next, Engine, Runner, Finished
<1> QED
  BY <1>1, <1>2 DEF EngineInv

(* EngineInv is inductive. *)
THEOREM EngineInvariant == Spec => []EngineInv
<1>1. Init => EngineInv
  BY EngineInit
<1>2. EngineInv /\ [Next]_vars => EngineInv'
  BY EngineInvStep
<1> QED
  BY <1>1, <1>2, PTL DEF Spec

(* No ordinary task is let through before everything it depends on, as     *)
(* rewired by any number of REPLANs, has completed.                        *)
THEOREM UpstreamAlwaysCompleted == Spec => []UpstreamCompleted
<1>1. EngineInv => UpstreamCompleted
  BY DEF EngineInv
<1> QED
  BY <1>1, EngineInvariant, PTL

(* The dict "running" and the RUNNING statuses agree, within the slots, so *)
(* that the semaphore never blocks a runner.                               *)
THEOREM HandlesAlwaysAgree == Spec => []HandlesAgree
<1>1. EngineInv => HandlesAgree
  BY DEF EngineInv
<1> QED
  BY <1>1, EngineInvariant, PTL

(* The validate_graph at the end of add_tasks never raises.                *)
THEOREM GraphAlwaysValid == Spec => []GraphStaysValid
<1>1. EngineInv => GraphStaysValid
  BY DEF EngineInv
<1> QED
  BY <1>1, EngineInvariant, PTL
-----------------------------------------------------------------------------
(* What an ended or drained run leaves behind, with EngineInv inductive:   *)
(* no handle outlives the run, and while the handles are drained the tasks *)
(* they belong to have been cancelled, or revived since.                   *)
EndInv ==
  /\ pc = "ended" => \A t \in Tasks : handle[t] = "none"
  /\ pc = "drain" => /\ cancelled \/ failedHard
                     /\ \A t \in Tasks : handle[t] # "none" => status[t] \in {"cancelled", "queued"}

LEMMA EndInit ==
  ASSUME Init
  PROVE  EndInv
  BY DEF Init, EndInv

LEMMA EndStep ==
  ASSUME EngineInv, EndInv, [Next]_vars
  PROVE  EndInv'
<1> USE DEF EngineInv, EndInv, graph
<1>1. CASE Execute(FALSE)
  BY <1>1 DEF Execute
<1>2. ASSUME NEW L \in SUBSET Ready, Launch(L)
      PROVE  EndInv'
  <2>1. pc' # "drain" /\ (pc' = "ended" => Running = {} /\ L = {})
    BY <1>2 DEF Launch, AfterLaunch
  <2>2. \A t \in Tasks : handle'[t] = IF t \in L THEN "active" ELSE handle[t]
    BY <1>2 DEF Launch
  <2> QED
    BY <2>1, <2>2 DEF Running
<1>3. CASE StopRun
  <2>1. /\ \A t \in Tasks : status'[t] = IF t \in Unfinished THEN "cancelled" ELSE status[t]
        /\ \A t \in Tasks : handle'[t] = IF handle[t] = "active" THEN "cancelling" ELSE handle[t]
        /\ pc = "top" /\ pc' = (IF Running = {} THEN "ended" ELSE "drain")
        /\ cancelled' \/ failedHard'
    BY <1>3 DEF StopRun, CancelRemaining
  <2>2. ASSUME NEW t \in Tasks, handle[t] # "none"
        PROVE  t \in Unfinished
    BY <2>1, <2>2 DEF HandlesAgree, Running, Bookkeeping, Unfinished, Terminal
  <2>3. Running = {} => \A t \in Tasks : handle'[t] = "none"
    BY <2>1 DEF Running
  <2>4. \A t \in Tasks : handle'[t] # "none" => status'[t] = "cancelled"
    BY <2>1, <2>2
  <2> QED
    BY <2>1, <2>3, <2>4
<1>4. ASSUME NEW t \in Tasks, Settle(t)
      PROVE  EndInv'
  BY <1>4 DEF Settle
<1>5. CASE Drained
  BY <1>5 DEF Drained
<1>6. ASSUME NEW t \in Tasks, NEW how \in Ended, RunnerEnds(t, how)
      PROVE  EndInv'
  BY <1>6 DEF RunnerEnds, Awaiting, TypeOK
<1>7. ASSUME NEW t \in Tasks, RunnerUnwinds(t)
      PROVE  EndInv'
  BY <1>7 DEF RunnerUnwinds, Awaiting, TypeOK
<1>8. ASSUME NEW t \in Tasks, RunnerSwallows(t)
      PROVE  EndInv'
  BY <1>8 DEF RunnerSwallows, Awaiting, TypeOK
<1>9. ASSUME NEW t \in Tasks, NEW s1 \in Tasks, NEW s2 \in Tasks, Replan(t, s1, s2)
      PROVE  EndInv'
  <2>1. /\ pc \in {"wait", "drain"} /\ pc' = pc /\ handle[t] = "active"
        /\ UNCHANGED <<cancelled, failedHard>>
    BY <1>9 DEF Replan, Awaiting
  <2>2. \A u \in Tasks : handle'[u] # "none" => handle[u] # "none"
    BY <1>9 DEF Replan, TypeOK
  <2>3. \A u \in Tasks : status'[u] \in {"queued", status[u]}
    BY <1>9 DEF Replan
  <2> QED
    BY <2>1, <2>2, <2>3
<1>10. CASE Cancel
  BY <1>10 DEF Cancel
<1>11. CASE UNCHANGED vars
  BY <1>11 DEF vars
<1> QED
  BY <1>1, <1>2, <1>3, <1>4, <1>5, <1>6, <1>7, <1>8, <1>9, <1>10, <1>11
  DEF Next, Engine, Runner, Finished

THEOREM EndInvariant == Spec => [](EngineInv /\ EndInv)
<1>1. Init => EngineInv /\ EndInv
  BY EngineInit, EndInit
<1>2. EngineInv /\ EndInv /\ [Next]_vars => EngineInv' /\ EndInv'
  BY EngineInvStep, EndStep
<1> QED
  BY <1>1, <1>2, PTL DEF Spec
-----------------------------------------------------------------------------
(***************************************************************************)
(* StartedOnce is not inductive: a task must not have been started while   *)
(* it can still be queued, or revived.  A started task becomes CANCELLED   *)
(* only when the run is stopped, provided no CancelledError comes from     *)
(* elsewhere.                                                              *)
(***************************************************************************)
StartInv ==
  /\ StartedOnce
  /\ pc \notin {"drain", "ended"} =>
       \A t \in Tasks : /\ status[t] \in {"absent", "queued", "cancelled"} => attempts[t] = 0
                        /\ handle[t] \notin {"cancelling", "aborted"}

LEMMA StartInit ==
  ASSUME Init
  PROVE  StartInv
  BY DEF Init, StartInv, StartedOnce

LEMMA StartStep ==
  ASSUME ~StrayCancel, EngineInv, StartInv, [Next]_vars
  PROVE  StartInv'
<1> USE DEF EngineInv, StartInv, StartedOnce, graph
<1>1. CASE Execute(FALSE)
  <2>1. \A t \in Tasks : status[t] \in {"queued", "absent"}
    BY <1>1 DEF Execute, Bookkeeping
  <2> QED
    BY <1>1, <2>1 DEF Execute
<1>2. ASSUME NEW L \in SUBSET Ready, Launch(L)
      PROVE  StartInv'
  <2>1. \A t \in L : status[t] = "queued"
    BY DEF Ready
  <2>2. \A t \in Tasks : /\ status'[t] = IF t \in L THEN "running" ELSE status[t]
                         /\ handle'[t] = IF t \in L THEN "active" ELSE handle[t]
                         /\ attempts'[t] = IF t \in L THEN attempts[t] + 1 ELSE attempts[t]
    BY <1>2 DEF Launch
  <2>3. pc = "top"
    BY <1>2 DEF Launch
  <2> QED
    BY <2>1, <2>2, <2>3 DEF TypeOK
<1>3. CASE StopRun
  BY <1>3 DEF StopRun, CancelRemaining
<1>4. ASSUME NEW t \in Tasks, Settle(t)
      PROVE  StartInv'
  <2>1. pc \in {"wait", "settle"} /\ pc' \in {"top", "settle"} /\ UNCHANGED attempts
    BY <1>4 DEF Settle
  <2>2. \A u \in Tasks : handle'[u] \in {"none", handle[u]}
    BY <1>4 DEF Settle, TypeOK
  <2>3. status[t] = "running"
    BY <1>4, <2>1 DEF HandlesAgree, Running, Settle, SettleAborted, SettleCompleted, SettleFailed
  <2>4. CASE SettleAborted(t)
    BY <2>1, <2>4 DEF SettleAborted
  <2>5. CASE SettleCompleted(t)
    BY <2>1, <2>2, <2>5 DEF SettleCompleted, TypeOK
  <2>6. CASE SettleFailed(t)
    <3>1. \A u \in Tasks : status'[u] = "cancelled" => status[u] = "cancelled" \/ u \in Doomed(t)
      BY <2>6 DEF SettleFailed
    <3>2. \A u \in Tasks : status'[u] \in {"absent", "queued"} => status'[u] = status[u]
      BY <2>6 DEF SettleFailed
    <3>3. \A u \in Doomed(t) : status[u] = "queued"
      BY <2>3, DoomedIsWaiting
    <3> QED
      BY <2>1, <2>2, <3>1, <3>2, <3>3
  <2> QED
    BY <1>4, <2>4, <2>5, <2>6 DEF Settle
<1>5. CASE Drained
  BY <1>5 DEF Drained
<1>6. ASSUME NEW t \in Tasks, NEW how \in Ended, RunnerEnds(t, how)
      PROVE  StartInv'
  BY <1>6 DEF RunnerEnds, Ended, TypeOK
<1>7. ASSUME NEW t \in Tasks, RunnerUnwinds(t)
      PROVE  StartInv'
  BY <1>7 DEF RunnerUnwinds, Awaiting
<1>8. ASSUME NEW t \in Tasks, RunnerSwallows(t)
      PROVE  StartInv'
  BY <1>8 DEF RunnerSwallows, TypeOK
<1>9. ASSUME NEW t \in Tasks, NEW s1 \in Tasks, NEW s2 \in Tasks, Replan(t, s1, s2)
      PROVE  StartInv'
  <2>1. \A u \in Tasks : /\ attempts'[u] = IF u \in {s1, s2} THEN 0 ELSE attempts[u]
                         /\ status'[u] = status[u] \/ u \in {s1, s2} \/ status[u] = "cancelled"
                         /\ handle'[u] \in {"ok", "failed", handle[u]}
    BY <1>9 DEF Replan, TypeOK
  <2>2. pc' = pc
    BY <1>9 DEF Replan
  <2> QED
    BY <2>1, <2>2
<1>10. CASE Cancel
  BY <1>10 DEF Cancel
<1>11. CASE UNCHANGED vars
  BY <1>11 DEF vars
<1> QED
  BY <1>1, <1>2, <1>3, <1>4, <1>5, <1>6, <1>7, <1>8, <1>9, <1>10, <1>11
  DEF Next, Engine, Runner, Finished

(* A task is started at most once, however the run is replanned, failed or *)
(* cancelled, as long as every CancelledError a runner ends with comes     *)
(* from the engine.                                                        *)
THEOREM AlwaysStartedOnce ==
  ASSUME ~StrayCancel
  PROVE  Spec => []StartedOnce
<1>1. Init => EngineInv /\ StartInv
  BY EngineInit, StartInit
<1>2. EngineInv /\ StartInv /\ [Next]_vars => EngineInv' /\ StartInv'
  BY EngineInvStep, StartStep
<1>3. StartInv => StartedOnce
  BY DEF StartInv
<1> QED
  BY <1>1, <1>2, <1>3, PTL DEF Spec
-----------------------------------------------------------------------------
(***************************************************************************)
(* Why the store is current: a task is saved with the step that settles    *)
(* it, and what it depends on changes later only if it is a finalizer --   *)
(* a task that completed or failed otherwise had completed tasks below it, *)
(* which have no handle and cannot be split, and one that was cancelled    *)
(* comes back when it is rewired.                                          *)
(***************************************************************************)
Current(t) ==
  /\ store[t].status = status[t] /\ store[t].attempts = attempts[t]
  /\ t \notin finalizers => store[t].deps = deps[t]

SavedInv ==
  \A t \in nodes :
    /\ status[t] \in Terminal => Current(t)
    /\ status[t] = "failed" /\ t \notin finalizers => \A d \in deps[t] : status[d] = "completed"

(* A save that cannot fail leaves current rows and touches no others.      *)
LEMMA PersistAll ==
  ASSUME ~StoreFails, NEW S \in SUBSET Tasks, Persist(S), NEW t \in Tasks
  PROVE  /\ t \in S => Current(t)'
         /\ t \notin S => store'[t] = store[t]
<1>1. store' = [u \in Tasks |-> IF u \in S THEN Row(status'[u], deps'[u], attempts'[u]) ELSE store[u]]
  BY DEF Persist
<1>2. t \in S => store'[t] = [status |-> status'[t], deps |-> deps'[t], attempts |-> attempts'[t]]
  BY <1>1 DEF Row
<1> QED
  BY <1>1, <1>2 DEF Current

LEMMA SavedStep ==
  ASSUME ~StoreFails, ~StrayCancel, EngineInv, StartInv, SavedInv, [Next]_vars
  PROVE  SavedInv'
<1> USE DEF EngineInv, graph
<1>0. ASSUME UNCHANGED <<nodes, deps, finalizers, status, attempts, store>>
      PROVE  SavedInv'
  BY <1>0 DEF SavedInv, Current
<1>1. CASE Execute(FALSE)
  <2>1. nodes' = nodes /\ \A t \in nodes : t \in Tasks /\ status[t] = "queued"
    BY <1>1 DEF Execute, Bookkeeping, TypeOK
  <2>2. \A t \in nodes : status'[t] = "queued"
    BY <1>1, <2>1 DEF Execute, AfterPrologue
  <2> QED
    BY <2>1, <2>2 DEF SavedInv, Terminal
<1>2. ASSUME NEW L \in SUBSET Ready, Launch(L)
      PROVE  SavedInv'
  <2>1. \A t \in Tasks : /\ status'[t] = IF t \in L THEN "running" ELSE status[t]
                         /\ attempts'[t] = IF t \in L THEN attempts[t] + 1 ELSE attempts[t]
    BY <1>2 DEF Launch
  <2>2. UNCHANGED <<nodes, deps, finalizers, store>> /\ \A t \in L : status[t] = "queued"
    BY <1>2 DEF Launch, Ready
  <2>3. \A t \in nodes : t \in Tasks /\ \A d \in deps[t] : d \in Tasks
    BY DEF TypeOK
  <2> QED
    BY <2>1, <2>2, <2>3 DEF SavedInv, Current, Terminal
<1>3. CASE StopRun
  <2>1. /\ UNCHANGED <<nodes, deps, finalizers, attempts>> /\ Persist(Unfinished)
        /\ \A t \in Tasks : status'[t] = IF t \in Unfinished THEN "cancelled" ELSE status[t]
    BY <1>3 DEF StopRun, CancelRemaining
  <2>2. Unfinished \in SUBSET Tasks
    BY DEF Unfinished, TypeOK
  <2>3. \A t \in Tasks : /\ t \in Unfinished => Current(t)'
                         /\ t \notin Unfinished => store'[t] = store[t]
    BY <2>1, <2>2, PersistAll
  <2>4. \A t \in nodes : t \in Tasks /\ \A d \in deps[t] : d \in Tasks
    BY DEF TypeOK
  <2>5. ASSUME NEW u \in nodes
        PROVE  Current(u)'
    <3>1. CASE u \in Unfinished
      BY <2>3, <2>4, <3>1
    <3>2. CASE u \notin Unfinished
      BY <2>1, <2>3, <2>4, <3>2 DEF SavedInv, Current, Unfinished
    <3> QED
      BY <3>1, <3>2
  <2>6. ASSUME NEW u \in nodes, status'[u] = "failed", u \notin finalizers, NEW d \in deps[u]
        PROVE  status'[d] = "completed"
    <3>1. status[u] = "failed"
      BY <2>1, <2>4, <2>6
    <3>2. status[d] = "completed" /\ d \in Tasks
      BY <2>4, <2>6, <3>1 DEF SavedInv
    <3> QED
      BY <2>1, <3>2 DEF Unfinished, Terminal
  <2> QED
    BY <2>1, <2>5, <2>6 DEF SavedInv
<1>4. ASSUME NEW t \in Tasks, Settle(t)
      PROVE  SavedInv'
  <2>1. pc \in {"wait", "settle"} /\ UNCHANGED <<nodes, deps, finalizers, attempts>>
    BY <1>4 DEF Settle
  <2>2. status[t] = "running" /\ handle[t] # "none"
    BY <1>4, <2>1 DEF HandlesAgree, Running, Settle, SettleAborted, SettleCompleted, SettleFailed
  <2>3. \A u \in nodes : u \in Tasks /\ \A d \in deps[u] : d \in Tasks
    BY DEF TypeOK
  <2>4. t \notin finalizers => \A d \in deps[t] : status[d] = "completed"
    BY <2>2 DEF UpstreamCompleted, Entered, Bookkeeping, Running
  <2>5. CASE SettleAborted(t)
    BY <2>1, <2>5 DEF SettleAborted, StartInv
  <2>6. CASE SettleCompleted(t)
    <3>1. \A u \in Tasks : status'[u] = IF u = t THEN "completed" ELSE status[u]
      BY <2>6 DEF SettleCompleted, TypeOK
    <3>2. \A u \in Tasks : /\ u \in {t} => Current(u)'
                           /\ u \notin {t} => store'[u] = store[u]
      BY <2>6, PersistAll DEF SettleCompleted
    <3>3. ASSUME NEW u \in nodes, status'[u] \in Terminal
          PROVE  Current(u)'
      <4>1. CASE u = t
        BY <3>2, <4>1
      <4>2. CASE u # t
        BY <2>1, <2>3, <3>1, <3>2, <3>3, <4>2 DEF SavedInv, Current
      <4> QED
        BY <4>1, <4>2
    <3>4. ASSUME NEW u \in nodes, status'[u] = "failed", u \notin finalizers, NEW d \in deps[u]
          PROVE  status'[d] = "completed"
      BY <2>3, <3>1, <3>4 DEF SavedInv
    <3> QED
      BY <2>1, <3>3, <3>4 DEF SavedInv
  <2>7. CASE SettleFailed(t)
    <3> DEFINE gone == IF CancelDependents THEN Doomed(t) ELSE {}
    <3>1. \A u \in gone : u \in nodes /\ u # t /\ u \notin finalizers /\ status[u] = "queued"
      BY <2>2, DoomedIsWaiting
    <3>2. \A u \in Tasks : status'[u] = IF u = t THEN "failed"
                                       ELSE IF u \in gone THEN "cancelled" ELSE status[u]
      BY <2>7 DEF SettleFailed
    <3>3. {t} \cup gone \in SUBSET Tasks
      BY <3>1, <2>3
    <3>4. Persist({t} \cup gone)
      BY <2>7 DEF SettleFailed
    <3>5. \A u \in Tasks : /\ u \in {t} \cup gone => Current(u)'
                           /\ u \notin {t} \cup gone => store'[u] = store[u]
      BY <3>3, <3>4, PersistAll
    <3> HIDE DEF gone
    <3>6. ASSUME NEW u \in nodes, status'[u] \in Terminal
          PROVE  Current(u)'
      <4>1. CASE u \in {t} \cup gone
        BY <4>1, <2>3, <3>5
      <4>2. CASE u \notin {t} \cup gone
        BY <3>6, <4>2, <2>1, <2>3, <3>2, <3>5 DEF SavedInv, Current
      <4> QED
        BY <4>1, <4>2
    <3>7. ASSUME NEW u \in nodes, status'[u] = "failed", u \notin finalizers, NEW d \in deps[u]
          PROVE  status'[d] = "completed"
      <4>1. u = t \/ status[u] = "failed"
        BY <3>7, <2>3, <3>2
      <4>2. status[d] = "completed"
        BY <3>7, <4>1, <2>4 DEF SavedInv
      <4> QED
        BY <4>2, <2>2, <2>3, <3>1, <3>2, <3>7
    <3> QED
      BY <2>1, <3>6, <3>7 DEF SavedInv
  <2> QED
    BY <1>4, <2>5, <2>6, <2>7 DEF Settle
<1>5. ASSUME NEW t \in Tasks, NEW s1 \in Tasks, NEW s2 \in Tasks, Replan(t, s1, s2)
      PROVE  SavedInv'
  <2>1. /\ handle[t] = "active" /\ s1 \notin nodes /\ s2 \notin nodes
        /\ nodes' = nodes \cup {s1, s2} /\ finalizers' = finalizers \ {s1, s2}
        /\ UNCHANGED store /\ pc \in {"wait", "drain"}
    BY <1>5 DEF Replan, Awaiting
  <2>2. status[t] # "completed"
    BY <2>1 DEF HandlesAgree, Bookkeeping, Running
  <2>3. \A u \in nodes : u \in Tasks /\ u # s1 /\ u # s2 /\ attempts'[u] = attempts[u]
    BY <1>5, <2>1 DEF Replan, TypeOK
  <2>4. status'[s1] = "queued" /\ status'[s2] = "queued"
    BY <1>5 DEF Replan
  <2>5. \A u \in Tasks : status'[u] # status[u] => u \in {s1, s2} \/ status[u] = "cancelled"
    BY <1>5 DEF Replan
  <2>6. ASSUME NEW u \in nodes, status'[u] \in Terminal, u \notin finalizers
        PROVE  deps'[u] = deps[u] /\ status'[u] = status[u]
    <3>1. u \in Tasks /\ u \notin {s1, s2}
      BY <2>3
    <3>2. status'[u] = status[u]
      BY <1>5, <2>6, <3>1 DEF Replan, Terminal
    <3>3. CASE status[u] = "cancelled"
      <4>1. u \notin DependentsOf(nodes, deps, t)
        BY <1>5, <2>6, <3>1, <3>3 DEF Replan, Terminal
      <4> QED
        BY <1>5, <3>1, <3>2, <4>1 DEF Replan, Rewired
    <3>4. CASE status[u] # "cancelled"
      <4>1. status[u] \in {"completed", "failed"}
        BY <2>6, <3>2, <3>4 DEF Terminal
      <4>2. \A d \in deps[u] : status[d] = "completed"
        BY <2>6, <4>1 DEF SavedInv, UpstreamCompleted, Entered
      <4>3. u \notin DependentsOf(nodes, deps, t)
        BY <2>2, <4>2 DEF DependentsOf
      <4> QED
        BY <1>5, <3>1, <3>2, <4>3 DEF Replan, Rewired
    <3> QED
      BY <3>3, <3>4
  <2>7. ASSUME NEW u \in nodes, status'[u] \in Terminal
        PROVE  status'[u] = status[u]
    BY <1>5, <2>3, <2>7 DEF Replan, Terminal
  <2>8. ASSUME NEW u \in nodes, status'[u] \in Terminal
        PROVE  Current(u)'
    BY <2>1, <2>3, <2>6, <2>7, <2>8 DEF SavedInv, Current
  <2>9. ASSUME NEW u \in nodes, status'[u] = "failed", u \notin finalizers, NEW d \in deps'[u]
        PROVE  status'[d] = "completed"
    <3>1. deps'[u] = deps[u] /\ status[u] = "failed"
      BY <2>6, <2>9 DEF Terminal
    <3>2. status[d] = "completed" /\ d \in Tasks /\ d \notin {s1, s2}
      BY <3>1, <2>1, <2>9 DEF SavedInv, Bookkeeping, TypeOK
    <3> QED
      BY <2>5, <3>2
  <2>10. \A u \in nodes : u \in finalizers' <=> u \in finalizers
    BY <2>1
  <2> QED
    BY <2>1, <2>4, <2>8, <2>9, <2>10 DEF SavedInv, Terminal
<1> QED
  BY <1>0, <1>1, <1>2, <1>3, <1>4, <1>5
  DEF Next, Engine, Runner, Finished, vars, Drained, RunnerEnds, RunnerUnwinds,
      RunnerSwallows, Cancel

(* The store agrees with memory when a run ends, for every graph, every    *)
(* REPLAN and every moment of a cancellation, as long as saves succeed and *)
(* runners are cancelled by the engine only.                               *)
THEOREM StoreAlwaysCurrent ==
  ASSUME ~StoreFails, ~StrayCancel
  PROVE  Spec => []StoreCurrent
<1>1. Init => EngineInv /\ StartInv /\ SavedInv
  <2>1. ASSUME Init
        PROVE  \A t \in nodes : status[t] = "queued"
    BY <2>1, EngineInit DEF Init, EngineInv, Bookkeeping
  <2> QED
    BY <2>1, EngineInit, StartInit DEF SavedInv, Terminal
<1>2. EngineInv /\ StartInv /\ SavedInv /\ [Next]_vars => EngineInv' /\ StartInv' /\ SavedInv'
  BY EngineInvStep, StartStep, SavedStep
<1>3. SavedInv => StoreCurrent
  BY DEF SavedInv, Current, StoreCurrent
<1> QED
  BY <1>1, <1>2, <1>3, PTL DEF Spec
-----------------------------------------------------------------------------
(* The promise of LateResultsDropped about one step. *)
ResultsFinal ==
  \A t \in Tasks :
    /\ status[t] \in {"completed", "failed"} => status'[t] = status[t]
    /\ pc \in {"drain", "ended"} /\ status[t] \notin {"completed", "failed"} =>
         status'[t] \notin {"running", "completed", "failed"}

LEMMA ResultsStep ==
  ASSUME EngineInv, EndInv, [Next]_vars
  PROVE  ResultsFinal
<1> USE DEF EngineInv, ResultsFinal, graph
<1>1. ASSUME UNCHANGED status
      PROVE  ResultsFinal
  <2>1. pc \in {"drain", "ended"} => \A t \in Tasks : status[t] # "running"
    BY DEF EndInv, Bookkeeping, HandlesAgree, Running
  <2> QED
    BY <1>1, <2>1
<1>2. CASE Execute(FALSE)
  <2>1. \A t \in nodes : status[t] = "queued"
    BY <1>2 DEF Execute, Bookkeeping
  <2>2. pc = "idle" /\ \A t \in Tasks : t \notin nodes => status[t] = "absent"
    BY <1>2 DEF Execute, Bookkeeping
  <2> QED
    BY <2>1, <2>2
<1>3. ASSUME NEW L \in SUBSET Ready, Launch(L)
      PROVE  ResultsFinal
  BY <1>3 DEF Launch, Ready
<1>4. CASE StopRun
  BY <1>4 DEF StopRun, CancelRemaining, Unfinished, Terminal
<1>5. ASSUME NEW t \in Tasks, Settle(t)
      PROVE  ResultsFinal
  <2>1. pc \in {"wait", "settle"}
    BY <1>5 DEF Settle
  <2>2. status[t] = "running"
    BY <1>5, <2>1 DEF HandlesAgree, Running, Settle, SettleAborted, SettleCompleted, SettleFailed
  <2>3. CASE SettleFailed(t)
    <3>1. \A u \in Doomed(t) : status[u] = "queued"
      BY <2>2, DoomedIsWaiting
    <3> QED
      BY <2>1, <2>2, <2>3, <3>1 DEF SettleFailed
  <2>4. CASE SettleAborted(t) \/ SettleCompleted(t)
    BY <2>1, <2>2, <2>4 DEF SettleAborted, SettleCompleted, TypeOK
  <2> QED
    BY <1>5, <2>3, <2>4 DEF Settle
<1>6. ASSUME NEW t \in Tasks, NEW s1 \in Tasks, NEW s2 \in Tasks, Replan(t, s1, s2)
      PROVE  ResultsFinal
  <2>1. pc \in {"wait", "drain"} /\ s1 \notin nodes /\ s2 \notin nodes
    BY <1>6 DEF Replan, Awaiting
  <2>2. status[s1] = "absent" /\ status[s2] = "absent"
    BY <2>1 DEF Bookkeeping
  <2>3. \A u \in Tasks : \/ status'[u] = status[u]
                         \/ /\ u \in {s1, s2} \/ status[u] = "cancelled"
                            /\ status'[u] = "queued"
    BY <1>6 DEF Replan
  <2>4. pc = "drain" => \A u \in Tasks : status[u] # "running"
    BY DEF Bookkeeping
  <2> QED
    BY <2>1, <2>2, <2>3, <2>4
<1> QED
  BY <1>1, <1>2, <1>3, <1>4, <1>5, <1>6
  DEF Next, Engine, Runner, Finished, vars, Drained, RunnerEnds, RunnerUnwinds,
      RunnerSwallows, Cancel

(* Results are final, and nothing that ends after the stop is taken in.    *)
THEOREM LateResultsAlwaysDropped == Spec => LateResultsDropped
<1>1. EngineInv /\ EndInv /\ [Next]_vars => ResultsFinal
  BY ResultsStep
<1>2. ResultsFinal =>
        \A t \in Tasks :
          /\ status[t] \in {"completed", "failed"} => status'[t] = status[t]
          /\ pc \in {"drain", "ended"} /\ status[t] \notin {"completed", "failed"} =>
               status'[t] \notin {"running", "completed", "failed"}
  BY DEF ResultsFinal
<1> QED
  BY <1>1, <1>2, EndInvariant, PTL DEF Spec, LateResultsDropped
-----------------------------------------------------------------------------
LEMMA RunningFinite == IsFiniteSet(Running) /\ Cardinality(Running) \in Nat
  BY FS_Subset, FS_CardinalityType, TasksAssumption DEF Running

(* What _ready finds after a launch it had already found before.           *)
LEMMA LaunchLeavesReady ==
  ASSUME EngineInv, NEW L \in SUBSET Ready, Launch(L)
  PROVE  Ready' \subseteq Ready \ L
<1> SUFFICES ASSUME NEW u \in Ready'
             PROVE  u \in Ready \ L
  OBVIOUS
<1>1. /\ UNCHANGED <<nodes, deps, finalizers>>
      /\ \A t \in Tasks : status'[t] = IF t \in L THEN "running" ELSE status[t]
  BY DEF Launch, graph
<1>2. nodes \subseteq Tasks
  BY DEF EngineInv, TypeOK
<1>3. u \in nodes /\ status'[u] = "queued" /\ DependenciesAllow(u)'
  BY <1>1 DEF Ready
<1>4. u \notin L /\ status[u] = "queued"
  BY <1>1, <1>2, <1>3
<1>5. DependenciesAllow(u)
  BY <1>1, <1>2, <1>3 DEF DependenciesAllow, Terminal
<1> QED
  BY <1>3, <1>4, <1>5 DEF Ready

LEMMA IdleStep ==
  ASSUME EngineInv, EndInv, NoIdleSlot, [Next]_vars
  PROVE  NoIdleSlot'
<1> USE DEF NoIdleSlot, EngineInv, graph
<1>1. ASSUME NEW L \in SUBSET Ready, Launch(L)
      PROVE  NoIdleSlot'
  <2>1. /\ pc = "top"
        /\ \A t \in Tasks : handle'[t] = IF t \in L THEN "active" ELSE handle[t]
        /\ L = Ready \/ Cardinality(L) + Cardinality(Running) = Slots
        /\ pc' = (IF Running \cup L = {} THEN "ended" ELSE "wait")
    BY <1>1 DEF Launch, Launchable, AfterLaunch
  <2>2. L \subseteq Tasks /\ \A t \in L : status[t] = "queued"
    BY DEF Ready, TypeOK
  <2>3. Running' = Running \cup L
    BY <2>1, <2>2 DEF Running
  <2>4. Running \cap L = {}
    BY <2>1, <2>2 DEF HandlesAgree
  <2>5. Cardinality(Running') = Cardinality(Running) + Cardinality(L)
    <3>1. IsFiniteSet(L) /\ Cardinality(L) \in Nat
      BY <2>2, FS_Subset, FS_CardinalityType, TasksAssumption
    <3>2. Cardinality(Running \cup L)
            = Cardinality(Running) + Cardinality(L) - Cardinality(Running \cap L)
      BY <3>1, RunningFinite, FS_Union
    <3>3. Cardinality(Running \cap L) = 0
      BY <2>4, FS_EmptySet
    <3> QED
      BY <2>3, <3>1, <3>2, <3>3, RunningFinite
  <2>6. L = Ready => Ready' = {}
    BY <1>1, LaunchLeavesReady
  <2>7. L # Ready => Cardinality(Running') = Slots
    <3>1. Cardinality(L) \in Nat
      BY <2>2, FS_Subset, FS_CardinalityType, TasksAssumption
    <3> QED
      BY <2>1, <2>5, <3>1, RunningFinite
  <2>8. Running \cup L = {} => L = Ready
    <3> SUFFICES ASSUME Running \cup L = {}, L # Ready
                 PROVE  FALSE
      OBVIOUS
    <3>1. Cardinality(Running') = 0
      BY <2>3, FS_EmptySet
    <3>2. Slots # 0
      BY ConcurrencyAssumption DEF Slots
    <3> QED
      BY <2>7, <3>1, <3>2
  <2>9. Slots' = Slots
    BY DEF Slots
  <2> QED
    BY <2>1, <2>6, <2>7, <2>8, <2>9
<1>2. ASSUME NEW t \in Tasks, handle'[t] \in Ended, pc' = "wait"
      PROVE  NoIdleSlot'
  BY <1>2 DEF Done
<1>3. ASSUME UNCHANGED <<nodes, deps, finalizers, status, pc>>,
             \A t \in Tasks : /\ handle'[t] = "none" <=> handle[t] = "none"
                              /\ handle[t] \in Ended => handle'[t] \in Ended,
             ~cancelled' /\ ~failedHard' => ~cancelled /\ ~failedHard
      PROVE  NoIdleSlot'
  <2>1. Running' = Running /\ Done \subseteq Done'
    BY <1>3 DEF Running, Done
  <2>2. Ready' = Ready
    BY <1>3 DEF Ready, DependenciesAllow
  <2>3. Slots' = Slots
    BY DEF Slots
  <2>4. Done' = {} => Done = {}
    BY <2>1
  <2> QED
    BY <1>3, <2>1, <2>2, <2>3, <2>4
<1>4. CASE Execute(FALSE)
  BY <1>4 DEF Execute
<1>5. CASE StopRun
  BY <1>5 DEF StopRun, CancelRemaining
<1>6. ASSUME NEW t \in Tasks, Settle(t)
      PROVE  NoIdleSlot'
  BY <1>6 DEF Settle
<1>7. CASE Drained
  BY <1>7 DEF Drained, EndInv
<1>8. ASSUME NEW t \in Tasks, NEW how \in Ended, RunnerEnds(t, how)
      PROVE  NoIdleSlot'
  BY <1>3, <1>8 DEF RunnerEnds, TypeOK, Ended
<1>9. ASSUME NEW t \in Tasks, RunnerUnwinds(t)
      PROVE  NoIdleSlot'
  BY <1>3, <1>9 DEF RunnerUnwinds, TypeOK, Ended
<1>10. ASSUME NEW t \in Tasks, RunnerSwallows(t)
       PROVE  NoIdleSlot'
  BY <1>3, <1>10 DEF RunnerSwallows, TypeOK, Ended
<1>11. ASSUME NEW t \in Tasks, NEW s1 \in Tasks, NEW s2 \in Tasks, Replan(t, s1, s2)
       PROVE  NoIdleSlot'
  <2>1. handle'[t] \in Ended /\ pc \in {"wait", "drain"} /\ pc' = pc
    BY <1>11 DEF Replan, TypeOK, Ended, Awaiting
  <2> QED
    BY <1>2, <2>1
<1>12. CASE Cancel
  BY <1>3, <1>12 DEF Cancel
<1>13. CASE UNCHANGED vars
  BY <1>3, <1>13 DEF vars
<1> QED
  BY <1>1, <1>4, <1>5, <1>6, <1>7, <1>8, <1>9, <1>10, <1>11, <1>12, <1>13
  DEF Next, Engine, Runner, Finished

(* The engine never sleeps over a ready task with a slot free, and never   *)
(* ends by itself leaving one.                                             *)
THEOREM NeverAnIdleSlot == Spec => []NoIdleSlot
<1>1. Init => NoIdleSlot
  BY DEF Init, NoIdleSlot
<1>2. EngineInv /\ EndInv /\ NoIdleSlot /\ [Next]_vars => NoIdleSlot'
  BY IdleStep
<1> QED
  BY <1>1, <1>2, EndInvariant, PTL DEF Spec
-----------------------------------------------------------------------------
(***************************************************************************)
(* The refinement.  Each action of the engine is one of TaskGraph's, or    *)
(* changes nothing a caller sees.                                          *)
(***************************************************************************)
LEMMA NodeOfCases ==
  /\ NodeOf("queued") = "pending" /\ NodeOf("running") = "started"
  /\ NodeOf("completed") = "done" /\ NodeOf("cancelled") = "dropped"
  /\ NodeOf("failed") = "failed"  /\ NodeOf("absent") = "absent"
  BY DEF NodeOf

LEMMA ContractInit ==
  ASSUME Init
  PROVE  Contract!Init
<1>1. TypeOK
  BY TypeInit
<1>2. \A t \in Tasks : NodeOf(status[t]) \in {"absent", "pending"}
  BY NodeOfCases DEF Init
<1> QED
  BY <1>1, <1>2 DEF Contract!Init, TypeOK

LEMMA ContractStep ==
  ASSUME EngineInv, EndInv, [Next]_vars
  PROVE  [Contract!Next]_(Contract!vars)
<1> USE DEF EngineInv, graph
<1> DEFINE node == [t \in Tasks |-> NodeOf(status[t])]
<1>1. ASSUME UNCHANGED <<status, deps, finalizers>>
      PROVE  UNCHANGED Contract!vars
  BY <1>1 DEF Contract!vars
<1>2. CASE Execute(FALSE)
  <2>1. \A t \in nodes : status[t] = "queued"
    BY <1>2 DEF Execute, Bookkeeping
  <2>2. status' = status
    BY <1>2, <2>1 DEF Execute, AfterPrologue, TypeOK
  <2> QED
    BY <1>1, <1>2, <2>2 DEF Execute
<1>3. ASSUME NEW L \in SUBSET Ready, Launch(L)
      PROVE  [Contract!Next]_(Contract!vars)
  <2>1. /\ L \subseteq nodes /\ L \subseteq Tasks
        /\ \A t \in L : status[t] = "queued" /\ DependenciesAllow(t)
    BY DEF Ready, TypeOK
  <2>2. /\ \A t \in Tasks : status'[t] = IF t \in L THEN "running" ELSE status[t]
        /\ UNCHANGED <<deps, finalizers>>
    BY <1>3 DEF Launch
  <2>3. CASE L = {}
    <3>1. status' = status
      BY <1>3, <2>3 DEF Launch, TypeOK
    <3> QED
      BY <1>1, <2>2, <3>1
  <2>4. CASE L # {}
    <3>1. \A t \in L : deps[t] \subseteq nodes
      BY <1>3, <2>1 DEF GraphStaysValid, ValidGraph, UnknownDependency, Launch
    <3>2. \A t \in L : Contract!MayStart(t)
      <4> SUFFICES ASSUME NEW t \in L, NEW u \in deps[t]
                   PROVE  IF t \in finalizers THEN NodeOf(status[u]) \in {"done", "failed", "dropped"}
                                              ELSE NodeOf(status[u]) = "done"
        BY <2>1, <3>1 DEF Contract!MayStart, Contract!Over, TypeOK
      <4> QED
        BY <2>1, <3>1, NodeOfCases DEF DependenciesAllow, Terminal
    <3>3. node' = [t \in Tasks |-> IF t \in L THEN "started" ELSE node[t]]
      BY <2>2, NodeOfCases
    <3>4. \A t \in L : node[t] = "pending"
      BY <2>1, NodeOfCases
    <3>5. Contract!Start(L)
      BY <2>2, <2>4, <3>2, <3>3, <3>4 DEF Contract!Start
    <3> QED
      BY <2>1, <3>5 DEF Contract!Next
  <2> QED
    BY <2>3, <2>4
<1>4. CASE StopRun
  <2>1. /\ \A t \in Tasks : status'[t] = IF t \in Unfinished THEN "cancelled" ELSE status[t]
        /\ UNCHANGED <<deps, finalizers>>
    BY <1>4 DEF StopRun, CancelRemaining
  <2>2. \A t \in Tasks : t \in Unfinished <=> NodeOf(status[t]) \in {"pending", "started"}
    <3> SUFFICES ASSUME NEW t \in Tasks
                 PROVE  t \in Unfinished <=> NodeOf(status[t]) \in {"pending", "started"}
      OBVIOUS
    <3>1. status[t] \in Status \cup {"absent"}
      BY DEF TypeOK
    <3> QED
      BY <3>1, NodeOfCases DEF Status, Terminal, Unfinished, Bookkeeping
  <2>3. node' = [t \in Tasks |-> IF node[t] \in {"pending", "started"} THEN "dropped" ELSE node[t]]
    BY <2>1, <2>2, NodeOfCases
  <2>4. Contract!Stop
    BY <2>1, <2>3 DEF Contract!Stop
  <2> QED
    BY <2>4 DEF Contract!Next
<1>5. ASSUME NEW t \in Tasks, Settle(t)
      PROVE  [Contract!Next]_(Contract!vars)
  <2>1. pc \in {"wait", "settle"} /\ UNCHANGED <<deps, finalizers>>
    BY <1>5 DEF Settle
  <2>2. status[t] = "running"
    BY <1>5, <2>1 DEF HandlesAgree, Running, Settle, SettleAborted, SettleCompleted, SettleFailed
  <2>3. PICK end \in Terminal, gone \in SUBSET Tasks :
          /\ gone # {} => end = "failed"
          /\ \A u \in gone : status[u] = "queued" /\ u \notin finalizers /\ u # t
          /\ \A u \in Tasks : status'[u] = IF u = t THEN end
                                           ELSE IF u \in gone THEN "cancelled" ELSE status[u]
    <3> USE DEF Terminal
    <3>1. CASE SettleAborted(t)
      <4> WITNESS "cancelled" \in Terminal, {} \in SUBSET Tasks
      <4> QED
        BY <3>1 DEF SettleAborted, TypeOK
    <3>2. CASE SettleCompleted(t)
      <4> WITNESS "completed" \in Terminal, {} \in SUBSET Tasks
      <4> QED
        BY <3>2 DEF SettleCompleted, TypeOK
    <3>3. CASE SettleFailed(t)
      <4>1. \A u \in Doomed(t) : u \in Tasks /\ status[u] = "queued" /\ u \notin finalizers /\ u # t
        BY <2>2, DoomedIsWaiting DEF TypeOK
      <4>2. (IF CancelDependents THEN Doomed(t) ELSE {}) \in SUBSET Tasks
        BY <4>1
      <4> USE <4>2
      <4> WITNESS "failed" \in Terminal, (IF CancelDependents THEN Doomed(t) ELSE {}) \in SUBSET Tasks
      <4> QED
        BY <3>3, <4>1 DEF SettleFailed, TypeOK
    <3> QED
      BY <1>5, <3>1, <3>2, <3>3 DEF Settle
  <2>4. NodeOf(end) \in Contract!Over /\ (end = "failed" => NodeOf(end) = "failed")
    BY NodeOfCases DEF Terminal, Contract!Over
  <2>5. node' = [u \in Tasks |-> IF u = t THEN NodeOf(end)
                                 ELSE IF u \in gone THEN "dropped" ELSE node[u]]
    BY <2>3, NodeOfCases
  <2>6. Contract!Conclude(t, NodeOf(end), gone)
    BY <2>1, <2>2, <2>3, <2>4, <2>5, NodeOfCases DEF Contract!Conclude
  <2> QED
    BY <2>4, <2>6 DEF Contract!Next
<1>6. ASSUME NEW t \in Tasks, NEW s1 \in Tasks, NEW s2 \in Tasks, Replan(t, s1, s2)
      PROVE  [Contract!Next]_(Contract!vars)
  <2>1. /\ pc \in {"wait", "drain"} /\ handle[t] = "active"
        /\ s1 \notin nodes /\ s2 \notin nodes /\ s1 # s2
        /\ deps' = Rewired(t, s1, s2) /\ finalizers' = finalizers \ {s1, s2}
    BY <1>6 DEF Replan, Awaiting
  <2>2. \A u \in Tasks : u \in nodes <=> NodeOf(status[u]) # "absent"
    <3> SUFFICES ASSUME NEW u \in Tasks
                 PROVE  u \in nodes <=> NodeOf(status[u]) # "absent"
      OBVIOUS
    <3>1. status[u] \in Status \cup {"absent"}
      BY DEF TypeOK
    <3> QED
      BY <3>1, NodeOfCases DEF Status, Terminal, Bookkeeping
  <2>3. NodeOf(status[t]) \in {"pending", "started", "dropped"}
    BY <2>1, NodeOfCases DEF HandlesAgree, Running, EndInv
  <2>4. NodeOf(status[s1]) = "absent" /\ NodeOf(status[s2]) = "absent"
    BY <2>1, <2>2
  <2>5. DependentsOf(nodes, deps, t) = {u \in Tasks : node[u] # "absent" /\ t \in deps[u]}
    BY <2>2 DEF DependentsOf, TypeOK
  <2>6. \A u \in Tasks : status[u] = "cancelled" <=> NodeOf(status[u]) = "dropped"
    <3> SUFFICES ASSUME NEW u \in Tasks
                 PROVE  status[u] = "cancelled" <=> NodeOf(status[u]) = "dropped"
      OBVIOUS
    <3>1. status[u] \in Status \cup {"absent"}
      BY DEF TypeOK
    <3> QED
      BY <3>1, NodeOfCases DEF Status, Terminal
  <2> DEFINE outer == {u \in Tasks : node[u] # "absent" /\ t \in deps[u]}
  <2>7. \A u \in Tasks : status'[u] = IF \/ u \in {s1, s2}
                                         \/ u \in outer /\ node[u] = "dropped"
                                      THEN "queued" ELSE status[u]
    BY <1>6, <2>5, <2>6 DEF Replan
  <2>8. node' = [u \in Tasks |-> IF u \in {s1, s2} \/ (u \in outer /\ node[u] = "dropped")
                                 THEN "pending" ELSE node[u]]
    BY <2>7, NodeOfCases
  <2>9. deps' = [u \in Tasks |-> IF u = s1 THEN deps[t]
                                 ELSE IF u = s2 THEN {s1}
                                 ELSE IF u \in outer THEN (deps[u] \ {t}) \cup {s2}
                                 ELSE deps[u]]
    BY <2>1, <2>5 DEF Rewired
  <2>10. Contract!Split(t, s1, s2)
    BY <2>1, <2>3, <2>4, <2>8, <2>9 DEF Contract!Split
  <2> QED
    BY <2>10 DEF Contract!Next
<1>7. CASE UNCHANGED <<status, deps, finalizers>>
  BY <1>1, <1>7
<1> QED
  BY <1>2, <1>3, <1>4, <1>5, <1>6, <1>7
  DEF Next, Engine, Runner, Finished, vars, Drained, RunnerEnds, RunnerUnwinds,
      RunnerSwallows, Cancel

(* DAGEngine.execute keeps the promises of TaskGraph.                      *)
THEOREM EngineImplementsTaskGraph == Spec => ImplementsTaskGraph
<1>1. Init => Contract!Init
  BY ContractInit
<1>2. EngineInv /\ EndInv /\ [Next]_vars => [Contract!Next]_(Contract!vars)
  BY ContractStep
<1> QED
  BY <1>1, <1>2, EndInvariant, PTL DEF Spec, ImplementsTaskGraph, Contract!Spec
=============================================================================
