--------------------------- MODULE RepairLoopProofs ---------------------------
(***************************************************************************)
(* RepairLoop, for every number of tasks, every budget and every playbook  *)
(* a configuration may define.                                             *)
(***************************************************************************)
EXTENDS RepairLoop, FiniteSetTheorems, TLAPS

LEMMA LeastElement ==
  ASSUME NEW T \in SUBSET Nat, T # {}
  PROVE  \E x \in T : \A y \in T : x <= y
<1>1. PICK x \in T : \A y \in T : ~(<<y, x>> \in OpToRel(<, Nat))
  BY NatLessThanWellFounded, WFMin
<1>2. ASSUME NEW y \in T
      PROVE  x <= y
  <2>1. x \in Nat /\ y \in Nat
    OBVIOUS
  <2>2. ~(y < x)
    <3>1. <<y, x>>[1] = y /\ <<y, x>>[2] = x /\ <<y, x>> \in Nat \X Nat
      BY <2>1
    <3> QED
      BY <1>1, <3>1 DEF OpToRel
  <2> QED
    BY <2>1, <2>2
<1> QED
  BY <1>2

LEMMA PlaybookType ==
  ASSUME NEW cat \in Categories
  PROVE  Playbook(cat) \in Seq(Strategies)
<1>1. DefaultPlaybook[cat] \in Seq(Strategies)
  <2> USE DEF Strategies
  <2>1. DefaultPlaybook.PROVIDER_ERROR \in Seq(Strategies)
    BY DEF DefaultPlaybook
  <2>2. DefaultPlaybook.BACKEND_ERROR \in Seq(Strategies)
    BY DEF DefaultPlaybook
  <2>3. DefaultPlaybook.TOOL_ERROR \in Seq(Strategies)
    BY DEF DefaultPlaybook
  <2>4. DefaultPlaybook.PERMISSION_ERROR \in Seq(Strategies)
    BY DEF DefaultPlaybook
  <2>5. DefaultPlaybook.CODE_ERROR \in Seq(Strategies)
    BY DEF DefaultPlaybook
  <2>6. DefaultPlaybook.TEST_FAILURE \in Seq(Strategies)
    BY DEF DefaultPlaybook
  <2>7. DefaultPlaybook.CONTEXT_ERROR \in Seq(Strategies)
    BY DEF DefaultPlaybook
  <2>8. DefaultPlaybook.TIMEOUT \in Seq(Strategies)
    BY DEF DefaultPlaybook
  <2>9. DefaultPlaybook.RATE_LIMIT \in Seq(Strategies)
    BY DEF DefaultPlaybook
  <2>10. DefaultPlaybook.ROUTING_ERROR \in Seq(Strategies)
    BY DEF DefaultPlaybook
  <2>11. DefaultPlaybook.REVIEW_REJECTED \in Seq(Strategies)
    BY DEF DefaultPlaybook
  <2>12. DefaultPlaybook.CANCELLED \in Seq(Strategies)
    BY DEF DefaultPlaybook
  <2>13. DefaultPlaybook.UNKNOWN \in Seq(Strategies)
    BY DEF DefaultPlaybook
  <2> QED
    BY <2>1, <2>2, <2>3, <2>4, <2>5, <2>6, <2>7, <2>8, <2>9, <2>10, <2>11, <2>12, <2>13 DEF Categories
<1>2. CASE cat \in DOMAIN Overrides /\ Overrides[cat] # <<>>
  <2>1. Overrides[cat] \in Seq(Strategies) /\ "ABORT" \in Strategies
    BY <1>2, RepairAssumption DEF Strategies
  <2> QED
    BY <1>2, <2>1 DEF Playbook
<1> QED
  BY <1>1, <1>2 DEF Playbook

(* A decision to go on names a strategy the task has not had yet, and is   *)
(* taken only while the task's budget lasts.                               *)
LEMMA DecisionIsFresh ==
  ASSUME NEW t \in Tasks, NEW cat \in Categories, Decision(t, cat) \notin GivesUp
  PROVE  /\ Decision(t, cat) \in Strategies
         /\ Decision(t, cat) \notin Tried(t)
         /\ ~(repairAttempts[t] >= MaxPerTask)
         /\ ~(records >= MaxPerWorkflow)
<1> DEFINE book == Playbook(cat)
           usable == {i \in DOMAIN book : Usable(t, book[i])}
<1>1. /\ usable # {}
      /\ ~(repairAttempts[t] >= MaxPerTask) /\ ~(records >= MaxPerWorkflow)
      /\ Decision(t, cat) = book[CHOOSE i \in usable : \A j \in usable : i <= j]
  BY DEF Decision, GivesUp
<1>2. book \in Seq(Strategies)
  BY PlaybookType
<1>3. usable \in SUBSET Nat
  BY <1>2
<1> DEFINE first == CHOOSE i \in usable : \A j \in usable : i <= j
<1>4. first \in usable
  <2> HIDE DEF usable
  <2>1. \E i \in usable : \A j \in usable : i <= j
    BY <1>1, <1>3, LeastElement
  <2> QED
    BY <2>1
<1> QED
  BY <1>1, <1>2, <1>4 DEF Usable

RepairInv ==
  /\ TypeOK
  /\ NeverTwice
  /\ TaskBudget

LEMMA FailStep ==
  ASSUME RepairInv, NEW t \in Tasks, NEW cat \in Failures, Fail(t, cat)
  PROVE  RepairInv'
<1> USE DEF RepairInv
<1> DEFINE s == Decision(t, cat)
<1>1. cat \in Categories
  BY RepairAssumption
<1>2. /\ tries' = [tries EXCEPT ![t] = @ + 1] /\ records' = records + 1
      /\ UNCHANGED <<attempts, cancelled, resumes>>
  BY DEF Fail
<1>3. tries' \in [Tasks -> Nat] /\ records' \in Nat
  BY <1>2 DEF TypeOK
<1>4. CASE Unrecorded(t) \/ GiveUp(t)
  <2>1. /\ \E end \in {"failed", "raised"} : stage' = [stage EXCEPT ![t] = end]
        /\ UNCHANGED <<tried, repairAttempts>>
    BY <1>4 DEF Unrecorded, GiveUp
  <2>2. TypeOK'
    BY <1>2, <1>3, <2>1 DEF TypeOK, Stage, Ended
  <2> QED
    BY <2>1, <2>2 DEF NeverTwice, TaskBudget
<1>5. CASE s \notin GivesUp /\ Repair(t, s)
  <2>1. /\ repairAttempts' = [repairAttempts EXCEPT ![t] = @ + 1]
        /\ tried' = [tried EXCEPT ![t] = Append(@, s)]
        /\ stage' \in [Tasks -> Stage]
    BY <1>5 DEF Repair, AfterRepair, TypeOK, NextRound, Stage, Ended
  <2>2. s \in Strategies /\ s \notin Tried(t) /\ ~(repairAttempts[t] >= MaxPerTask)
    BY <1>1, <1>5, DecisionIsFresh
  <2> HIDE DEF s
  <2>3. /\ tried[t] \in Seq(Strategies) /\ tried'[t] = Append(tried[t], s)
        /\ \A u \in Tasks : u # t => tried'[u] = tried[u]
    BY <2>1 DEF TypeOK
  <2>4. TypeOK'
    <3>1. repairAttempts' \in [Tasks -> Nat]
      BY <2>1 DEF TypeOK
    <3>2. tried' \in [Tasks -> Seq(Strategies)]
      BY <2>1, <2>2 DEF TypeOK
    <3> QED
      BY <1>2, <1>3, <2>1, <3>1, <3>2 DEF TypeOK
  <2>5. NeverTwice'
    <3> SUFFICES ASSUME NEW u \in Tasks, NEW i \in DOMAIN tried'[u], NEW j \in DOMAIN tried'[u],
                        tried'[u][i] = tried'[u][j]
                 PROVE  i = j
      BY DEF NeverTwice
    <3>1. CASE u # t
      BY <2>3, <3>1 DEF NeverTwice
    <3>2. CASE u = t
      <4>1. \A k \in DOMAIN tried[t] : tried[t][k] # s
        BY <2>2 DEF Tried
      <4>2. \A k, l \in DOMAIN tried[t] : tried[t][k] = tried[t][l] => k = l
        BY DEF NeverTwice
      <4>3. /\ DOMAIN tried[t] = 1 .. Len(tried[t]) /\ Len(tried[t]) \in Nat
            /\ DOMAIN tried'[t] = 1 .. Len(tried[t]) + 1
        BY <2>3
      <4>4. /\ \A k \in 1 .. Len(tried[t]) : tried'[t][k] = tried[t][k]
            /\ tried'[t][Len(tried[t]) + 1] = s
        BY <2>3
      <4>5. CASE i \in 1 .. Len(tried[t]) /\ j \in 1 .. Len(tried[t])
        BY <3>2, <4>2, <4>3, <4>4, <4>5
      <4>6. CASE i \in 1 .. Len(tried[t]) /\ j = Len(tried[t]) + 1
        BY <3>2, <4>1, <4>3, <4>4, <4>6
      <4>7. CASE i = Len(tried[t]) + 1 /\ j \in 1 .. Len(tried[t])
        BY <3>2, <4>1, <4>3, <4>4, <4>7
      <4> QED
        BY <3>2, <4>3, <4>5, <4>6, <4>7
    <3> QED
      BY <3>1, <3>2
  <2>6. TaskBudget'
    <3> SUFFICES ASSUME NEW u \in Tasks
                 PROVE  /\ repairAttempts'[u] = Len(tried'[u])
                        /\ repairAttempts'[u] <= MaxPerTask
      BY DEF TaskBudget
    <3>1. repairAttempts[u] = Len(tried[u]) /\ repairAttempts[u] <= MaxPerTask
          /\ repairAttempts[u] \in Nat
      BY DEF TaskBudget, TypeOK
    <3>2. CASE u # t
      BY <2>1, <2>3, <3>1, <3>2 DEF TypeOK
    <3>3. CASE u = t
      <4>1. repairAttempts'[u] = repairAttempts[u] + 1
        BY <2>1, <3>3 DEF TypeOK
      <4>2. Len(tried'[u]) = Len(tried[u]) + 1
        BY <2>3, <3>3
      <4>3. repairAttempts[u] < MaxPerTask
        BY <2>2, <3>1, <3>3, RepairAssumption
      <4> QED
        BY <3>1, <4>1, <4>2, <4>3, RepairAssumption
    <3> QED
      BY <3>2, <3>3
  <2> QED
    BY <2>4, <2>5, <2>6
<1> QED
  BY <1>4, <1>5 DEF Fail

LEMMA RepairStep ==
  ASSUME RepairInv, [Next]_vars
  PROVE  RepairInv'
<1> USE DEF RepairInv
<1>1. ASSUME NEW t \in Tasks, Launch(t) \/ Succeed(t) \/ Wake(t)
      PROVE  RepairInv'
  <2>1. UNCHANGED <<tried, repairAttempts, records, cancelled, resumes>>
    BY <1>1 DEF Launch, Succeed, Wake
  <2>2. stage' \in [Tasks -> Stage]
    BY <1>1 DEF Launch, Succeed, Wake, TypeOK, NextRound, Stage, Ended
  <2>3. attempts' \in [Tasks -> Nat] /\ tries' \in [Tasks -> Nat]
    <3>1. CASE Launch(t)
      BY <3>1 DEF Launch, TypeOK
    <3>2. CASE Succeed(t)
      BY <3>2 DEF Succeed, TypeOK
    <3>3. CASE Wake(t)
      BY <3>3 DEF Wake, TypeOK
    <3> QED
      BY <1>1, <3>1, <3>2, <3>3
  <2> QED
    BY <2>1, <2>2, <2>3 DEF TypeOK, NeverTwice, TaskBudget
<1>2. ASSUME NEW t \in Tasks, NEW cat \in Failures, Fail(t, cat)
      PROVE  RepairInv'
  BY <1>2, FailStep
<1>3. CASE Cancel
  BY <1>3 DEF Cancel, TypeOK, NeverTwice, TaskBudget
<1>4. ASSUME NEW newProcess \in BOOLEAN, Resume(newProcess)
      PROVE  RepairInv'
  <2>1. UNCHANGED <<attempts, tried, repairAttempts, tries>>
    BY <1>4 DEF Resume
  <2>2. stage' \in [Tasks -> Stage]
    BY <1>4 DEF Resume, TypeOK, Stage
  <2>3. records' \in Nat /\ resumes' \in Nat
    BY <1>4 DEF Resume, TypeOK
  <2>4. cancelled' \in BOOLEAN
    BY <1>4, Zenon DEF Resume, TypeOK
  <2> QED
    BY <2>1, <2>2, <2>3, <2>4 DEF TypeOK, NeverTwice, TaskBudget
<1>5. CASE UNCHANGED vars
  BY <1>5 DEF vars, TypeOK, NeverTwice, TaskBudget
<1> QED
  BY <1>1, <1>2, <1>3, <1>4, <1>5 DEF Next, Runner, AllEnded

THEOREM RepairInvariant == Spec => []RepairInv
<1>1. Init => RepairInv
  <2> SUFFICES ASSUME Init
               PROVE  RepairInv
    OBVIOUS
  <2>1. TypeOK
    <3>1. <<>> \in Seq(Strategies)
      OBVIOUS
    <3>2. stage \in [Tasks -> Stage] /\ tried \in [Tasks -> Seq(Strategies)]
      BY <3>1 DEF Init, Stage
    <3> QED
      BY <3>2 DEF Init, TypeOK
  <2>2. \A t \in Tasks : tried[t] = <<>> /\ repairAttempts[t] = 0
    BY DEF Init
  <2>3. NeverTwice /\ TaskBudget
    BY <2>2, RepairAssumption DEF NeverTwice, TaskBudget
  <2> QED
    BY <2>1, <2>3 DEF RepairInv
<1>2. RepairInv /\ [Next]_vars => RepairInv'
  BY RepairStep
<1> QED
  BY <1>1, <1>2, PTL DEF Spec

(* "A strategy is never tried twice for the same task" (repair.py:3),      *)
(* whatever the playbook and however often the workflow is resumed.        *)
THEOREM NeverTriedTwice == Spec => []NeverTwice
<1>1. RepairInv => NeverTwice
  BY DEF RepairInv
<1> QED
  BY <1>1, RepairInvariant, PTL

(* No task is ever repaired more than max_repairs_per_task times.          *)
THEOREM TaskBudgetKept == Spec => []TaskBudget
<1>1. RepairInv => TaskBudget
  BY DEF RepairInv
<1> QED
  BY <1>1, RepairInvariant, PTL

(***************************************************************************)
(* The budget of the workflow.  In its first run every repair has its      *)
(* record, and is made while fewer records than the budget are there; and  *)
(* an attempt that is not a task's first follows one of its repairs.       *)
(***************************************************************************)
Repairs == [t \in Tasks |-> Len(tried[t])]

FirstRun ==
  resumes = 0 =>
    /\ IsFiniteSet(Counted(Repairs))
    /\ SumOver(Repairs) <= records /\ SumOver(Repairs) <= MaxPerWorkflow
    /\ \A t \in Tasks : /\ tries[t] <= Len(tried[t]) + 1
                        /\ stage[t] \notin Ended => tries[t] <= Len(tried[t])

BudgetInv == RepairInv /\ FirstRun

LEMMA AttemptsFollowRepairs ==
  ASSUME TypeOK, FirstRun, resumes = 0
  PROVE  SumOver(tries) <= Cardinality(Tasks) + MaxPerWorkflow
<1> DEFINE firsts == {<<t, Len(tried[t]) + 1>> : t \in Tasks}
<1>1. IsFiniteSet(firsts) /\ Cardinality(firsts) <= Cardinality(Tasks)
  <2> DEFINE first == [t \in Tasks |-> <<t, Len(tried[t]) + 1>>]
  <2>1. first \in Surjection(Tasks, firsts)
    BY DEF Surjection
  <2> HIDE DEF first, firsts
  <2> QED
    BY <2>1, FS_Surjection, RepairAssumption
<1>2. Counted(tries) \subseteq Counted(Repairs) \cup firsts
  <2> SUFFICES ASSUME NEW t \in Tasks, NEW n \in 1 .. tries[t]
               PROVE  <<t, n>> \in Counted(Repairs) \cup firsts
    BY DEF Counted
  <2>1. tries[t] \in Nat /\ Len(tried[t]) \in Nat /\ tries[t] <= Len(tried[t]) + 1
    BY DEF TypeOK, FirstRun
  <2>2. CASE n <= Len(tried[t])
    <3>1. n \in 1 .. Repairs[t]
      BY <2>1, <2>2 DEF Repairs
    <3> QED
      BY <3>1 DEF Counted
  <2>3. CASE ~(n <= Len(tried[t]))
    <3>1. n = Len(tried[t]) + 1
      BY <2>1, <2>3
    <3> QED
      BY <3>1
  <2> QED
    BY <2>2, <2>3
<1> HIDE DEF firsts
<1>3. /\ IsFiniteSet(Counted(Repairs) \cup firsts)
      /\ Cardinality(Counted(Repairs) \cup firsts) <=
           Cardinality(Counted(Repairs)) + Cardinality(firsts)
  <2>1. IsFiniteSet(Counted(Repairs)) /\ IsFiniteSet(Counted(Repairs) \cap firsts)
    BY <1>1, FS_Intersection DEF FirstRun
  <2>2. /\ Cardinality(Counted(Repairs)) \in Nat /\ Cardinality(firsts) \in Nat
        /\ Cardinality(Counted(Repairs) \cap firsts) \in Nat
    BY <1>1, <2>1, FS_CardinalityType
  <2>3. IsFiniteSet(Counted(Repairs) \cup firsts)
        /\ Cardinality(Counted(Repairs) \cup firsts) =
             Cardinality(Counted(Repairs)) + Cardinality(firsts)
               - Cardinality(Counted(Repairs) \cap firsts)
    BY <1>1, <2>1, FS_Union
  <2> QED
    BY <2>2, <2>3
<1>4. IsFiniteSet(Counted(tries))
      /\ Cardinality(Counted(tries)) <= Cardinality(Counted(Repairs) \cup firsts)
  BY <1>2, <1>3, FS_Subset
<1>5. /\ Cardinality(Counted(tries)) \in Nat /\ Cardinality(Counted(Repairs)) \in Nat
      /\ Cardinality(firsts) \in Nat /\ Cardinality(Tasks) \in Nat
      /\ Cardinality(Counted(Repairs) \cup firsts) \in Nat
  BY <1>1, <1>3, <1>4, FS_CardinalityType, RepairAssumption DEF FirstRun
<1> QED
  BY <1>1, <1>3, <1>4, <1>5, RepairAssumption DEF FirstRun, SumOver

LEMMA FirstRunInit == Init => FirstRun
<1> SUFFICES ASSUME Init PROVE FirstRun
  OBVIOUS
<1>1. \A t \in Tasks : tried[t] = <<>> /\ tries[t] = 0 /\ stage[t] = "queued"
  BY DEF Init
<1>2. Counted(Repairs) = {}
  BY <1>1 DEF Counted, Repairs
<1>3. IsFiniteSet(Counted(Repairs)) /\ SumOver(Repairs) = 0
  BY <1>2, FS_EmptySet DEF SumOver
<1>4. \A t \in Tasks : /\ tries[t] <= Len(tried[t]) + 1
                       /\ stage[t] \notin Ended => tries[t] <= Len(tried[t])
  <2>1. Len(<<>>) = 0
    OBVIOUS
  <2> QED
    BY <1>1, <2>1
<1> QED
  BY <1>3, <1>4, RepairAssumption DEF FirstRun, Init

(* The sum only depends on the repairs.                                     *)
LEMMA FirstRunKept ==
  ASSUME BudgetInv, UNCHANGED tried, records' >= records, resumes' = 0 => resumes = 0,
         records' \in Nat,
         resumes = 0 => \A t \in Tasks :
           /\ tries'[t] <= Len(tried[t]) + 1
           /\ stage'[t] \notin Ended => tries'[t] <= Len(tried[t])
  PROVE  FirstRun'
<1> SUFFICES ASSUME resumes' = 0
             PROVE  /\ IsFiniteSet(Counted(Repairs))
                    /\ SumOver(Repairs) <= records' /\ SumOver(Repairs) <= MaxPerWorkflow
                    /\ \A t \in Tasks :
                         /\ tries'[t] <= Len(tried[t]) + 1
                         /\ stage'[t] \notin Ended => tries'[t] <= Len(tried[t])
  BY DEF FirstRun, Repairs, SumOver, Counted
<1>1. resumes = 0 /\ records \in Nat
  BY DEF BudgetInv, RepairInv, TypeOK
<1>2. /\ IsFiniteSet(Counted(Repairs))
      /\ SumOver(Repairs) <= records /\ SumOver(Repairs) <= MaxPerWorkflow
  BY <1>1 DEF BudgetInv, FirstRun
<1>3. SumOver(Repairs) \in Nat
  BY <1>2, FS_CardinalityType DEF SumOver
<1>4. SumOver(Repairs) <= records'
  BY <1>1, <1>2, <1>3
<1> QED
  BY <1>1, <1>2, <1>4

LEMMA FirstRunFail ==
  ASSUME BudgetInv, NEW t \in Tasks, NEW cat \in Failures, Fail(t, cat)
  PROVE  FirstRun'
<1> DEFINE s == Decision(t, cat)
<1>1. TypeOK /\ cat \in Categories
  BY RepairAssumption DEF BudgetInv, RepairInv
<1>2. /\ stage[t] = "attempting" /\ tries' = [tries EXCEPT ![t] = @ + 1]
      /\ records' = records + 1 /\ resumes' = resumes
  BY DEF Fail
<1>3. \A u \in Tasks : tries[u] \in Nat /\ tried[u] \in Seq(Strategies) /\ Len(tried[u]) \in Nat
  BY <1>1 DEF TypeOK
<1>4. /\ tries'[t] = tries[t] + 1
      /\ \A u \in Tasks \ {t} : tries'[u] = tries[u]
  BY <1>1, <1>2 DEF TypeOK
<1>5. resumes = 0 =>
        /\ tries[t] <= Len(tried[t])
        /\ \A u \in Tasks : /\ tries[u] <= Len(tried[u]) + 1
                            /\ stage[u] \notin Ended => tries[u] <= Len(tried[u])
  <2> SUFFICES ASSUME resumes = 0
               PROVE  /\ tries[t] <= Len(tried[t])
                      /\ \A u \in Tasks :
                           /\ tries[u] <= Len(tried[u]) + 1
                           /\ stage[u] \notin Ended => tries[u] <= Len(tried[u])
    OBVIOUS
  <2>1. \A u \in Tasks : /\ tries[u] <= Len(tried[u]) + 1
                         /\ stage[u] \notin Ended => tries[u] <= Len(tried[u])
    BY DEF BudgetInv, FirstRun
  <2>2. stage[t] \notin Ended
    BY <1>2 DEF Ended
  <2> QED
    BY <1>3, <2>1, <2>2
<1>6. CASE Unrecorded(t) \/ GiveUp(t)
  <2>1. tried' = tried /\ stage'[t] \in Ended /\ \A u \in Tasks \ {t} : stage'[u] = stage[u]
    BY <1>1, <1>6 DEF Unrecorded, GiveUp, TypeOK, Ended
  <2>2. records' >= records /\ records' \in Nat
    BY <1>1, <1>2 DEF TypeOK
  <2>3. ASSUME resumes = 0, NEW u \in Tasks
        PROVE  /\ tries'[u] <= Len(tried[u]) + 1
               /\ stage'[u] \notin Ended => tries'[u] <= Len(tried[u])
    <3>1. CASE u = t
      BY <1>3, <1>4, <1>5, <2>1, <2>3, <3>1
    <3>2. CASE u # t
      BY <1>4, <1>5, <2>1, <2>3, <3>2
    <3> QED
      BY <3>1, <3>2
  <2> QED
    BY <1>2, <2>1, <2>2, <2>3, FirstRunKept
<1>7. CASE s \notin GivesUp /\ Repair(t, s)
  <2> SUFFICES ASSUME resumes = 0 PROVE FirstRun'
    BY <1>2 DEF FirstRun
  <2>1. tried' = [tried EXCEPT ![t] = Append(@, s)]
    BY <1>7 DEF Repair
  <2>2. s \in Strategies /\ records < MaxPerWorkflow
    BY <1>1, <1>7, DecisionIsFresh, RepairAssumption DEF TypeOK
  <2>3. \A u \in Tasks \ {t} : stage'[u] = stage[u]
    BY <1>1, <1>7 DEF Repair, TypeOK
  <2> HIDE DEF s
  <2>4. /\ Len(tried'[t]) = Len(tried[t]) + 1
        /\ \A u \in Tasks \ {t} : tried'[u] = tried[u]
    BY <1>1, <1>3, <2>1, <2>2 DEF TypeOK
  <2> DEFINE p == <<t, Len(tried[t]) + 1>>
  <2>5. Counted(Repairs)' = Counted(Repairs) \cup {p}
    <3>1. Counted(Repairs)' = UNION {{u} \X (1 .. Len(tried'[u])) : u \in Tasks}
      BY DEF Counted, Repairs
    <3>2. Counted(Repairs) = UNION {{u} \X (1 .. Len(tried[u])) : u \in Tasks}
      BY DEF Counted, Repairs
    <3>3. 1 .. (Len(tried[t]) + 1) = (1 .. Len(tried[t])) \cup {Len(tried[t]) + 1}
      BY <1>3
    <3>4. {t} \X (1 .. Len(tried'[t])) = ({t} \X (1 .. Len(tried[t]))) \cup {p}
      BY <2>4, <3>3
    <3>5. \A u \in Tasks \ {t} : {u} \X (1 .. Len(tried'[u])) = {u} \X (1 .. Len(tried[u]))
      BY <2>4
    <3> HIDE DEF p
    <3> QED
      BY <3>1, <3>2, <3>4, <3>5
  <2>6. IsFiniteSet(Counted(Repairs)) /\ SumOver(Repairs) \in Nat
        /\ SumOver(Repairs) <= records /\ records \in Nat
    BY <1>1, FS_CardinalityType DEF BudgetInv, FirstRun, SumOver, TypeOK
  <2> HIDE DEF p
  <2>7. /\ IsFiniteSet(Counted(Repairs)')
        /\ Cardinality(Counted(Repairs)') <= SumOver(Repairs) + 1
        /\ Cardinality(Counted(Repairs)') \in Nat
    <3>1. /\ IsFiniteSet(Counted(Repairs) \cup {p})
          /\ Cardinality(Counted(Repairs) \cup {p}) =
               IF p \in Counted(Repairs) THEN Cardinality(Counted(Repairs))
               ELSE Cardinality(Counted(Repairs)) + 1
      BY <2>6, FS_AddElement
    <3>2. Cardinality(Counted(Repairs) \cup {p}) <= SumOver(Repairs) + 1
          /\ Cardinality(Counted(Repairs) \cup {p}) \in Nat
      BY <2>6, <3>1 DEF SumOver
    <3> QED
      BY <2>5, <3>1, <3>2
  <2>8. /\ SumOver(Repairs)' <= records' /\ SumOver(Repairs)' <= MaxPerWorkflow
    BY <1>2, <2>2, <2>6, <2>7, RepairAssumption DEF SumOver
  <2>9. ASSUME NEW u \in Tasks
        PROVE  /\ tries'[u] <= Len(tried'[u]) + 1
               /\ stage'[u] \notin Ended => tries'[u] <= Len(tried'[u])
    <3>1. CASE u = t
      <4>1. tries'[t] <= Len(tried'[t]) /\ tries'[t] \in Nat /\ Len(tried'[t]) \in Nat
        BY <1>3, <1>4, <1>5, <2>4
      <4> QED
        BY <3>1, <4>1
    <3>2. CASE u # t
      BY <1>4, <1>5, <2>3, <2>4, <3>2
    <3> QED
      BY <3>1, <3>2
  <2> QED
    BY <2>7, <2>8, <2>9 DEF FirstRun
<1> QED
  BY <1>6, <1>7 DEF Fail

LEMMA FirstRunStep ==
  ASSUME BudgetInv, [Next]_vars
  PROVE  FirstRun'
<1>1. TypeOK /\ records \in Nat
  BY DEF BudgetInv, RepairInv, TypeOK
<1>2. ASSUME NEW t \in Tasks, Launch(t) \/ Succeed(t) \/ Wake(t)
      PROVE  FirstRun'
  <2>1. UNCHANGED <<tried, records, resumes>>
    BY <1>2 DEF Launch, Succeed, Wake
  <2>2. ASSUME resumes = 0, NEW u \in Tasks
        PROVE  /\ tries'[u] <= Len(tried[u]) + 1
               /\ stage'[u] \notin Ended => tries'[u] <= Len(tried[u])
    <3>1. /\ tries[u] \in Nat /\ Len(tried[u]) \in Nat
          /\ tries[u] <= Len(tried[u]) + 1
          /\ stage[u] \notin Ended => tries[u] <= Len(tried[u])
      BY <1>1, <2>2 DEF TypeOK, BudgetInv, FirstRun
    <3>2. CASE u # t
      BY <1>1, <1>2, <3>1, <3>2 DEF Launch, Succeed, Wake, TypeOK
    <3>3. CASE u = t /\ Launch(t)
      BY <1>1, <3>1, <3>3 DEF Launch, TypeOK, NextRound, Ended
    <3>4. CASE u = t /\ Succeed(t)
      BY <1>1, <3>1, <3>4 DEF Succeed, TypeOK, Ended
    <3>5. CASE u = t /\ Wake(t)
      BY <1>1, <3>1, <3>5 DEF Wake, TypeOK, NextRound, Ended
    <3> QED
      BY <1>2, <3>2, <3>3, <3>4, <3>5
  <2> QED
    <3>1. tried' = tried /\ records' = records /\ resumes' = resumes /\ records \in Nat
      BY <1>1, <2>1
    <3>2. records' >= records /\ records' \in Nat
      BY <3>1
    <3> QED
      BY <2>2, <3>1, <3>2, FirstRunKept
<1>3. ASSUME NEW t \in Tasks, NEW cat \in Failures, Fail(t, cat)
      PROVE  FirstRun'
  BY <1>3, FirstRunFail
<1>4. CASE Cancel \/ UNCHANGED vars
  <2>1. UNCHANGED <<tried, records, resumes, tries, stage>>
    BY <1>4 DEF Cancel, vars
  <2>2. resumes = 0 => \A t \in Tasks :
          /\ tries'[t] <= Len(tried[t]) + 1
          /\ stage'[t] \notin Ended => tries'[t] <= Len(tried[t])
    BY <2>1 DEF BudgetInv, FirstRun
  <2> QED
    <3>1. tried' = tried /\ records' = records /\ resumes' = resumes /\ records \in Nat
      BY <1>1, <2>1
    <3>2. records' >= records /\ records' \in Nat
      BY <3>1
    <3> QED
      BY <2>2, <3>1, <3>2, FirstRunKept
<1>5. ASSUME NEW newProcess \in BOOLEAN, Resume(newProcess)
      PROVE  FirstRun'
  <2>1. resumes' # 0
    BY <1>1, <1>5 DEF Resume, TypeOK
  <2> QED
    BY <2>1 DEF FirstRun
<1> QED
  BY <1>2, <1>3, <1>4, <1>5 DEF Next, Runner, AllEnded

(* However the runners interleave, neither a task's budget of repairs nor   *)
(* the workflow's is exceeded, nor are there more attempts than the tasks   *)
(* and those repairs account for.                                          *)
THEOREM BudgetsAlwaysKept == Spec => []BudgetsKept
<1>1. Init /\ RepairInv => BudgetInv
  BY FirstRunInit DEF BudgetInv
<1>2. BudgetInv /\ RepairInv' /\ [Next]_vars => BudgetInv'
  BY FirstRunStep DEF BudgetInv
<1>3. BudgetInv => BudgetsKept
  <2> SUFFICES ASSUME BudgetInv PROVE BudgetsKept
    OBVIOUS
  <2>1. resumes = 0 => SumOver(tries) <= Cardinality(Tasks) + MaxPerWorkflow
    BY AttemptsFollowRepairs DEF BudgetInv, RepairInv
  <2> QED
    BY <2>1 DEF BudgetInv, RepairInv, FirstRun, BudgetsKept, WorkflowBudget, Repairs
<1> QED
  BY <1>1, <1>2, <1>3, RepairInvariant, PTL DEF Spec

(* No runner of a cancelled workflow begins another attempt.               *)
THEOREM NoLateAttempt == Spec => NoAttemptAfterCancel
<1>1. TypeOK /\ [Next]_vars =>
        [cancelled => \A t \in Tasks :
           stage[t] # "attempting" \/ tries'[t] # tries[t] => stage'[t] # "attempting"]_vars
  <2> SUFFICES ASSUME TypeOK, Next, cancelled, NEW t \in Tasks,
                      stage[t] # "attempting" \/ tries'[t] # tries[t]
               PROVE  stage'[t] # "attempting"
    BY DEF vars
  <2>1. ASSUME NEW u \in Tasks, Runner(u)
        PROVE  stage'[t] # "attempting"
    <3>1. CASE Launch(u) \/ Wake(u)
      BY <3>1 DEF Launch, Wake, NextRound, TypeOK
    <3>2. CASE Succeed(u)
      BY <3>2 DEF Succeed, TypeOK
    <3>3. ASSUME NEW cat \in Failures, Fail(u, cat)
          PROVE  stage'[t] # "attempting"
      BY <3>3 DEF Fail, Unrecorded, GiveUp, Repair, AfterRepair, NextRound, TypeOK
    <3> QED
      BY <2>1, <3>1, <3>2, <3>3 DEF Runner
  <2>2. CASE Cancel \/ AllEnded
    BY <2>2 DEF Cancel, AllEnded, vars
  <2>3. ASSUME NEW newProcess \in BOOLEAN, Resume(newProcess)
        PROVE  stage'[t] # "attempting"
    BY <2>3 DEF Resume, TypeOK
  <2> QED
    BY <2>1, <2>2, <2>3 DEF Next
<1>2. RepairInv => TypeOK
  BY DEF RepairInv
<1> QED
  BY <1>1, <1>2, RepairInvariant, PTL DEF Spec, NoAttemptAfterCancel
=============================================================================
