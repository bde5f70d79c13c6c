---------------------------- MODULE PlanningProofs ----------------------------
(***************************************************************************)
(* What holds on a task's path outside the engine, for every value of the  *)
(* constants, in the order of that path.                                   *)
(*                                                                         *)
(* Validation and admission: the invariant is that of depth-first search:  *)
(* black tasks depend on black tasks only and contain no circle, the grey  *)
(* ones form a path, and a dependency that is grey when it is visited      *)
(* closes a circle of tasks of that path.                                  *)
(*                                                                         *)
(* What the planner makes: a task waits for the nearest stage before its   *)
(* own, so that the report, of the last stage, ends every chain.           *)
(* Admission keeps the search's invariant through every submission and     *)
(* replan.                                                                 *)
(*                                                                         *)
(* The context: what a reduction has done is never undone, and a context   *)
(* that is too large at some stage has gone through all that came before.  *)
(*                                                                         *)
(* The call of a provider: while a caller reads a stream, what it has been *)
(* given, what waits in the queue and what waits for the loop are one row  *)
(* of consecutive pieces, closed by the mark once the worker has ended.    *)
(*                                                                         *)
(* The review and the triage: which evidence blocks and how far the scores *)
(* can fall without it, and the order of the table of exceptions.          *)
(***************************************************************************)
EXTENDS Admission, ContextBudget, TaskPath, SequenceTheorems, FiniteSetTheorems,
        WellFoundedInduction, TLAPS

-----------------------------------------------------------------------------
(***************************************************************************)
(* validate_graph.                                                         *)
(***************************************************************************)
(* Painting a task whose dependencies are all black black closes no circle. *)
LEMMA BlackGrows ==
  ASSUME NEW B, NEW g, NEW t, t \notin B, Acyclic(B, g), g[t] \subseteq B,
         \A u \in B : g[u] \subseteq B
  PROVE  Acyclic(B \cup {t}, g)
<1> SUFFICES ASSUME NEW S \in SUBSET (B \cup {t}), S # {}
             PROVE  \E u \in S : g[u] \cap S = {}
  BY DEF Acyclic
<1>1. CASE S \ {t} = {}
  BY <1>1
<1>2. CASE S \ {t} # {}
  <2>1. PICK u \in S \ {t} : g[u] \cap (S \ {t}) = {}
    <3>1. S \ {t} \in SUBSET B
      OBVIOUS
    <3> QED
      BY <1>2, <3>1 DEF Acyclic
  <2> QED
    BY <2>1
<1> QED
  BY <1>1, <1>2

(* A grey task that is a dependency of the top of the path closes a circle. *)
LEMMA GreyClosesCircle ==
  ASSUME SearchInv, verdict = "searching", path # <<>>,
         NEW t \in nodes, state[t] = 1, t \in deps[Top]
  PROVE  ~Acyclic(nodes, deps)
<1> USE DEF SearchInv, TypeOK
<1>1. PathOK
  OBVIOUS
<1>2. PICK k \in DOMAIN path : path[k] = t
  BY <1>1 DEF PathOK
<1> DEFINE S == {path[i] : i \in {j \in DOMAIN path : k <= j}}
<1>3. S \in SUBSET nodes /\ t \in S
  BY <1>2
<1>4. \A u \in S : deps[u] \cap S # {}
  <2> SUFFICES ASSUME NEW i \in DOMAIN path, k <= i
               PROVE  deps[path[i]] \cap S # {}
    OBVIOUS
  <2>1. CASE i = Len(path)
    BY <1>3, <2>1 DEF Top
  <2>2. CASE i # Len(path)
    <3>1. i + 1 \in DOMAIN path /\ k <= i + 1
      BY <2>2
    <3>2. path[i + 1] \in S
      BY <3>1
    <3> QED
      BY <1>1, <3>1, <3>2 DEF PathOK
  <2> QED
    BY <2>1, <2>2
<1> HIDE DEF S
<1> QED
  BY <1>3, <1>4 DEF Acyclic

LEMMA SearchInit ==
  ASSUME Init
  PROVE  SearchInv
<1>1. TypeOK
  BY DEF Init, TypeOK
<1>2. Black = {}
  BY DEF Init, Black
<1>3. BlackOK
  BY <1>2 DEF BlackOK, Acyclic
<1>4. PathOK
  BY DEF Init, PathOK
<1> QED
  BY <1>1, <1>3, <1>4 DEF Init, SearchInv

LEMMA CheckKnownStep ==
  ASSUME SearchInv, CheckKnown
  PROVE  SearchInv'
<1> USE DEF SearchInv
<1>1. UNCHANGED <<nodes, deps, state, path, left, roots>>
  BY DEF CheckKnown
<1>2. TypeOK'
  BY <1>1 DEF TypeOK, CheckKnown
<1>3. PathOK'
  BY <1>1 DEF PathOK, Black, CheckKnown
<1>4. BlackOK'
  BY <1>1 DEF BlackOK, Black
<1> QED
  BY <1>1, <1>2, <1>3, <1>4 DEF CheckKnown

LEMMA VisitRootStep ==
  ASSUME SearchInv, NEW t \in nodes, VisitRoot(t)
  PROVE  SearchInv'
<1> USE DEF SearchInv
<1>1. /\ verdict = "searching" /\ path = <<>> /\ t \in roots /\ roots' = roots \ {t}
      /\ UNCHANGED <<nodes, deps, left>>
  BY DEF VisitRoot
<1>2. PathOK
  BY <1>1
<1>3. state[t] # 1
  BY <1>1, <1>2 DEF PathOK
<1>4. CASE state[t] = 2
  <2>1. UNCHANGED <<state, path, verdict>>
    BY <1>4 DEF VisitRoot, Visit
  <2>2. TypeOK' /\ PathOK' /\ BlackOK'
    BY <1>1, <1>2, <2>1 DEF TypeOK, PathOK, BlackOK, Black
  <2> QED
    BY <1>1, <1>4, <2>1, <2>2
<1>5. CASE state[t] = 0
  <2>1. state' = [state EXCEPT ![t] = 1] /\ path' = Append(path, t) /\ verdict' = verdict
    BY <1>5 DEF VisitRoot, Visit
  <2>2. path' = <<t>>
    BY <1>1, <2>1
  <2>3. TypeOK'
    BY <1>1, <2>1 DEF TypeOK
  <2>4. Black' = Black
    BY <1>1, <1>5, <2>1 DEF Black, TypeOK
  <2>5. \A u \in nodes : state'[u] = IF u = t THEN 1 ELSE state[u]
    BY <2>1 DEF TypeOK
  <2>6. \A u \in nodes : state[u] # 1
    BY <1>1, <1>2 DEF PathOK
  <2>7. left[t] = deps[t]
    BY <1>5
  <2>8. PathOK'
    BY <1>1, <2>2, <2>5, <2>6, <2>7 DEF PathOK
  <2>9. BlackOK'
    BY <1>1, <2>4 DEF BlackOK
  <2> QED
    BY <1>1, <2>1, <2>3, <2>5, <2>8, <2>9
<1> QED
  BY <1>3, <1>4, <1>5 DEF TypeOK

LEMMA VisitDependencyStep ==
  ASSUME SearchInv, NEW t \in nodes, VisitDependency(t)
  PROVE  SearchInv'
<1> USE DEF SearchInv
<1> DEFINE n == Len(path)
<1>1. /\ verdict = "searching" /\ path # <<>> /\ t \in left[Top]
      /\ left' = [left EXCEPT ![Top] = @ \ {t}]
      /\ UNCHANGED <<nodes, deps, roots>>
  BY DEF VisitDependency
<1>2. n \in Nat \ {0} /\ n \in DOMAIN path /\ Top = path[n] /\ DOMAIN path = 1..n
      /\ Top \in nodes
  BY <1>1 DEF TypeOK, Top
<1>3. PathOK
  BY <1>1
<1>4. state[Top] = 1 /\ t \in deps[Top]
  BY <1>1, <1>2, <1>3 DEF PathOK
<1>5. left' \in [nodes -> SUBSET Ids]
      /\ \A u \in nodes : left'[u] = IF u = Top THEN left[u] \ {t} ELSE left[u]
  BY <1>1, <1>2 DEF TypeOK
<1>6. \A i \in DOMAIN path : i # n => path[i] # Top
  BY <1>2, <1>3 DEF PathOK
<1>7. \A i \in DOMAIN path : path[i] \in nodes
  BY <1>2 DEF TypeOK
<1>8. CASE state[t] = 1
  <2>1. UNCHANGED <<state, path>> /\ verdict' = "cycle"
    BY <1>8 DEF VisitDependency, Visit
  <2>2. ~Acyclic(nodes, deps)
    BY <1>1, <1>4, <1>8, GreyClosesCircle
  <2>3. TypeOK'
    BY <1>1, <1>5, <2>1 DEF TypeOK
  <2>4. BlackOK'
    BY <1>1, <2>1 DEF BlackOK, Black
  <2> QED
    BY <1>1, <1>4, <1>5, <2>1, <2>2, <2>3, <2>4
<1>9. CASE state[t] = 2
  <2>1. UNCHANGED <<state, path, verdict>>
    BY <1>9 DEF VisitDependency, Visit
  <2>2. TypeOK'
    BY <1>1, <1>5, <2>1 DEF TypeOK
  <2>3. Black' = Black /\ BlackOK'
    BY <1>1, <2>1 DEF BlackOK, Black
  <2>4. PathOK'
    <3>1. \A i \in DOMAIN path : \A d \in deps[path[i]] \ left'[path[i]] :
             d \in Black \/ (i + 1 \in DOMAIN path /\ d = path[i + 1])
      <4> SUFFICES ASSUME NEW i \in DOMAIN path, NEW d \in deps[path[i]] \ left'[path[i]]
                   PROVE  d \in Black \/ (i + 1 \in DOMAIN path /\ d = path[i + 1])
        OBVIOUS
      <4>1. CASE d = t
        BY <1>9, <4>1 DEF Black
      <4>2. CASE d # t
        BY <1>3, <1>5, <1>7, <4>2 DEF PathOK
      <4> QED
        BY <4>1, <4>2
    <3> QED
      BY <1>1, <1>3, <2>1, <2>3, <3>1 DEF PathOK
  <2> QED
    BY <1>1, <1>4, <1>5, <2>1, <2>2, <2>3, <2>4
<1>10. CASE state[t] = 0
  <2>1. state' = [state EXCEPT ![t] = 1] /\ path' = Append(path, t) /\ verdict' = verdict
    BY <1>10 DEF VisitDependency, Visit
  <2>2. /\ DOMAIN path' = 1..(n + 1) /\ path'[n + 1] = t
        /\ \A i \in DOMAIN path : path'[i] = path[i]
    BY <1>2, <2>1 DEF TypeOK
  <2>3. \A u \in nodes : state'[u] = IF u = t THEN 1 ELSE state[u]
    BY <2>1 DEF TypeOK
  <2>4. TypeOK'
    BY <1>1, <1>5, <2>1 DEF TypeOK
  <2>5. Black' = Black
    BY <1>1, <1>10, <2>3 DEF Black
  <2>6. BlackOK'
    BY <1>1, <2>5 DEF BlackOK
  <2>7. \A i \in DOMAIN path : path[i] # t
    BY <1>3, <1>10 DEF PathOK
  <2>8. t # Top /\ left'[t] = deps[t]
    BY <1>4, <1>5, <1>10
  <2>9. PathOK'
    <3>1. \A i \in DOMAIN path' : state'[path'[i]] = 1
      BY <1>2, <1>3, <1>7, <2>2, <2>3 DEF PathOK
    <3>2. \A i, j \in DOMAIN path' : path'[i] = path'[j] => i = j
      BY <1>2, <1>3, <2>2, <2>7 DEF PathOK
    <3>3. \A u \in nodes : state'[u] = 1 => \E i \in DOMAIN path' : path'[i] = u
      BY <1>2, <1>3, <2>2, <2>3 DEF PathOK
    <3>4. \A i \in DOMAIN path' : i + 1 \in DOMAIN path' => path'[i + 1] \in deps[path'[i]]
      BY <1>2, <1>3, <1>4, <2>2 DEF PathOK
    <3>5. ASSUME NEW i \in DOMAIN path', NEW d \in deps[path'[i]] \ left'[path'[i]]
          PROVE  d \in Black \/ (i + 1 \in DOMAIN path' /\ d = path'[i + 1])
      <4>1. CASE i = n + 1
        BY <2>2, <2>8, <3>5, <4>1
      <4>2. CASE i = n /\ d = t
        BY <1>2, <2>2, <4>2
      <4>3. CASE i \in DOMAIN path /\ ~(i = n /\ d = t)
        <5>1. path'[i] = path[i] /\ d \in deps[path[i]] \ left[path[i]]
          BY <1>2, <1>5, <1>6, <1>7, <2>2, <3>5, <4>3
        <5> QED
          BY <1>2, <1>3, <2>2, <4>3, <5>1 DEF PathOK
      <4> QED
        BY <1>2, <2>2, <4>1, <4>2, <4>3
    <3> QED
      BY <1>1, <2>5, <3>1, <3>2, <3>3, <3>4, <3>5 DEF PathOK
  <2> QED
    BY <1>1, <1>4, <1>5, <2>1, <2>3, <2>4, <2>6, <2>8, <2>9
<1> QED
  BY <1>8, <1>9, <1>10 DEF TypeOK

LEMMA ReturnStep ==
  ASSUME SearchInv, Return
  PROVE  SearchInv'
<1> USE DEF SearchInv
<1> DEFINE n == Len(path)
<1>1. /\ verdict = "searching" /\ path # <<>> /\ left[Top] = {}
      /\ state' = [state EXCEPT ![Top] = 2]
      /\ path' = SubSeq(path, 1, n - 1)
      /\ UNCHANGED <<nodes, deps, left, roots, verdict>>
  BY DEF Return
<1>2. n \in Nat \ {0} /\ n \in DOMAIN path /\ Top = path[n] /\ DOMAIN path = 1..n
      /\ Top \in nodes
  BY <1>1 DEF TypeOK, Top
<1>3. PathOK
  BY <1>1
<1>4. state[Top] = 1
  BY <1>2, <1>3 DEF PathOK
<1>5. \A u \in nodes : state'[u] = IF u = Top THEN 2 ELSE state[u]
  BY <1>1 DEF TypeOK
<1>6. Black' = Black \cup {Top}
  BY <1>1, <1>2, <1>5 DEF Black
<1>7. deps[Top] \subseteq Black
  <2> SUFFICES ASSUME NEW d \in deps[Top]
               PROVE  d \in Black
    OBVIOUS
  <2>1. d \in deps[path[n]] \ left[path[n]]
    BY <1>1, <1>2
  <2>2. n + 1 \notin DOMAIN path
    BY <1>2
  <2> QED
    BY <1>2, <1>3, <2>1, <2>2 DEF PathOK
<1>8. BlackOK'
  <2>1. Acyclic(Black \cup {Top}, deps)
    <3>1. Top \notin Black
      BY <1>4 DEF Black
    <3> QED
      BY <1>7, <3>1, BlackGrows DEF BlackOK
  <2> QED
    BY <1>1, <1>6, <1>7, <2>1 DEF BlackOK
<1>9. DOMAIN path' = 1..(n - 1) /\ \A i \in 1..(n - 1) : path'[i] = path[i]
  BY <1>1, <1>2 DEF TypeOK
<1>10. \A i \in 1..(n - 1) : path[i] \in nodes /\ path[i] # Top
  BY <1>2, <1>3 DEF PathOK, TypeOK
<1>11. TypeOK'
  <2>1. path' \in Seq(nodes)
    BY <1>1, <1>2 DEF TypeOK
  <2>2. state' \in [nodes -> 0..2]
    <3>1. state \in [nodes -> 0..2] /\ 2 \in 0..2
      BY DEF TypeOK
    <3> QED
      BY <1>1, <3>1
  <2> QED
    BY <1>1, <2>1, <2>2 DEF TypeOK
<1>12. PathOK'
  <2>1. \A i \in DOMAIN path' : state'[path'[i]] = 1
    BY <1>2, <1>3, <1>5, <1>9, <1>10 DEF PathOK
  <2>2. \A i, j \in DOMAIN path' : path'[i] = path'[j] => i = j
    BY <1>2, <1>3, <1>9 DEF PathOK
  <2>3. ASSUME NEW u \in nodes, state'[u] = 1
        PROVE  \E i \in DOMAIN path' : path'[i] = u
    <3>1. u # Top /\ state[u] = 1
      BY <1>5, <2>3
    <3>2. PICK i \in DOMAIN path : path[i] = u
      BY <1>3, <3>1 DEF PathOK
    <3>3. i \in 1..(n - 1)
      BY <1>2, <3>1, <3>2
    <3> QED
      BY <1>9, <3>2, <3>3
  <2>4. \A i \in DOMAIN path' : i + 1 \in DOMAIN path' => path'[i + 1] \in deps[path'[i]]
    BY <1>2, <1>3, <1>9 DEF PathOK
  <2>5. ASSUME NEW i \in DOMAIN path', NEW d \in deps[path'[i]] \ left[path'[i]]
        PROVE  d \in Black' \/ (i + 1 \in DOMAIN path' /\ d = path'[i + 1])
    <3>1. i \in DOMAIN path /\ d \in deps[path[i]] \ left[path[i]]
      BY <1>2, <1>9, <2>5
    <3>2. d \in Black \/ d = path[i + 1]
      BY <1>3, <3>1 DEF PathOK
    <3>3. CASE i + 1 = n
      BY <1>2, <1>6, <3>2, <3>3
    <3>4. CASE i + 1 # n
      BY <1>2, <1>6, <1>9, <3>2, <3>4
    <3> QED
      BY <3>3, <3>4
  <2> QED
    BY <1>1, <2>1, <2>2, <2>3, <2>4, <2>5 DEF PathOK
<1> QED
  BY <1>1, <1>5, <1>8, <1>11, <1>12

LEMMA AcceptStep ==
  ASSUME SearchInv, Accept \/ UNCHANGED vars
  PROVE  SearchInv'
<1> USE DEF SearchInv
<1>1. UNCHANGED <<nodes, deps, state, path, left, roots>>
      /\ \/ verdict = "searching" /\ path = <<>> /\ roots = {} /\ verdict' = "accepted"
         \/ verdict' = verdict
  BY DEF Accept, vars
<1>2. TypeOK'
  BY <1>1 DEF TypeOK
<1>3. PathOK => PathOK'
  BY <1>1 DEF PathOK, Black
<1>4. BlackOK'
  BY <1>1 DEF BlackOK, Black
<1> QED
  BY <1>1, <1>2, <1>3, <1>4

LEMMA SearchStep ==
  ASSUME SearchInv, Step
  PROVE  SearchInv'
<1>1. CASE CheckKnown
  BY <1>1, CheckKnownStep
<1>2. ASSUME NEW t \in nodes, VisitRoot(t)
      PROVE  SearchInv'
  BY <1>2, VisitRootStep
<1>3. ASSUME NEW t \in nodes, VisitDependency(t)
      PROVE  SearchInv'
  BY <1>3, VisitDependencyStep
<1>4. CASE Return
  BY <1>4, ReturnStep
<1>5. CASE Accept
  BY <1>5, AcceptStep
<1> QED
  BY <1>1, <1>2, <1>3, <1>4, <1>5 DEF Step

(* The invariant of the search.                                             *)
THEOREM SearchInvariant == Spec => []SearchInv
<1>1. Init => SearchInv
  BY SearchInit
<1>2. SearchInv /\ [Next]_vars => SearchInv'
  BY SearchStep, AcceptStep DEF Next, Decided
<1> QED
  BY <1>1, <1>2, PTL DEF Spec

LEMMA SearchDecides == SearchInv => DecidesValidity
<1> SUFFICES ASSUME SearchInv, verdict = "accepted"
             PROVE  ValidGraph(nodes, deps)
  BY DEF SearchInv, DecidesValidity
<1>1. \A t \in nodes : state[t] # 0 /\ state[t] # 1
  BY DEF SearchInv, PathOK
<1>2. Black = nodes
  BY <1>1 DEF SearchInv, TypeOK, Black
<1> QED
  BY <1>2 DEF SearchInv, BlackOK, ValidGraph

(* validate_graph accepts only valid graphs, and when it raises the graph   *)
(* is wrong in the way the exception says.                                  *)
THEOREM ValidateGraphDecides == Spec => []DecidesValidity
  BY SearchDecides, SearchInvariant, PTL

-----------------------------------------------------------------------------
(***************************************************************************)
(* What the planner makes.                                                 *)
(***************************************************************************)
LEMMA MinOfNumbers ==
  ASSUME NEW S \in SUBSET Nat, S # {}
  PROVE  Min(S) \in S /\ \A y \in S : Min(S) <= y
<1>1. PICK x \in S : \A y \in S : ~(<<y, x>> \in OpToRel(<, Nat))
  BY NatLessThanWellFounded, WFMin
<1>2. ASSUME NEW y \in S PROVE x <= y
  <2>1. <<y, x>>[1] = y /\ <<y, x>>[2] = x /\ <<y, x>> \in Nat \X Nat
    OBVIOUS
  <2> QED
    BY <1>1, <2>1 DEF OpToRel
<1> QED
  BY <1>2 DEF Min

LEMMA MaxOfNumbers ==
  ASSUME NEW top \in Nat, NEW S \in SUBSET (0 .. top), S # {}
  PROVE  Max(S) \in S /\ \A y \in S : y <= Max(S)
<1> DEFINE T == {n \in 0 .. top : top - n \in S}
<1>1. \A x \in S : x \in 0 .. top /\ top - x \in T
  <2> SUFFICES ASSUME NEW x \in S PROVE x \in 0 .. top /\ top - x \in T
    OBVIOUS
  <2>1. x \in 0 .. top
    OBVIOUS
  <2>2. top - x \in 0 .. top /\ top - (top - x) = x
    BY <2>1
  <2> QED
    BY <2>1, <2>2
<1>2. T \in SUBSET Nat /\ T # {}
  <2>1. T \in SUBSET Nat
    OBVIOUS
  <2>2. PICK x \in S : TRUE
    OBVIOUS
  <2>3. top - x \in T
    BY <1>1, <2>2
  <2> QED
    BY <2>1, <2>3
<1> HIDE DEF T
<1>3. PICK n : n = Min(T) /\ n \in T /\ \A y \in T : n <= y
  BY <1>2, MinOfNumbers
<1>4. n \in 0 .. top /\ top - n \in S
  BY <1>3 DEF T
<1>5. \A y \in S : top - n >= y
  BY <1>1, <1>3, <1>4
<1> QED
  BY <1>4, <1>5 DEF Max

LEMMA LeastIsBelow ==
  ASSUME NEW m \in Nat, NEW n \in Nat
  PROVE  Min({m, n}) \in Nat /\ Min({m, n}) <= m /\ Min({m, n}) <= n
<1> DEFINE S == {m, n}
<1>1. S \in SUBSET Nat /\ S # {} /\ m \in S /\ n \in S
  OBVIOUS
<1> HIDE DEF S
<1>2. Min(S) \in S /\ \A y \in S : Min(S) <= y
  BY <1>1, MinOfNumbers
<1>3. Min(S) \in Nat /\ Min(S) <= m /\ Min(S) <= n
  BY <1>1, <1>2
<1> QED
  BY <1>3 DEF S

LEMMA TwoElements ==
  ASSUME NEW x, NEW y, x # y
  PROVE  Cardinality({x, y}) = 2
<1>1. IsFiniteSet({x}) /\ Cardinality({x}) = 1
  BY FS_Singleton
<1>2. Cardinality({x} \cup {y}) = 2
  BY <1>1, FS_AddElement
<1>3. {x, y} = {x} \cup {y}
  OBVIOUS
<1> QED
  BY <1>2, <1>3

LEMMA Stages ==
  ASSUME NEW i \in Catalogued \cup {"respond"}
  PROVE  Stage[i] \in 0 .. 7 /\ (Stage[i] = 7 <=> i = Finalizer)
<1>1. i \in {"inspect", "static_analysis", "diagnose", "design", "implement", "test",
             "review", "commit", "report", "respond"}
  BY DEF Catalogued, INTENTS
<1> QED
  BY <1>1 DEF Stage, Finalizer

(* A plan in which everything waits for the nearest stage before its own.   *)
LEMMA StagedPlan ==
  ASSUME NEW plan \in SUBSET (Catalogued \cup {"respond"}),
         NEW wait, wait = [i \in plan |-> NearestStage(i, plan)]
  PROVE  /\ wait \in [plan -> SUBSET plan]
         /\ Acyclic(plan, wait)
         /\ Finalizer \in plan =>
              \A t \in plan \ {Finalizer} : Finalizer \in Downstream(plan, wait, t)
<1>1. wait \in [plan -> SUBSET plan]
      /\ \A i \in plan : \A j \in wait[i] : Stage[j] < Stage[i]
  BY DEF NearestStage
<1>2. \A i \in plan : Stage[i] \in 0 .. 7
  BY Stages
<1>3. ASSUME NEW S \in SUBSET plan, S # {}
      PROVE  \E u \in S : wait[u] \cap S = {}
  <2> DEFINE T == {Stage[u] : u \in S}
  <2>1. T \in SUBSET Nat /\ T # {}
    BY <1>2, <1>3
  <2>2. Min(T) \in T /\ \A y \in T : Min(T) <= y
    <3> HIDE DEF T
    <3> QED
      BY <2>1, MinOfNumbers
  <2>3. PICK u \in S : Min(T) = Stage[u]
    BY <2>2
  <2>4. \A v \in S : Stage[u] <= Stage[v]
    BY <2>2, <2>3
  <2> QED
    BY <1>1, <1>2, <2>4
<1>4. ASSUME Finalizer \in plan, NEW t \in plan \ {Finalizer}, NEW S \in SUBSET plan,
             DownstreamClosed(S, plan, wait, t)
      PROVE  Finalizer \in S
  <2> SUFFICES ASSUME Finalizer \notin S PROVE FALSE
    OBVIOUS
  <2> DEFINE T == {Stage[u] : u \in S \cup {t}}
  <2>1. T \in SUBSET (0 .. 7) /\ T # {}
    BY <1>2
  <2>2. PICK u \in S \cup {t} : \A v \in S \cup {t} : Stage[v] <= Stage[u]
    <3>1. Max(T) \in T /\ \A y \in T : y <= Max(T)
      <4> HIDE DEF T
      <4> QED
        BY <2>1, MaxOfNumbers
    <3>2. PICK u \in S \cup {t} : Max(T) = Stage[u]
      BY <3>1
    <3>3. \A v \in S \cup {t} : Stage[v] \in T
      OBVIOUS
    <3> HIDE DEF T
    <3> QED
      BY <3>1, <3>2, <3>3
  <2>3. u \in plan /\ Stage[u] \in 0 .. 6 /\ Stage[Finalizer] = 7
    BY <1>4, Stages
  <2> DEFINE L == {Stage[v] : v \in {w \in plan : Stage[w] > Stage[u]}}
  <2>4. L \in SUBSET Nat /\ L # {}
    BY <1>2, <1>4, <2>3
  <2>5. PICK v \in plan : /\ Stage[v] > Stage[u]
                          /\ \A w \in plan : Stage[w] > Stage[u] => Stage[v] <= Stage[w]
    <3>1. Min(L) \in L /\ \A y \in L : Min(L) <= y
      <4> HIDE DEF L
      <4> QED
        BY <2>4, MinOfNumbers
    <3>2. PICK v \in {w \in plan : Stage[w] > Stage[u]} : Min(L) = Stage[v]
      BY <3>1
    <3>3. \A w \in plan : Stage[w] > Stage[u] => Stage[w] \in L
      OBVIOUS
    <3> HIDE DEF L
    <3> QED
      BY <3>1, <3>2, <3>3
  <2>6. u \in wait[v]
    <3>1. \A k \in plan : Stage[k] < Stage[v] => Stage[k] <= Stage[u]
      BY <1>2, <2>3, <2>5
    <3> QED
      BY <2>3, <2>5, <3>1 DEF NearestStage
  <2>7. v \in S
    BY <1>4, <2>6 DEF DownstreamClosed
  <2> QED
    BY <1>2, <2>2, <2>3, <2>5, <2>7
<1> QED
  BY <1>1, <1>3, <1>4 DEF Acyclic, Downstream

(* A plan made by the rules.                                                *)
LEMMA RulesPlanGood ==
  ASSUME NEW matched, NEW question, NEW most, NEW p, p = HeuristicPlan(matched, question, most)
  PROVE  /\ p.nodes \subseteq Catalogued \cup {"respond"}
         /\ p.deps \in [p.nodes -> SUBSET p.nodes]
         /\ Acyclic(p.nodes, p.deps)
         /\ Finalizer \in p.nodes =>
              \A t \in p.nodes \ {Finalizer} : Finalizer \in Downstream(p.nodes, p.deps, t)
<1> DEFINE plan == Detect(matched, question, most)
           wait == [i \in plan |-> NearestStage(i, plan)]
<1>1. p.nodes = plan /\ p.deps = wait
  BY DEF HeuristicPlan, BuildTasks
<1>2. plan \in SUBSET (Catalogued \cup {"respond"})
  BY DEF Detect
<1> HIDE DEF plan, wait
<1> QED
  BY <1>1, <1>2, StagedPlan DEF wait

(* A plan made by a model: whatever its reply refers to, the tasks wait for *)
(* tasks of the plan.                                                       *)
LEMMA ModelPlanClosed ==
  ASSUME NEW entries, Len(entries) \in Nat, NEW most \in Nat, NEW ids,
         NEW p, p = Parse(entries, most, ids), p.ok
  PROVE  /\ p.nodes = {ids[k] : k \in Kept(entries, most)}
         /\ p.deps \in [p.nodes -> SUBSET p.nodes]
<1> DEFINE kept == Kept(entries, most)
           Refs(n) == UNION {Labelled(entries, most, l) : l \in entries[n].refs}
           Of(t) == CHOOSE k \in kept : ids[k] = t
<1>1. /\ p.nodes = {ids[k] : k \in kept}
      /\ p.deps = [t \in {ids[k] : k \in kept} |-> {ids[d] : d \in Refs(Rank(kept, Of(t)))}]
  BY DEF Parse, NoPlan
<1>2. \A l : Labelled(entries, most, l) \subseteq kept
  <2> SUFFICES ASSUME NEW l,
                      NEW named, named = {k \in kept : LabelOf(entries, k) = l}, named # {}
               PROVE  Max(named) \in kept
    BY DEF Labelled
  <2>1. Min({most, Len(entries)}) \in Nat
    BY MinOfNumbers
  <2>2. named \in SUBSET (0 .. Min({most, Len(entries)}))
    BY <2>1 DEF Kept
  <2> QED
    BY <2>1, <2>2, MaxOfNumbers
<1>3. \A n : Refs(n) \subseteq kept
  BY <1>2
<1> HIDE DEF kept, Refs, Of
<1> QED
  BY <1>1, <1>3 DEF kept

(* A replan of an accepted graph: two pieces take the place of a task for   *)
(* those that wait for it.                                                  *)
Splits(ids, g, h, t, a, b) ==
  /\ t \in ids /\ a \notin ids /\ b \notin ids /\ a # b
  /\ \A u \in ids : h[u] = IF t \in g[u] THEN (g[u] \ {t}) \cup {b} ELSE g[u]
  /\ h[a] = g[t] /\ h[b] = {a}

LEMMA SplitStaysValid ==
  ASSUME NEW ids, NEW g, NEW h, NEW t, NEW a, NEW b,
         ValidGraph(ids, g), Splits(ids, g, h, t, a, b)
  PROVE  ValidGraph(ids \cup {a, b}, h)
<1> USE DEF Splits
<1>0. /\ \A u \in ids : g[u] \subseteq ids
      /\ Acyclic(ids, g)
  BY DEF ValidGraph, UnknownDependency
<1>1. t \notin g[t]
  <2>1. {t} \in SUBSET ids /\ {t} # {}
    OBVIOUS
  <2> QED
    BY <1>0, <2>1 DEF Acyclic
<1>2. ASSUME NEW S \in SUBSET (ids \cup {a, b}), S # {}
      PROVE  \E u \in S : h[u] \cap S = {}
  <2>1. CASE a \notin S /\ b \notin S
    <3>1. S \in SUBSET ids
      BY <2>1
    <3>2. PICK u \in S : g[u] \cap S = {}
      BY <1>0, <1>2, <3>1 DEF Acyclic
    <3>3. h[u] = IF t \in g[u] THEN (g[u] \ {t}) \cup {b} ELSE g[u]
      BY <3>1
    <3>4. b \notin S
      BY <2>1
    <3> QED
      BY <3>2, <3>3, <3>4
  <2>2. CASE a \in S \/ b \in S
    <3> DEFINE P == (S \ {a, b}) \cup {t}
    <3>1. P \in SUBSET ids /\ P # {}
      BY <2>2
    <3>2. PICK u \in P : g[u] \cap P = {}
      <4> HIDE DEF P
      <4> QED
        BY <1>0, <3>1 DEF Acyclic
    <3>3. CASE u # t
      <4>1. u \in S /\ u \in ids /\ t \notin g[u]
        BY <3>2, <3>3
      <4>2. h[u] = g[u] /\ g[u] \subseteq ids
        BY <1>0, <4>1
      <4>3. g[u] \cap S = {}
        BY <4>2, <3>2
      <4> QED
        BY <4>1, <4>2, <4>3
    <3>4. CASE u = t /\ a \in S
      <4>1. S \subseteq P \cup {a, b}
        OBVIOUS
      <4> HIDE DEF P
      <4>2. g[t] \subseteq ids /\ g[t] \cap P = {}
        BY <1>0, <3>2, <3>4
      <4>3. g[t] \cap S = {}
        BY <4>1, <4>2
      <4> QED
        BY <3>4, <4>3
    <3>5. CASE u = t /\ a \notin S
      BY <2>2, <3>5
    <3> QED
      BY <3>3, <3>4, <3>5
  <2> QED
    BY <2>1, <2>2
<1>3. \A u \in ids \cup {a, b} : h[u] \subseteq ids \cup {a, b}
  BY <1>0
<1> QED
  BY <1>2, <1>3 DEF Acyclic, ValidGraph, UnknownDependency

-----------------------------------------------------------------------------
(***************************************************************************)
(* The graph that is admitted.                                             *)
(***************************************************************************)
(* A search that is about to begin.                                         *)
LEMMA SubmitSearch ==
  ASSUME NEW plan, Submit(plan), plan.nodes \subseteq Ids,
         plan.deps \in [plan.nodes -> SUBSET Ids]
  PROVE  SearchInv'
<1> USE DEF Submit
<1>1. TypeOK'
  <2>1. <<>> \in Seq(plan.nodes)
    BY EmptySeq
  <2> QED
    BY <2>1 DEF TypeOK
<1>2. PathOK'
  BY DEF PathOK
<1>3. BlackOK'
  <2>1. Black' = {}
    BY DEF Black
  <2> QED
    BY <2>1 DEF BlackOK, Acyclic
<1> QED
  BY <1>1, <1>2, <1>3 DEF SearchInv

(* The pieces of the replans to come.                                       *)
LaterPieces(k) == {PieceIds[n][i] : n \in {m \in DOMAIN PieceIds : m > k}, i \in 1 .. 2}

Submitted == verdict \notin {"planning", "raised"}

(* What the planner made is closed and what it made by its rules has no     *)
(* circle, a graph that has been replanned has neither fault whatever it    *)
(* was read from, and ids for further pieces remain.                        *)
AdmInv ==
  /\ origin \in {"rows", "heuristic", "llm"} /\ limit \in Limits
  /\ IsFiniteSet(replaced) /\ nodes \cap LaterPieces(Cardinality(replaced)) = {}
  /\ Submitted => SearchInv
  /\ ~Submitted => origin # "rows" /\ nodes = {} /\ replaced = {}
  /\ origin # "rows" \/ replaced # {} => ~UnknownDependency(nodes, deps)
  /\ origin = "heuristic" \/ replaced # {} => Acyclic(nodes, deps)
  /\ origin = "heuristic" /\ replaced = {} /\ Finalizer \in nodes =>
       \A t \in nodes \ {Finalizer} : Finalizer \in Downstream(nodes, deps, t)

LEMMA LaterAreNew ==
  /\ LaterPieces(0) \subseteq AllPieces
  /\ LaterPieces(0) \cap (Rows \cup Catalogued \cup {"respond"}) = {}
<1>1. LaterPieces(0) \subseteq AllPieces
  BY DEF LaterPieces, AllPieces
<1> QED
  BY <1>1, AdmissionAssumption

LEMMA AdmInitHolds == AdmInit => AdmInv
<1> SUFFICES ASSUME AdmInit PROVE AdmInv
  OBVIOUS
<1> USE DEF AdmInit
<1>1. IsFiniteSet(replaced) /\ Cardinality(replaced) = 0
  BY FS_EmptySet
<1>2. CASE origin = "rows"
  <2>1. nodes \subseteq Rows /\ deps \in [nodes -> SUBSET Rows] /\ verdict = "checking"
    BY <1>2
  <2>2. Rows \subseteq Ids
    BY AdmissionAssumption
  <2>3. Init
    BY <2>1, <2>2 DEF Init
  <2>4. SearchInv
    BY <2>3, SearchInit
  <2>5. nodes \cap LaterPieces(0) = {}
    BY <2>1, LaterAreNew
  <2> QED
    BY <1>1, <1>2, <2>1, <2>4, <2>5 DEF AdmInv, Submitted
<1>3. CASE origin # "rows"
  <2>1. nodes = {} /\ deps = <<>> /\ verdict = "planning"
    BY <1>3
  <2>2. ~UnknownDependency(nodes, deps) /\ Acyclic(nodes, deps)
    BY <2>1 DEF UnknownDependency, Acyclic
  <2> QED
    BY <1>1, <1>3, <2>1, <2>2 DEF AdmInv, Submitted
<1> QED
  BY <1>2, <1>3

(* A plan made by the rules, for which nothing was replanned yet.           *)
LEMMA PlanByRulesStep ==
  ASSUME AdmInv, PlanByRules, ~Submitted, origin' = "heuristic"
  PROVE  AdmInv'
<1>1. PICK matched, question :
        Submit(HeuristicPlan(matched, question, limit))
  BY DEF PlanByRules
<1> DEFINE p == HeuristicPlan(matched, question, limit)
<1>2. /\ p.nodes \subseteq Catalogued \cup {"respond"}
      /\ p.deps \in [p.nodes -> SUBSET p.nodes]
      /\ Acyclic(p.nodes, p.deps)
      /\ Finalizer \in p.nodes =>
           \A t \in p.nodes \ {Finalizer} : Finalizer \in Downstream(p.nodes, p.deps, t)
  BY RulesPlanGood
<1> HIDE DEF p
<1>3. nodes' = p.nodes /\ deps' = p.deps /\ verdict' = "checking"
  BY <1>1 DEF Submit, p
<1>4. p.nodes \subseteq Ids /\ p.deps \in [p.nodes -> SUBSET Ids]
  BY <1>2, AdmissionAssumption
<1>5. SearchInv'
  BY <1>1, <1>4, SubmitSearch DEF p
<1>6. replaced' = {} /\ limit' = limit
  BY DEF PlanByRules, AdmInv
<1>7. IsFiniteSet(replaced') /\ Cardinality(replaced') = 0
  BY <1>6, FS_EmptySet
<1>8. (nodes \cap LaterPieces(Cardinality(replaced)))' = {}
  <2>1. nodes' \cap LaterPieces(0) = {}
    BY <1>2, <1>3, LaterAreNew
  <2> QED
    BY <1>7, <2>1 DEF LaterPieces
<1>9. ~UnknownDependency(nodes', deps')
  BY <1>2, <1>3 DEF UnknownDependency
<1> QED
  BY <1>2, <1>3, <1>5, <1>6, <1>7, <1>8, <1>9 DEF AdmInv, Submitted

LEMMA LLMPlanStep ==
  ASSUME AdmInv, LLMPlan
  PROVE  AdmInv'
<1>1. verdict = "planning" /\ origin = "llm" /\ UNCHANGED <<origin, limit, replaced>>
  BY DEF LLMPlan
<1>2. PICK entries \in Replies : LET plan == Parse(entries, limit, EntryIds)
                                 IN plan.ok /\ Submit(plan)
  BY DEF LLMPlan
<1> DEFINE p == Parse(entries, limit, EntryIds)
<1>3. p.ok /\ Submit(p)
  BY <1>2
<1>4. Len(entries) \in Nat /\ limit \in Nat
  BY AdmissionAssumption DEF AdmInv
<1>5. /\ p.nodes = {EntryIds[k] : k \in Kept(entries, limit)}
      /\ p.deps \in [p.nodes -> SUBSET p.nodes]
  BY <1>3, <1>4, ModelPlanClosed
<1> HIDE DEF p
<1>6. Kept(entries, limit) \subseteq 1 .. Len(entries)
  <2> DEFINE least == Min({limit, Len(entries)})
  <2>1. least \in Nat /\ least <= Len(entries)
    BY <1>4, LeastIsBelow
  <2>2. Kept(entries, limit) \subseteq 1 .. least
    BY DEF Kept
  <2> HIDE DEF least
  <2> QED
    BY <1>4, <2>1, <2>2
<1>7. p.nodes \subseteq Ids \ AllPieces
  BY <1>5, <1>6, AdmissionAssumption
<1>8. nodes' = p.nodes /\ deps' = p.deps /\ verdict' = "checking"
  BY <1>3 DEF Submit
<1>9. SearchInv'
  BY <1>3, <1>5, <1>7, SubmitSearch
<1>10. replaced = {} /\ IsFiniteSet(replaced) /\ Cardinality(replaced) = 0
  BY <1>1, FS_EmptySet DEF AdmInv, Submitted
<1>11. (nodes \cap LaterPieces(Cardinality(replaced)))' = {}
  <2>1. nodes' \cap LaterPieces(0) = {}
    BY <1>7, <1>8, LaterAreNew
  <2> QED
    BY <1>1, <1>10, <2>1 DEF LaterPieces
<1>12. ~UnknownDependency(nodes', deps')
  BY <1>5, <1>8 DEF UnknownDependency
<1> QED
  BY <1>1, <1>8, <1>9, <1>10, <1>11, <1>12 DEF AdmInv, Submitted

(* A step of the search changes neither the graph nor where it is from.     *)
LEMMA ValidateStep ==
  ASSUME AdmInv, Validate
  PROVE  AdmInv'
<1>1. Step /\ UNCHANGED <<origin, limit, replaced>>
  BY DEF Validate
<1>2. verdict \in {"checking", "searching"}
  BY <1>1 DEF Step, CheckKnown, VisitRoot, VisitDependency, Return, Accept
<1>3. UNCHANGED <<nodes, deps>>
  BY <1>1 DEF Step, CheckKnown, VisitRoot, VisitDependency, Return, Accept
<1>4. SearchInv
  BY <1>2 DEF AdmInv, Submitted
<1>5. SearchInv'
  BY <1>1, <1>4, SearchStep
<1>6. verdict' \notin {"planning", "raised"}
  BY <1>5 DEF SearchInv, TypeOK
<1> QED
  BY <1>1, <1>2, <1>3, <1>5, <1>6 DEF AdmInv, Submitted, LaterPieces

(* The graph after a replan.                                                *)
LEMMA ReplanStep ==
  ASSUME AdmInv, NEW t \in nodes, Replan(t)
  PROVE  AdmInv'
<1> DEFINE n == Cardinality(replaced) + 1
           a == PieceIds[n][1]
           b == PieceIds[n][2]
           split == Pieces(IF t \in AllPieces THEN 1 ELSE 0, deps[t], a, b)
           Rewired(u) == IF t \in deps[u] THEN (deps[u] \ {t}) \cup {b} ELSE deps[u]
           g == [u \in nodes \cup split.nodes |->
                   IF u \in nodes THEN Rewired(u) ELSE split.deps[u]]
           p == [nodes |-> nodes \cup split.nodes, deps |-> g]
<1>1. /\ verdict = "accepted" /\ t \notin replaced /\ n \in DOMAIN PieceIds /\ split.ok
      /\ Submit(p) /\ replaced' = replaced \cup {t} /\ UNCHANGED <<origin, limit>>
  BY DEF Replan
<1>2. SearchInv /\ ValidGraph(nodes, deps)
  BY <1>1, SearchDecides DEF AdmInv, Submitted, DecidesValidity
<1>3. nodes \subseteq Ids /\ deps \in [nodes -> SUBSET nodes] /\ Acyclic(nodes, deps)
  BY <1>2 DEF SearchInv, TypeOK, ValidGraph, UnknownDependency
<1>4. /\ a \in LaterPieces(Cardinality(replaced)) /\ b \in LaterPieces(Cardinality(replaced))
      /\ a \in Ids /\ b \in Ids /\ a # b
  <2>1. Cardinality(replaced) \in Nat /\ n > Cardinality(replaced)
    BY FS_CardinalityType DEF AdmInv
  <2>2. PieceIds[n] \in Ids \X Ids /\ a \in Ids /\ b \in Ids
    BY <1>1, AdmissionAssumption
  <2>3. a # b
    BY <1>1, AdmissionAssumption
  <2> QED
    BY <1>1, <2>1, <2>2, <2>3 DEF LaterPieces
<1>5. a \notin nodes /\ b \notin nodes
  BY <1>4 DEF AdmInv
<1>6. /\ split.nodes = {a, b}
      /\ split.deps = [u \in {a, b} |-> IF u = a THEN deps[t] ELSE {a}]
  BY <1>1 DEF Pieces, NoPlan, MaxReplanDepth
<1>7. /\ g \in [nodes \cup {a, b} -> SUBSET (nodes \cup {a, b})]
      /\ \A u \in nodes : g[u] = Rewired(u)
      /\ g[a] = deps[t] /\ g[b] = {a}
  <2> HIDE DEF a, b, split
  <2>1. g = [u \in nodes \cup {a, b} |-> IF u \in nodes THEN Rewired(u)
                                         ELSE IF u = a THEN deps[t] ELSE {a}]
    BY <1>6
  <2>2. \A u \in nodes : Rewired(u) \subseteq nodes \cup {a, b}
    BY <1>3
  <2> HIDE DEF g, Rewired
  <2>3. /\ \A u \in nodes : g[u] = Rewired(u)
        /\ g[a] = deps[t] /\ g[b] = {a}
    BY <1>4, <1>5, <2>1
  <2> QED
    BY <1>3, <2>1, <2>2, <2>3
<1>8. p.nodes = nodes \cup {a, b} /\ p.deps = g
  BY <1>6
<1> HIDE DEF n, a, b, split, g, p
<1>9. /\ \A u \in nodes \cup {a, b} : g[u] \subseteq nodes \cup {a, b}
      /\ Acyclic(nodes \cup {a, b}, g)
  <2>1. \A u \in nodes : deps[u] \subseteq nodes
    BY <1>3
  <2>2. \A u \in nodes : g[u] = IF t \in deps[u] THEN (deps[u] \ {t}) \cup {b} ELSE deps[u]
    BY <1>7
  <2>3. Splits(nodes, deps, g, t, a, b)
    BY <1>4, <1>5, <1>7, <2>2 DEF Splits
  <2>4. ValidGraph(nodes \cup {a, b}, g)
    BY <1>2, <2>3, SplitStaysValid
  <2> QED
    BY <2>4 DEF ValidGraph, UnknownDependency
<1>10. SearchInv'
  <2>1. p.nodes \subseteq Ids
    BY <1>3, <1>4, <1>8
  <2>2. p.deps \in [p.nodes -> SUBSET Ids]
    BY <1>7, <1>8, <2>1
  <2>3. Submit(p)
    BY <1>1
  <2> QED
    BY <2>1, <2>2, <2>3, SubmitSearch
<1>11. nodes' = nodes \cup {a, b} /\ deps' = g /\ verdict' = "checking"
  BY <1>1, <1>8 DEF Submit
<1>12. IsFiniteSet(replaced') /\ Cardinality(replaced') = n /\ n \in Nat /\ replaced' # {}
  BY <1>1, FS_AddElement, FS_CardinalityType DEF AdmInv, n
<1>13. (nodes \cap LaterPieces(Cardinality(replaced)))' = {}
  <2>1. LaterPieces(n) \subseteq LaterPieces(Cardinality(replaced))
    <3>1. Cardinality(replaced) \in Nat /\ n > Cardinality(replaced)
      BY FS_CardinalityType DEF AdmInv, n
    <3>2. DOMAIN PieceIds \subseteq Nat
      BY AdmissionAssumption
    <3>3. \A m \in DOMAIN PieceIds : m > n => m > Cardinality(replaced)
      BY <1>12, <3>1, <3>2
    <3> QED
      BY <3>3 DEF LaterPieces
  <2>2. a \notin LaterPieces(n) /\ b \notin LaterPieces(n)
    BY <1>1, <1>12, AdmissionAssumption DEF LaterPieces, a, b
  <2>3. nodes' \cap LaterPieces(n) = {}
    BY <1>11, <2>1, <2>2 DEF AdmInv
  <2> QED
    BY <1>12, <2>3 DEF LaterPieces
<1>14. ~UnknownDependency(nodes', deps') /\ Acyclic(nodes', deps')
  BY <1>9, <1>11 DEF UnknownDependency
<1> QED
  BY <1>1, <1>10, <1>11, <1>12, <1>13, <1>14 DEF AdmInv, Submitted

LEMMA AdmInvariant == AdmInit /\ [][AdmNext]_admVars => []AdmInv
<1>1. AdmInv /\ [AdmNext]_admVars => AdmInv'
  <2> SUFFICES ASSUME AdmInv, [AdmNext]_admVars PROVE AdmInv'
    OBVIOUS
  <2>1. CASE Plan
    <3>1. ~Submitted /\ origin' = "heuristic" /\ PlanByRules
      BY <2>1 DEF Plan, Submitted
    <3> QED
      BY <3>1, PlanByRulesStep
  <2>2. CASE EmptyRequest
    BY <2>2 DEF EmptyRequest, AdmInv, Submitted, LaterPieces
  <2>3. CASE LLMPlan
    BY <2>3, LLMPlanStep
  <2>4. CASE LLMFallsBack
    <3>1. ~Submitted /\ origin' = "heuristic" /\ PlanByRules
      BY <2>4 DEF LLMFallsBack, Submitted
    <3> QED
      BY <3>1, PlanByRulesStep
  <2>5. CASE Validate
    BY <2>5, ValidateStep
  <2>6. ASSUME NEW t \in nodes, Replan(t) PROVE AdmInv'
    BY <2>6, ReplanStep
  <2>7. CASE UNCHANGED admVars
    <3>1. UNCHANGED vars /\ UNCHANGED <<origin, limit, replaced>>
      BY <2>7 DEF admVars
    <3>2. SearchInv => SearchInv'
      BY <3>1, AcceptStep
    <3> QED
      BY <3>1, <3>2 DEF AdmInv, Submitted, LaterPieces, vars
  <2> QED
    BY <2>1, <2>2, <2>3, <2>4, <2>5, <2>6, <2>7 DEF AdmNext
<1> QED
  BY <1>1, AdmInitHolds, PTL

(* Whatever graph is submitted, by a planner, a replan or a store, it is    *)
(* accepted only when it is valid and refused only for the fault it has.    *)
THEOREM AdmissionDecides == AdmInit /\ [][AdmNext]_admVars => []DecidesValidity
<1>1. AdmInv => DecidesValidity
  BY SearchDecides DEF AdmInv, Submitted, DecidesValidity
<1> QED
  BY <1>1, AdmInvariant, PTL

(* The planner's graphs can be run: see PlanUsable.                         *)
THEOREM PlansUsable == AdmInit /\ [][AdmNext]_admVars => []PlanUsable
<1>1. AdmInv => PlanUsable
  <2> SUFFICES ASSUME AdmInv PROVE PlanUsable
    OBVIOUS
  <2>1. Submitted => DecidesValidity
    BY SearchDecides DEF AdmInv
  <2>2. verdict \in {"unknown", "cycle", "accepted"} => Submitted
    BY DEF Submitted
  <2> QED
    BY <2>1, <2>2 DEF PlanUsable, AdmInv, DecidesValidity
<1> QED
  BY <1>1, AdmInvariant, PTL

-----------------------------------------------------------------------------
(***************************************************************************)
(* The call of a provider.                                                 *)
(***************************************************************************)
Marked == thread \in {"ended", "failed"}

HttpTypeOK ==
  /\ kind \in {"none", "generate", "stream"}
  /\ thread \in {"off", "open", "reading", "ended", "failed"}
  /\ arrived \in Nat
  /\ handed \in Seq(Nat) /\ queue \in Seq(Nat) /\ got \in Seq(Nat)
  /\ caller \in {"idle", "waiting", "using", "joining"} \cup Ended
  /\ gone \in BOOLEAN

(* The place k of the row: a piece as far as pieces have arrived.           *)
Place(k) == IF k <= arrived THEN k ELSE EndMark

InLine ==
  caller \in {"waiting", "using"} /\ kind = "stream" =>
    /\ Len(got) + Len(queue) + Len(handed) = arrived + (IF Marked THEN 1 ELSE 0)
    /\ \A k \in 1 .. Len(queue) : queue[k] = Place(Len(got) + k)
    /\ \A k \in 1 .. Len(handed) : handed[k] = Place(Len(got) + Len(queue) + k)

(* Who may be where: the phases of the caller and of its worker.            *)
Phases ==
  /\ caller = "idle" <=> kind = "none"
  /\ caller = "idle" => arrived = 0 /\ got = <<>> /\ queue = <<>> /\ handed = <<>> /\ ~gone
  /\ thread = "off" <=> kind = "none"
  /\ caller \in {"waiting", "using"} => ~gone
  /\ caller \in {"using", "joining"} => kind = "stream"
  /\ thread # "failed" => fault = Nobody
  /\ caller = "joining" /\ ~gone => Marked /\ Len(got) = arrived

HttpInv == HttpTypeOK /\ Phases /\ InLine /\ StreamFaithful

LEMMA HttpInitHolds == HttpInit => HttpInv
<1> SUFFICES ASSUME HttpInit PROVE HttpInv
  OBVIOUS
<1> USE DEF HttpInit
<1>1. HttpTypeOK
  <2>1. <<>> \in Seq(Nat)
    BY EmptySeq
  <2> QED
    BY <2>1 DEF HttpTypeOK, Ended
<1>2. Phases /\ InLine
  BY DEF Phases, InLine, Marked
<1>3. StreamFaithful
  BY DEF StreamFaithful
<1> QED
  BY <1>1, <1>2, <1>3 DEF HttpInv

(* A worker that ends closes the row.                                       *)
LEMMA EndsKeeps ==
  ASSUME HttpInv, NEW how \in {"ended", "failed"}, NEW f, Ends(how, f),
         thread \in {"open", "reading"}, how = "ended" => f = Nobody
  PROVE  HttpInv'
<1> USE DEF HttpInv, Ends, HandOver, EndMark
<1>1. HttpTypeOK'
  BY DEF HttpTypeOK, Ended
<1>2. Phases'
  BY DEF Phases, HttpTypeOK, Marked
<1>3. InLine'
  <2> SUFFICES ASSUME caller \in {"waiting", "using"}, kind = "stream"
               PROVE  InLine'
    BY DEF InLine
  <2>1. /\ Len(handed') = Len(handed) + 1 /\ handed'[Len(handed) + 1] = EndMark
        /\ \A k \in 1 .. Len(handed) : handed'[k] = handed[k]
        /\ UNCHANGED <<queue, got, arrived>> /\ Marked' /\ ~Marked
    BY DEF HttpTypeOK, Marked
  <2>2. Len(got) + Len(queue) + Len(handed) = arrived
    BY <2>1 DEF InLine, HttpTypeOK
  <2>3. Len(got) \in Nat /\ Len(queue) \in Nat /\ Len(handed) \in Nat /\ arrived \in Nat
    BY DEF HttpTypeOK
  <2>4. \A k \in 1 .. Len(handed') : handed'[k] = Place(Len(got) + Len(queue) + k)
    <3> TAKE k \in 1 .. Len(handed')
    <3>1. CASE k = Len(handed) + 1
      BY <2>1, <2>2, <2>3, <3>1 DEF Place
    <3>2. CASE k \in 1 .. Len(handed)
      BY <2>1, <3>2 DEF InLine
    <3> QED
      BY <2>1, <2>3, <3>1, <3>2
  <2> QED
    BY <2>1, <2>2, <2>3, <2>4 DEF InLine, Place
<1>4. StreamFaithful'
  BY DEF StreamFaithful, Phases, Marked
<1> QED
  BY <1>1, <1>2, <1>3, <1>4

LEMMA PieceArrivesKeeps ==
  ASSUME HttpInv, PieceArrives
  PROVE  HttpInv'
<1>1. /\ thread = "reading" /\ kind = "stream" /\ arrived' = arrived + 1
      /\ handed' = Append(handed, arrived + 1)
      /\ UNCHANGED <<kind, thread, fault, queue, caller, gone, got, raised>>
  BY DEF PieceArrives, HandOver
<1>2. /\ arrived \in Nat /\ Len(got) \in Nat /\ Len(queue) \in Nat /\ Len(handed) \in Nat
      /\ handed \in Seq(Nat) /\ HttpTypeOK
  BY DEF HttpInv, HttpTypeOK
<1>3. /\ handed' \in Seq(Nat) /\ Len(handed') = Len(handed) + 1
      /\ handed'[Len(handed) + 1] = arrived + 1
      /\ \A k \in 1 .. Len(handed) : handed'[k] = handed[k]
  BY <1>1, <1>2, AppendProperties
<1>4. HttpTypeOK'
  BY <1>1, <1>2, <1>3 DEF HttpTypeOK
<1>5. Phases' /\ StreamFaithful'
  BY <1>1, <1>2 DEF HttpInv, Phases, Marked, StreamFaithful
<1>6. InLine'
  <2> SUFFICES ASSUME caller \in {"waiting", "using"}
               PROVE  InLine'
    BY <1>1 DEF InLine
  <2>1. /\ Len(got) + Len(queue) + Len(handed) = arrived
        /\ \A k \in 1 .. Len(queue) : queue[k] = Place(Len(got) + k)
        /\ \A k \in 1 .. Len(handed) : handed[k] = Place(Len(got) + Len(queue) + k)
    BY <1>1, <1>2 DEF HttpInv, InLine, Marked
  <2> DEFINE NextIs(k) == IF k <= arrived + 1 THEN k ELSE EndMark
  <2>2. ASSUME NEW k \in 1 .. Len(queue) PROVE queue[k] = NextIs(Len(got) + k)
    <3>1. Len(got) + k \in Nat /\ Len(got) + k <= arrived
      BY <1>2, <2>1
    <3> QED
      BY <1>2, <2>1, <3>1 DEF Place
  <2>3. \A k \in 1 .. Len(handed') : handed'[k] = NextIs(Len(got) + Len(queue) + k)
    <3> TAKE k \in 1 .. Len(handed')
    <3>1. CASE k = Len(handed) + 1
      BY <1>1, <1>2, <1>3, <2>1, <3>1 DEF Place
    <3>2. CASE k \in 1 .. Len(handed)
      <4>1. Len(got) + Len(queue) + k \in Nat /\ Len(got) + Len(queue) + k <= arrived
        BY <1>2, <2>1, <3>2
      <4> QED
        BY <1>2, <1>3, <2>1, <3>2, <4>1 DEF Place
    <3> QED
      BY <1>2, <1>3, <3>1, <3>2
  <2> QED
    BY <1>1, <1>2, <1>3, <2>1, <2>2, <2>3 DEF InLine, Marked, Place
<1> QED
  BY <1>4, <1>5, <1>6 DEF HttpInv

LEMMA LoopTurnKeeps ==
  ASSUME HttpInv, LoopTurn
  PROVE  HttpInv'
<1> USE DEF HttpInv, LoopTurn, EndMark
<1>1. HttpTypeOK'
  BY DEF HttpTypeOK, Ended
<1>2. Phases'
  BY DEF Phases, HttpTypeOK, Marked
<1>3. InLine'
  <2> SUFFICES ASSUME caller \in {"waiting", "using"}, kind = "stream"
               PROVE  InLine'
    BY DEF InLine
  <2>1. /\ Len(handed') = Len(handed) - 1 /\ Len(handed) >= 1
        /\ \A k \in 1 .. Len(handed') : handed'[k] = handed[k + 1]
        /\ Len(queue') = Len(queue) + 1 /\ queue'[Len(queue) + 1] = handed[1]
        /\ \A k \in 1 .. Len(queue) : queue'[k] = queue[k]
        /\ UNCHANGED <<got, arrived, thread>>
    BY DEF HttpTypeOK
  <2>2. \A k \in 1 .. Len(queue') : queue'[k] = Place(Len(got) + k)
    <3> TAKE k \in 1 .. Len(queue')
    <3>0. k \in 1 .. Len(queue) \/ k = Len(queue) + 1
      <4>1. Len(queue) \in Nat /\ k \in 1 .. Len(queue) + 1
        BY <2>1 DEF HttpTypeOK
      <4> QED
        BY <4>1
    <3>1. CASE k = Len(queue) + 1
      <4>1. 1 \in 1 .. Len(handed) /\ Len(got) + Len(queue) + 1 = Len(got) + k
        BY <2>1, <3>1 DEF HttpTypeOK
      <4> QED
        BY <2>1, <3>1, <4>1 DEF InLine
    <3>2. CASE k \in 1 .. Len(queue)
      BY <2>1, <3>2 DEF InLine
    <3> QED
      BY <3>0, <3>1, <3>2
  <2>3. \A k \in 1 .. Len(handed') : handed'[k] = Place(Len(got) + Len(queue') + k)
    <3> TAKE k \in 1 .. Len(handed')
    <3>1. k + 1 \in 1 .. Len(handed) /\ Len(got) + Len(queue) + (k + 1) = Len(got) + Len(queue') + k
      BY <2>1 DEF HttpTypeOK
    <3> QED
      BY <2>1, <3>1 DEF InLine
  <2>4. Len(got') + Len(queue') + Len(handed') = Len(got) + Len(queue) + Len(handed)
    BY <2>1 DEF HttpTypeOK
  <2> QED
    BY <2>1, <2>2, <2>3, <2>4 DEF InLine, Place, Marked
<1>4. StreamFaithful'
  BY DEF StreamFaithful
<1> QED
  BY <1>1, <1>2, <1>3, <1>4

(* The piece the caller takes is the next one; the mark comes when none is  *)
(* left.                                                                    *)
LEMMA TakePieceKeeps ==
  ASSUME HttpInv, TakePiece
  PROVE  HttpInv'
<1>1. /\ HttpTypeOK /\ arrived \in Nat /\ Len(got) \in Nat /\ Len(queue) \in Nat
      /\ Len(handed) \in Nat /\ queue \in Seq(Nat) /\ got \in Seq(Nat) /\ queue # <<>>
      /\ caller = "waiting" /\ kind = "stream" /\ ~gone
      /\ UNCHANGED <<kind, thread, fault, arrived, handed, gone, raised>>
  BY DEF HttpInv, HttpTypeOK, Phases, TakePiece
<1>2. /\ Len(queue) >= 1 /\ Head(queue) = queue[1] /\ Head(queue) \in Nat
      /\ queue' \in Seq(Nat) /\ Len(queue') = Len(queue) - 1
      /\ \A k \in 1 .. Len(queue') : queue'[k] = queue[k + 1]
  BY <1>1, HeadTailProperties DEF TakePiece
<1>3. /\ Len(got) + Len(queue) + Len(handed) = arrived + (IF Marked THEN 1 ELSE 0)
      /\ \A k \in 1 .. Len(queue) : queue[k] = Place(Len(got) + k)
      /\ \A k \in 1 .. Len(handed) : handed[k] = Place(Len(got) + Len(queue) + k)
      /\ \A k \in 1 .. Len(got) : got[k] = k
      /\ Len(got) <= arrived
  BY <1>1 DEF HttpInv, InLine, StreamFaithful
<1>4. Head(queue) = Place(Len(got) + 1)
  BY <1>1, <1>2, <1>3
<1>5. CASE Head(queue) = EndMark
  <2>1. caller' = "joining" /\ UNCHANGED got
    BY <1>5 DEF TakePiece
  <2>2. Len(got) = arrived /\ Marked
    BY <1>1, <1>2, <1>3, <1>4, <1>5 DEF Place, EndMark
  <2>3. HttpTypeOK'
    BY <1>1, <1>2, <2>1 DEF HttpTypeOK
  <2>4. Phases' /\ InLine' /\ StreamFaithful'
    BY <1>1, <2>1, <2>2 DEF HttpInv, Phases, InLine, StreamFaithful, Marked
  <2> QED
    BY <2>3, <2>4 DEF HttpInv
<1>6. CASE Head(queue) # EndMark
  <2>1. caller' = "using" /\ got' = Append(got, Head(queue))
    BY <1>6 DEF TakePiece
  <2>2. Head(queue) = Len(got) + 1 /\ Len(got) + 1 <= arrived
    BY <1>1, <1>4, <1>6 DEF Place
  <2>3. /\ got' \in Seq(Nat) /\ Len(got') = Len(got) + 1
        /\ got'[Len(got) + 1] = Len(got) + 1
        /\ \A k \in 1 .. Len(got) : got'[k] = got[k]
    BY <1>1, <1>2, <2>1, <2>2, AppendProperties
  <2>4. HttpTypeOK'
    BY <1>1, <1>2, <2>1, <2>3 DEF HttpTypeOK
  <2>5. Phases'
    BY <1>1, <2>1 DEF HttpInv, Phases, Marked
  <2>6. StreamFaithful'
    <3>1. ASSUME NEW k \in 1 .. Len(got') PROVE got'[k] = k
      <4>1. k \in 1 .. Len(got) \/ k = Len(got) + 1
        BY <1>1, <2>3
      <4> QED
        BY <1>3, <2>3, <4>1
    <3>2. DOMAIN got' = 1 .. Len(got')
      BY <2>3, LenProperties
    <3> QED
      BY <1>1, <2>1, <2>2, <2>3, <3>1, <3>2 DEF StreamFaithful
  <2>7. \A k \in 1 .. Len(queue') : queue'[k] = Place(Len(got') + k)
    <3> TAKE k \in 1 .. Len(queue')
    <3>1. k + 1 \in 1 .. Len(queue) /\ Len(got) + (k + 1) = Len(got') + k
      BY <1>1, <1>2, <2>3
    <3> QED
      BY <1>2, <1>3, <3>1
  <2>8. Len(got') + Len(queue') = Len(got) + Len(queue)
    BY <1>1, <1>2, <2>3
  <2>9. InLine'
    BY <1>1, <1>3, <2>7, <2>8 DEF InLine, Marked, Place
  <2> QED
    BY <2>4, <2>5, <2>6, <2>9 DEF HttpInv
<1> QED
  BY <1>5, <1>6

(* The steps that move no piece.                                            *)
LEMMA StillKeeps ==
  ASSUME HttpInv,
         \/ \E which \in {"generate", "stream"} : Call(which)
         \/ Connect \/ AskNext \/ Join \/ GenerateEnds \/ Leave \/ LeaveAtOnce
         \/ UNCHANGED httpVars
  PROVE  HttpInv'
<1> USE DEF HttpInv, HttpTypeOK, Phases, InLine, StreamFaithful, Marked, Place, Ended
<1>1. ASSUME NEW which \in {"generate", "stream"}, Call(which) PROVE HttpInv'
  <2> USE <1>1 DEF Call
  <2>1. /\ kind' = which /\ caller' = "waiting" /\ thread' = "open"
        /\ UNCHANGED <<fault, arrived, handed, queue, gone, got>>
        /\ arrived = 0 /\ got = <<>> /\ queue = <<>> /\ handed = <<>> /\ ~gone
        /\ thread = "off" /\ fault = Nobody
    OBVIOUS
  <2>2. HttpTypeOK'
    BY <2>1
  <2>3. Phases'
    BY <2>1
  <2>4. InLine' /\ StreamFaithful'
    BY <2>1
  <2> QED
    BY <2>2, <2>3, <2>4
<1>2. CASE Connect
  BY <1>2 DEF Connect
<1>3. CASE AskNext
  BY <1>3 DEF AskNext
<1>4. CASE Join
  BY <1>4 DEF Join
<1>5. CASE GenerateEnds
  BY <1>5 DEF GenerateEnds
<1>6. CASE Leave
  BY <1>6 DEF Leave
<1>7. CASE LeaveAtOnce
  BY <1>7 DEF LeaveAtOnce
<1>8. CASE UNCHANGED httpVars
  BY <1>8 DEF httpVars
<1> QED
  BY <1>1, <1>2, <1>3, <1>4, <1>5, <1>6, <1>7, <1>8

LEMMA HttpStepHolds == HttpInv /\ [HttpNext]_httpVars => HttpInv'
<1> SUFFICES ASSUME HttpInv, [HttpNext]_httpVars PROVE HttpInv'
  OBVIOUS
<1>1. CASE Refused
  BY <1>1, EndsKeeps DEF Refused
<1>2. CASE BreaksOff
  BY <1>2, EndsKeeps DEF BreaksOff
<1>3. CASE ReplyEnds
  BY <1>3, EndsKeeps DEF ReplyEnds
<1>4. CASE Unfit
  BY <1>4, EndsKeeps DEF Unfit
<1>5. CASE PieceArrives
  BY <1>5, PieceArrivesKeeps
<1>6. CASE LoopTurn
  BY <1>6, LoopTurnKeeps
<1>7. CASE TakePiece
  BY <1>7, TakePieceKeeps
<1> QED
  BY <1>1, <1>2, <1>3, <1>4, <1>5, <1>6, <1>7, StillKeeps DEF HttpNext, Worker, Caller

(* The caller of stream() gets the pieces in their order, and hears of a    *)
(* complete reply only when it has all of them, for replies of any length   *)
(* and however worker, loop and caller interleave.                          *)
THEOREM StreamAlwaysFaithful == HttpSpec => []StreamFaithful
<1>1. HttpInv => StreamFaithful
  BY DEF HttpInv
<1> QED
  BY <1>1, HttpInitHolds, HttpStepHolds, PTL DEF HttpSpec

-----------------------------------------------------------------------------
(***************************************************************************)
(* The review of a result and the category of a failure.                   *)
(***************************************************************************)
Views == Opinions \cup {NoLLM}

LEMMA ViewType ==
  ASSUME NEW o \in Views
  PROVE  /\ o.score \in 0 .. 100 /\ o.issues \in BOOLEAN /\ o.given \in BOOLEAN
         /\ ~o.given => o = NoLLM
<1>1. CASE o \in Opinions
  <2>1. o \in [score : 0 .. 100, issues : BOOLEAN, given : {TRUE}]
    BY <1>1, PathAssumption
  <2> QED
    BY <2>1
<1>2. CASE o = NoLLM
  BY <1>2 DEF NoLLM
<1> QED
  BY <1>1, <1>2 DEF Views

Seven == {"correctness", "completeness", "security", "tests", "requirements",
          "regressions", "code_quality"}

LEMMA TheDimensions ==
  ASSUME NEW f, NEW r, NEW o \in Views, NEW D, D = Dimensions(f, r, o)
  PROVE  /\ Seven \subseteq DOMAIN D /\ ("llm" \in DOMAIN D <=> o.given)
         /\ \A d \in DOMAIN D : d \in Seven \/ (d = "llm" /\ o.given)
         /\ D["correctness"] = Correctness(f) /\ D["completeness"] = Completeness(f)
         /\ D["security"] = Security(f, r) /\ D["tests"] = Tests(f)
         /\ D["requirements"] = Requirements(f) /\ D["regressions"] = Regressions(f)
         /\ D["code_quality"] = CodeQuality(f)
         /\ o.given => D["llm"] = Opinion(o)
<1>1. CASE o.given
  BY <1>1 DEF Dimensions, Seven
<1>2. CASE ~o.given
  BY <1>2 DEF Dimensions, Seven
<1> QED
  BY <1>1, <1>2, ViewType

(* Evidence that is damning blocks, whatever the scores.                    *)
LEMMA DamningBlocks ==
  ASSUME NEW f, NEW r, NEW o \in Views, Status(Dimensions(f, r, o)) = "PASS"
  PROVE  ~Damning(f)
<1> DEFINE D == Dimensions(f, r, o)
<1>1. \A d \in DOMAIN D : ~Blocks(D[d])
  BY DEF Status
<1> HIDE DEF D
<1>2. /\ ~Blocks(Correctness(f)) /\ ~Blocks(Completeness(f)) /\ ~Blocks(Security(f, r))
      /\ ~Blocks(Tests(f)) /\ ~Blocks(Requirements(f)) /\ ~Blocks(Regressions(f))
      /\ ~Blocks(CodeQuality(f))
  <2>1. /\ Seven \subseteq DOMAIN D
        /\ D["correctness"] = Correctness(f) /\ D["completeness"] = Completeness(f)
        /\ D["security"] = Security(f, r) /\ D["tests"] = Tests(f)
        /\ D["requirements"] = Requirements(f) /\ D["regressions"] = Regressions(f)
        /\ D["code_quality"] = CodeQuality(f)
    <3>1. D = Dimensions(f, r, o)
      BY DEF D
    <3> QED
      BY <3>1, TheDimensions
  <2> QED
    BY <1>1, <2>1 DEF Seven
<1>3. "failed" \notin f
  BY <1>2 DEF Blocks, Correctness, Found
<1>4. "empty" \notin f
  BY <1>2 DEF Blocks, Completeness, Found
<1>5. "secret" \notin f
  BY <1>2 DEF Blocks, Security, Found
<1>6. "testsFailed" \notin f
  BY <1>2 DEF Blocks, Tests, Found
<1>7. "cases" \notin f
  BY <1>2 DEF Blocks, Regressions, Found
<1>8. "criticalFinding" \notin f
  BY <1>2 DEF Blocks, CodeQuality, Found
<1>9. /\ ~("mustWrite" \in f /\ "wrote" \notin f)
      /\ ~("mustTest" \in f /\ "tested" \notin f)
  BY <1>2 DEF Blocks, Requirements, Found
<1>10. ~({"toolFailed", "marker"} \subseteq f)
  <2> SUFFICES ASSUME {"toolFailed", "marker"} \subseteq f PROVE FALSE
    OBVIOUS
  <2>1. f \cap {"toolFailed", "marker"} = {"toolFailed", "marker"}
    OBVIOUS
  <2>2. Cardinality({"toolFailed", "marker"}) = 2
    BY TwoElements
  <2>3. Correctness(f) = Found(20, "major")
    BY <1>3, <2>1, <2>2 DEF Correctness, Count, Less
  <2> QED
    BY <1>2, <2>3 DEF Blocks, Found
<1> QED
  BY <1>3, <1>4, <1>5, <1>6, <1>7, <1>8, <1>9, <1>10 DEF Damning

(* Without damning evidence the least the evaluators can add up to is       *)
(* 11450 of 145 times 100: a marker, a planned tool that was not called, a  *)
(* finding, and a model that gives nothing.                                 *)
LEMMA OnlyDamningFails ==
  ASSUME NEW f, NEW r \in 0 .. 2, NEW o \in Views, Possible(f, r), MinScore <= 78,
         ~Damning(f), ~(o.issues /\ o.score < 50)
  PROVE  Status(Dimensions(f, r, o)) = "PASS"
<1> DEFINE D == Dimensions(f, r, o)
<1>1. /\ "failed" \notin f /\ "empty" \notin f /\ "secret" \notin f /\ "testsFailed" \notin f
      /\ "cases" \notin f /\ "criticalFinding" \notin f
      /\ ~("mustWrite" \in f /\ "wrote" \notin f) /\ ~("mustTest" \in f /\ "tested" \notin f)
  BY DEF Damning
<1>2. "toolFailed" \notin f /\ r = 0
  BY <1>1 DEF Possible
<1>3. PICK c \in {60, 100} : Correctness(f) = Found(c, IF c = 100 THEN "none" ELSE "major")
  <2>1. CASE "marker" \in f
    <3>1. f \cap {"toolFailed", "marker"} = {"marker"}
      BY <1>2, <2>1
    <3>2. Cardinality({"marker"}) = 1
      BY FS_Singleton
    <3>3. Correctness(f) = Found(60, "major")
      BY <1>1, <3>1, <3>2 DEF Correctness, Count, Less
    <3> QED
      BY <3>3
  <2>2. CASE "marker" \notin f
    <3>1. f \cap {"toolFailed", "marker"} = {}
      BY <1>2, <2>2
    <3>2. Correctness(f) = Found(100, "none")
      BY <1>1, <3>1 DEF Correctness, Fine
    <3> QED
      BY <3>2
  <2> QED
    BY <2>1, <2>2
<1>4. PICK m \in {70, 100} : Completeness(f) = Found(m, IF m = 100 THEN "none" ELSE "minor")
  BY <1>1 DEF Completeness, Fine
<1>5. PICK q \in {75, 100} : CodeQuality(f) = Found(q, IF q = 100 THEN "none" ELSE "minor")
  BY <1>1 DEF CodeQuality, Fine
<1>6. /\ Security(f, r) = Fine /\ Tests(f) = Fine /\ Requirements(f) = Fine
      /\ Regressions(f) = Fine
  BY <1>1, <1>2 DEF Security, Tests, Requirements, Regressions
<1>7. /\ Opinion(o).score = o.score /\ o.score \in 0 .. 100
      /\ Opinion(o).severity \in {"none", "minor"}
  BY ViewType DEF Opinion, Found
<1>8. \A d \in DOMAIN D : ~Blocks(D[d])
  <2>1. /\ ~Blocks(Correctness(f)) /\ ~Blocks(Completeness(f)) /\ ~Blocks(CodeQuality(f))
        /\ ~Blocks(Fine) /\ ~Blocks(Opinion(o))
    BY <1>3, <1>4, <1>5, <1>7 DEF Blocks, Fine, Found
  <2> HIDE DEF D
  <2>2. \A d \in DOMAIN D : D[d] \in {Correctness(f), Completeness(f), CodeQuality(f), Fine,
                                      Opinion(o)}
    <3>1. /\ \A d \in DOMAIN D : d \in Seven \/ (d = "llm" /\ o.given)
          /\ D["correctness"] = Correctness(f) /\ D["completeness"] = Completeness(f)
          /\ D["security"] = Fine /\ D["tests"] = Fine /\ D["requirements"] = Fine
          /\ D["regressions"] = Fine /\ D["code_quality"] = CodeQuality(f)
          /\ o.given => D["llm"] = Opinion(o)
      BY <1>6, TheDimensions DEF D
    <3> QED
      BY <3>1 DEF Seven
  <2> QED
    BY <2>1, <2>2
<1>9. Enough(D)
  <2> DEFINE used == [d \in DOMAIN D |-> DIMENSION_WEIGHTS[d]]
             scored == [d \in DOMAIN D |-> used[d] * D[d].score]
  <2> HIDE DEF D
  <2>1. /\ Seven \subseteq DOMAIN D /\ ("llm" \in DOMAIN D <=> o.given)
        /\ D["correctness"].score = c /\ D["completeness"].score = m
        /\ D["security"].score = 100 /\ D["tests"].score = 100
        /\ D["requirements"].score = 100 /\ D["regressions"].score = 100
        /\ D["code_quality"].score = q
        /\ o.given => D["llm"].score = o.score
    BY <1>3, <1>4, <1>5, <1>6, <1>7, TheDimensions DEF D, Fine, Found
  <2>2. /\ used["correctness"] = 30 /\ used["completeness"] = 20 /\ used["security"] = 25
        /\ used["tests"] = 20 /\ used["requirements"] = 15 /\ used["regressions"] = 15
        /\ used["code_quality"] = 10
        /\ o.given => used["llm"] = 10
    BY <2>1 DEF DIMENSION_WEIGHTS, Seven
  <2>3. /\ scored["correctness"] = 30 * c /\ scored["completeness"] = 20 * m
        /\ scored["security"] = 2500 /\ scored["tests"] = 2000
        /\ scored["requirements"] = 1500 /\ scored["regressions"] = 1500
        /\ scored["code_quality"] = 10 * q
        /\ o.given => scored["llm"] = 10 * o.score
    <3> HIDE DEF used
    <3> QED
      BY <2>1, <2>2 DEF Seven
  <2>4. DOMAIN used = DOMAIN D /\ DOMAIN scored = DOMAIN D
    OBVIOUS
  <2> HIDE DEF used, scored
  <2>5. Total(used) = IF o.given THEN 145 ELSE 135
    BY <2>1, <2>2, <2>4 DEF Total
  <2>6. Total(scored) = 30 * c + 20 * m + 7500 + 10 * q
                          + (IF o.given THEN 10 * o.score ELSE 0)
    BY <1>3, <1>4, <1>5, <1>7, <2>1, <2>3, <2>4 DEF Total
  <2>7. 30 * c + 20 * m + 7500 + 10 * q >= 11450
    BY <1>3, <1>4, <1>5
  <2>8. MinScore * Total(used) <= 11310
    BY <2>5, ReviewAssumption
  <2>9. Total(scored) >= MinScore * Total(used)
    BY <1>3, <1>4, <1>5, <1>7, <2>5, <2>6, <2>7, <2>8, ReviewAssumption
  <2> QED
    BY <2>9 DEF Enough, used, scored
<1> HIDE DEF D
<1> QED
  BY <1>8, <1>9 DEF Status, D

(* No row of the table of exceptions hides a later one for a more special   *)
(* class, and no class has two rows.                                        *)
ClassOf(k) == ExceptionMap[k][1]

LEMMA TheRows ==
  /\ DOMAIN ExceptionMap = 1 .. 20
  /\ ClassOf(1) = "RateLimitError" /\ ClassOf(2) = "ProviderTimeoutError"
  /\ ClassOf(3) = "ProviderError" /\ ClassOf(4) = "BackendTimeoutError"
  /\ ClassOf(5) = "BackendError" /\ ClassOf(6) = "ToolTimeoutError"
  /\ ClassOf(7) = "PermissionDeniedError" /\ ClassOf(8) = "ToolError"
  /\ ClassOf(9) = "TaskTimeoutError" /\ ClassOf(10) = "TaskCancelledError"
  /\ ClassOf(11) = "WorkflowCancelledError" /\ ClassOf(12) = "ReviewRejectedError"
  /\ ClassOf(13) = "ContextError" /\ ClassOf(14) = "NoAgentAvailableError"
  /\ ClassOf(15) = "UnknownAgentError" /\ ClassOf(16) = "UnknownBackendError"
  /\ ClassOf(17) = "UnknownProviderError" /\ ClassOf(18) = "InvalidReferenceError"
  /\ ClassOf(19) = "PlanningError" /\ ClassOf(20) = "DAGError"
  BY DEF ExceptionMap, ClassOf

LEMMA TheirCategories ==
  /\ ExceptionMap[1][2] = "RATE_LIMIT" /\ ExceptionMap[2][2] = "TIMEOUT"
  /\ ExceptionMap[3][2] = "PROVIDER_ERROR" /\ ExceptionMap[4][2] = "TIMEOUT"
  /\ ExceptionMap[5][2] = "BACKEND_ERROR" /\ ExceptionMap[6][2] = "TIMEOUT"
  /\ ExceptionMap[7][2] = "PERMISSION_ERROR" /\ ExceptionMap[8][2] = "TOOL_ERROR"
  /\ ExceptionMap[9][2] = "TIMEOUT" /\ ExceptionMap[10][2] = "CANCELLED"
  /\ ExceptionMap[11][2] = "CANCELLED" /\ ExceptionMap[12][2] = "REVIEW_REJECTED"
  /\ ExceptionMap[13][2] = "CONTEXT_ERROR" /\ ExceptionMap[14][2] = "ROUTING_ERROR"
  /\ ExceptionMap[15][2] = "ROUTING_ERROR" /\ ExceptionMap[16][2] = "ROUTING_ERROR"
  /\ ExceptionMap[17][2] = "ROUTING_ERROR" /\ ExceptionMap[18][2] = "ROUTING_ERROR"
  /\ ExceptionMap[19][2] = "CONTEXT_ERROR" /\ ExceptionMap[20][2] = "CONTEXT_ERROR"
  BY DEF ExceptionMap

LEMMA TableOrder ==
  ASSUME NEW i \in DOMAIN ExceptionMap, NEW j \in DOMAIN ExceptionMap,
         IsA(ClassOf(i), ClassOf(j))
  PROVE  i <= j
<1> DEFINE Row == [RateLimitError |-> 1, ProviderTimeoutError |-> 2, ProviderError |-> 3,
                   BackendTimeoutError |-> 4, BackendError |-> 5, ToolTimeoutError |-> 6,
                   PermissionDeniedError |-> 7, ToolError |-> 8, TaskTimeoutError |-> 9,
                   TaskCancelledError |-> 10, WorkflowCancelledError |-> 11,
                   ReviewRejectedError |-> 12, ContextError |-> 13,
                   NoAgentAvailableError |-> 14, UnknownAgentError |-> 15,
                   UnknownBackendError |-> 16, UnknownProviderError |-> 17,
                   InvalidReferenceError |-> 18, PlanningError |-> 19, DAGError |-> 20]
<1>1. \A k \in DOMAIN ExceptionMap :
        k \in Nat /\ ClassOf(k) \in DOMAIN Row /\ Row[ClassOf(k)] = k
  BY TheRows
<1>2. \A k \in DOMAIN ExceptionMap :
        ClassOf(k) \in DOMAIN Base =>
          \/ Base[ClassOf(k)] = "RegistryError"
          \/ Row[Base[ClassOf(k)]] \in Nat /\ k <= Row[Base[ClassOf(k)]]
  BY TheRows DEF Base
<1>3. "RegistryError" \notin DOMAIN Row
  OBVIOUS
<1> HIDE DEF Row
<1>4. CASE ClassOf(i) = ClassOf(j)
  BY <1>1, <1>4
<1>5. CASE ClassOf(i) \in DOMAIN Base /\ Base[ClassOf(i)] = ClassOf(j)
  BY <1>1, <1>2, <1>3, <1>5
<1> QED
  BY <1>4, <1>5 DEF IsA

LEMMA FirstFits ==
  ASSUME NEW e, e # "TimeoutError", NEW k \in DOMAIN ExceptionMap, IsA(e, ClassOf(k)),
         \A j \in DOMAIN ExceptionMap : IsA(e, ClassOf(j)) => k <= j
  PROVE  ClassifyException(e) = ExceptionMap[k][2]
<1> DEFINE fits == {j \in DOMAIN ExceptionMap : IsA(e, ClassOf(j))}
<1>1. DOMAIN ExceptionMap \subseteq Nat
  BY DEF ExceptionMap
<1>2. fits \in SUBSET Nat /\ k \in fits
  BY <1>1
<1>3. \A j \in fits : k <= j
  OBVIOUS
<1>4. ClassifyException(e) = IF fits # {} THEN ExceptionMap[Min(fits)][2]
                             ELSE IF e \in Faulty THEN "CODE_ERROR" ELSE "UNKNOWN"
  BY DEF ClassifyException, ClassOf
<1> HIDE DEF fits
<1>5. Min(fits) = k
  <2>1. Min(fits) \in fits /\ \A y \in fits : Min(fits) <= y
    BY <1>2, MinOfNumbers
  <2>2. Min(fits) \in Nat /\ k \in Nat /\ Min(fits) <= k /\ k <= Min(fits)
    BY <1>2, <1>3, <2>1
  <2> QED
    BY <2>2
<1> QED
  BY <1>2, <1>4, <1>5

LEMMA NearestCounts ==
  ASSUME NEW e \in Exceptions, Nearest(e) # {}
  PROVE  ClassifyException(e) \in Nearest(e)
<1>1. \A c : RowsFor(c) = {ExceptionMap[k] : k \in {j \in DOMAIN ExceptionMap : ClassOf(j) = c}}
  BY DEF RowsFor, ToSet, ClassOf
<1>2. e # "TimeoutError"
  <2>1. "TimeoutError" \notin DOMAIN Base
    BY DEF Base
  <2>2. \A k \in DOMAIN ExceptionMap : ClassOf(k) # "TimeoutError"
    BY DEF ExceptionMap, ClassOf
  <2> QED
    BY <1>1, <2>1, <2>2 DEF Nearest
<1>3. CASE RowsFor(e) # {}
  <2>1. PICK k \in DOMAIN ExceptionMap : ClassOf(k) = e
    BY <1>1, <1>3
  <2>2. \A j \in DOMAIN ExceptionMap : IsA(e, ClassOf(j)) => k <= j
    BY <2>1, TableOrder
  <2>3. ClassifyException(e) = ExceptionMap[k][2]
    BY <1>2, <2>1, <2>2, FirstFits DEF IsA
  <2> QED
    BY <1>1, <1>3, <2>1, <2>3 DEF Nearest
<1>4. CASE RowsFor(e) = {}
  <2>1. e \in DOMAIN Base /\ RowsFor(Base[e]) # {}
    BY <1>4 DEF Nearest
  <2>2. PICK k \in DOMAIN ExceptionMap : ClassOf(k) = Base[e]
    BY <1>1, <2>1
  <2>3. \A j \in DOMAIN ExceptionMap : IsA(e, ClassOf(j)) => k <= j
    <3> SUFFICES ASSUME NEW j \in DOMAIN ExceptionMap, IsA(e, ClassOf(j)) PROVE k <= j
      OBVIOUS
    <3>1. ClassOf(j) # e
      BY <1>1, <1>4
    <3>2. ClassOf(j) = ClassOf(k)
      BY <2>2, <3>1 DEF IsA
    <3>3. IsA(ClassOf(k), ClassOf(j))
      BY <3>2 DEF IsA
    <3> QED
      BY <3>3, TableOrder
  <2>4. ClassifyException(e) = ExceptionMap[k][2]
    BY <1>2, <2>1, <2>2, <2>3, FirstFits DEF IsA
  <2> QED
    BY <1>1, <1>4, <2>1, <2>2, <2>4 DEF Nearest
<1> QED
  BY <1>3, <1>4

(* Where the table of codes knows an exception's code, that of exceptions   *)
(* has the same category for its nearest class.                             *)
LEMMA TablesAgree ==
  ASSUME NEW e \in DOMAIN Code, Code[e] \in DOMAIN ResultMap
  PROVE  Nearest(e) = {ResultMap[Code[e]]}
<1>1. \A c : RowsFor(c) = {ExceptionMap[k] : k \in {j \in DOMAIN ExceptionMap : ClassOf(j) = c}}
  BY DEF RowsFor, ToSet, ClassOf
<1>2. e \in {"ProviderError", "ProviderUnavailableError", "ProviderTimeoutError",
             "RateLimitError", "BackendError", "BackendUnavailableError",
             "BackendTimeoutError", "ToolError", "ToolExecutionError", "ToolTimeoutError",
             "PermissionDeniedError", "ApprovalRequiredError", "TaskTimeoutError",
             "TaskCancelledError", "ReviewRejectedError", "NoAgentAvailableError"}
  BY DEF Code, ResultMap
<1>3. \A k \in DOMAIN ExceptionMap : ClassOf(k) = e => ExceptionMap[k][2] = ResultMap[Code[e]]
  <2>1. \A k \in DOMAIN ExceptionMap :
          Code[ClassOf(k)] \in DOMAIN ResultMap =>
            ExceptionMap[k][2] = ResultMap[Code[ClassOf(k)]]
    BY TheRows, TheirCategories DEF Code, ResultMap
  <2> QED
    BY <2>1
<1>4. CASE \E k \in DOMAIN ExceptionMap : ClassOf(k) = e
  <2>1. RowsFor(e) # {} /\ \A row \in RowsFor(e) : row[2] = ResultMap[Code[e]]
    BY <1>1, <1>3, <1>4
  <2> QED
    BY <2>1 DEF Nearest
<1>5. CASE \A k \in DOMAIN ExceptionMap : ClassOf(k) # e
  <2>1. e \in {"ProviderUnavailableError", "BackendUnavailableError", "ToolExecutionError",
               "ApprovalRequiredError"}
    BY <1>2, <1>5, TheRows
  <2>2. e \in DOMAIN Base /\ \E k \in DOMAIN ExceptionMap : ClassOf(k) = Base[e]
    BY <2>1, TheRows DEF Base
  <2>3. RowsFor(e) = {} /\ RowsFor(Base[e]) # {}
    BY <1>1, <1>5, <2>2
  <2>4. \A row \in RowsFor(Base[e]) : row[2] = ResultMap[Code[e]]
    <3>1. \A k \in DOMAIN ExceptionMap :
            ClassOf(k) = Base[e] => ExceptionMap[k][2] = ResultMap[Code[e]]
      <4>1. CASE e = "ProviderUnavailableError"
        <5>1. Base[e] = "ProviderError" /\ ResultMap[Code[e]] = "PROVIDER_ERROR"
          BY <4>1 DEF Base, Code, ResultMap
        <5> QED
          BY <5>1 DEF ExceptionMap, ClassOf
      <4>2. CASE e = "BackendUnavailableError"
        <5>1. Base[e] = "BackendError" /\ ResultMap[Code[e]] = "BACKEND_ERROR"
          BY <4>2 DEF Base, Code, ResultMap
        <5> QED
          BY <5>1 DEF ExceptionMap, ClassOf
      <4>3. CASE e = "ToolExecutionError"
        <5>1. Base[e] = "ToolError" /\ ResultMap[Code[e]] = "TOOL_ERROR"
          BY <4>3 DEF Base, Code, ResultMap
        <5> QED
          BY <5>1 DEF ExceptionMap, ClassOf
      <4>4. CASE e = "ApprovalRequiredError"
        <5>1. Base[e] = "PermissionDeniedError" /\ ResultMap[Code[e]] = "PERMISSION_ERROR"
          BY <4>4 DEF Base, Code, ResultMap
        <5> QED
          BY <5>1 DEF ExceptionMap, ClassOf
      <4> QED
        BY <2>1, <4>1, <4>2, <4>3, <4>4
    <3> QED
      BY <1>1, <3>1
  <2> QED
    BY <2>2, <2>3, <2>4 DEF Nearest
<1> QED
  BY <1>4, <1>5

LEMMA CategoriesAreCategories ==
  ASSUME NEW e PROVE ClassifyException(e) \in FailureCategory
<1> DEFINE fits == {j \in DOMAIN ExceptionMap : IsA(e, ClassOf(j))}
<1>1. ClassifyException(e) = IF e = "TimeoutError" THEN "TIMEOUT"
                             ELSE IF fits # {} THEN ExceptionMap[Min(fits)][2]
                             ELSE IF e \in Faulty THEN "CODE_ERROR" ELSE "UNKNOWN"
  BY DEF ClassifyException, ClassOf
<1>2. \A k \in DOMAIN ExceptionMap : ExceptionMap[k][2] \in FailureCategory
  BY DEF ExceptionMap, FailureCategory
<1>3. fits # {} => Min(fits) \in DOMAIN ExceptionMap
  <2>1. fits \in SUBSET Nat /\ fits \subseteq DOMAIN ExceptionMap
    BY DEF ExceptionMap
  <2> HIDE DEF fits
  <2> QED
    BY <2>1, MinOfNumbers
<1> HIDE DEF fits
<1> QED
  BY <1>1, <1>2, <1>3 DEF FailureCategory

(* The verdict is that of the evidence and the category that of what left   *)
(* the attempt, once there is one.                                          *)
PathInv ==
  /\ status \in {"PASS", "FAIL"} =>
       /\ refused \in 0 .. 2 /\ llm \in Views
       /\ status = Status(Dimensions(facts, refused, llm))
       /\ Possible(facts, refused) \/ facts = {"failed", "empty"}
  /\ escaped # Nobody => escaped \in Exceptions /\ category = ClassifyException(escaped)

LEMMA PathInitHolds == PathInit => PathInv
  BY DEF PathInit, PathInv

LEMMA EscapesStep ==
  ASSUME PathInv, NEW e \in Exceptions, Escapes(e)
  PROVE  PathInv'
  BY DEF Escapes, PathInv

LEMMA JudgeStep ==
  ASSUME PathInv, Attempting, NEW f, NEW r \in 0 .. 2, NEW o \in Views, NEW c,
         Possible(f, r) \/ f = {"failed", "empty"}, Judge(f, r, o, c)
  PROVE  PathInv'
<1>1. escaped = Nobody
  BY CategoriesAreCategories, PathAssumption DEF PathInv, Attempting
<1> QED
  BY <1>1 DEF Judge, PathInv, Dims

LEMMA PathInvariant == PathInit /\ [][PathNext]_pathVars => []PathInv
<1>1. PathInv /\ [PathNext]_pathVars => PathInv'
  <2> SUFFICES ASSUME PathInv, [PathNext]_pathVars PROVE PathInv'
    OBVIOUS
  <2>1. CASE Http \/ UNCHANGED pathVars
    BY <2>1 DEF Http, pathVars, PathInv
  <2>2. CASE ProviderFails
    <3>1. "ProviderUnavailableError" \in Exceptions
      BY DEF Exceptions, Code
    <3> QED
      BY <2>2, <3>1, EscapesStep DEF ProviderFails
  <2>3. CASE OtherFailure
    BY <2>3, EscapesStep DEF OtherFailure
  <2>4. CASE ResultReviewed
    BY <2>4, JudgeStep DEF ResultReviewed, Views
  <2>5. CASE CancelledReviewed
    BY <2>5, JudgeStep DEF CancelledReviewed, Views
  <2>6. CASE ReviewRaises
    BY <2>6 DEF ReviewRaises, PathInv, Exceptions, Builtins, Faulty
  <2> QED
    BY <2>1, <2>2, <2>3, <2>4, <2>5, <2>6 DEF PathNext
<1> QED
  BY <1>1, PathInitHolds, PTL

(* The gate goes by evidence, for every threshold up to 78 per cent: one of *)
(* 79 refuses a result for its score alone.                                 *)
THEOREM GateGoesByEvidence ==
  ASSUME MinScore <= 78
  PROVE  PathInit /\ [][PathNext]_pathVars => []GateIsEvidence
<1>1. PathInv => GateIsEvidence
  <2> SUFFICES ASSUME PathInv PROVE GateIsEvidence
    OBVIOUS
  <2>1. status = "PASS" => ~Damning(facts)
    BY DamningBlocks DEF PathInv
  <2>2. status = "FAIL" => Damning(facts) \/ (llm.issues /\ llm.score < 50)
    <3> SUFFICES ASSUME status = "FAIL", ~Damning(facts), ~(llm.issues /\ llm.score < 50)
                 PROVE  FALSE
      OBVIOUS
    <3>1. Possible(facts, refused)
      BY DEF PathInv, Damning
    <3> QED
      BY <3>1, OnlyDamningFails DEF PathInv
  <2> QED
    BY <2>1, <2>2 DEF GateIsEvidence
<1> QED
  BY <1>1, PathInvariant, PTL

(* However an attempt goes wrong, its exception is put in the category of   *)
(* its nearest class, since no row of the table stands behind that of a     *)
(* base class (TableOrder), and the two classifiers agree: see TriageSound. *)
THEOREM TriageGoesByClass == PathInit /\ [][PathNext]_pathVars => []TriageSound
<1>1. PathInv => TriageSound
  <2> SUFFICES ASSUME PathInv, escaped # Nobody PROVE TriageSound
    BY DEF TriageSound
  <2>1. escaped \in Exceptions /\ category = ClassifyException(escaped)
    BY DEF PathInv
  <2>2. Nearest(escaped) # {} => category \in Nearest(escaped)
    BY <2>1, NearestCounts
  <2>3. escaped \in DOMAIN Code /\ Code[escaped] \in DOMAIN ResultMap =>
          ResultMap[Code[escaped]] = category
    BY <2>2, TablesAgree
  <2> QED
    BY <2>2, <2>3 DEF TriageSound
<1> QED
  BY <1>1, PathInvariant, PTL

-----------------------------------------------------------------------------
(***************************************************************************)
(* ContextManager.build and compress.                                      *)
(***************************************************************************)
LEMMA LeastOfTwo ==
  ASSUME NEW m \in Nat, NEW n \in Nat
  PROVE  Min({m, n}) = IF m <= n THEN m ELSE n
<1> DEFINE S == {m, n}
<1>1. S \in SUBSET Nat /\ S # {} /\ m \in S /\ n \in S /\ \A x \in S : x = m \/ x = n
  OBVIOUS
<1> HIDE DEF S
<1>2. Min(S) \in S /\ \A y \in S : Min(S) <= y
  BY <1>1, MinOfNumbers
<1>3. (Min(S) = m \/ Min(S) = n) /\ Min(S) <= m /\ Min(S) <= n
  BY <1>1, <1>2
<1>4. Min(S) = IF m <= n THEN m ELSE n
  BY <1>3
<1> QED
  BY <1>4 DEF S

LEMMA GreatestIsNumber ==
  ASSUME NEW m \in Nat, NEW n \in Nat
  PROVE  Max({m, n}) \in Nat /\ Max({m, n}) >= m /\ Max({m, n}) >= n
<1> DEFINE S == {m, n}
<1>1. m + n \in Nat /\ S \in SUBSET (0 .. m + n) /\ S # {} /\ m \in S /\ n \in S
      /\ \A x \in S : x = m \/ x = n
  OBVIOUS
<1> HIDE DEF S
<1>2. Max(S) \in S /\ \A y \in S : y <= Max(S)
  BY <1>1, MaxOfNumbers
<1>3. (Max(S) = m \/ Max(S) = n) /\ m <= Max(S) /\ n <= Max(S)
  BY <1>1, <1>2
<1>4. Max(S) >= m /\ Max(S) >= n
  BY <1>3
<1> QED
  BY <1>3, <1>4 DEF S

LEMMA ShortenBounds ==
  ASSUME NEW length \in Nat, NEW most \in Nat
  PROVE  Shorten(length, most) \in Nat /\ Shorten(length, most) <= most + Mark
BY DEF Shorten, Mark

(* xs[-n:]: the last elements of xs, in their order.                        *)
LEMMA NewestIsTail ==
  ASSUME NEW T, NEW seq \in Seq(T), NEW n \in Nat
  PROVE  /\ LastFew(n, Len(seq)) \in 0 .. Len(seq)
         /\ Newest(seq, n) \in Seq(T)
         /\ Len(Newest(seq, n)) = LastFew(n, Len(seq))
         /\ \A k \in 1 .. LastFew(n, Len(seq)) :
              Newest(seq, n)[k] = seq[(Len(seq) - LastFew(n, Len(seq))) + k]
<1> DEFINE length == Len(seq)
           few    == LastFew(n, length)
<1>1. length \in Nat /\ \A i \in 1 .. length : seq[i] \in T
  BY LenProperties, ElementOfSeq
<1>2. few \in 0 .. length
  BY <1>1, LeastOfTwo DEF LastFew
<1>3. Newest(seq, n) = SubSeq(seq, length - few + 1, length)
  BY DEF Newest
<1> HIDE DEF length, few
<1>4. /\ length - few + 1 \in Int /\ length \in Int
      /\ \A i \in (length - few + 1) .. length : seq[i] \in T
  BY <1>1, <1>2
<1>5. /\ Newest(seq, n) \in Seq(T)
      /\ Len(Newest(seq, n)) = IF length - few + 1 <= length
                               THEN length - (length - few + 1) + 1 ELSE 0
      /\ \A i \in 1 .. (length - (length - few + 1)) + 1 :
           Newest(seq, n)[i] = seq[(length - few + 1) + i - 1]
  BY <1>3, <1>4, SubSeqProperties
<1>6. Len(Newest(seq, n)) = few
  BY <1>1, <1>2, <1>5
<1>7. ASSUME NEW k \in 1 .. few
      PROVE  Newest(seq, n)[k] = seq[(length - few) + k]
  <2>1. k \in 1 .. (length - (length - few + 1)) + 1
        /\ (length - few + 1) + k - 1 = (length - few) + k
    BY <1>1, <1>2
  <2> QED
    BY <1>5, <2>1
<1>8. /\ few \in 0 .. length /\ Newest(seq, n) \in Seq(T) /\ Len(Newest(seq, n)) = few
      /\ \A k \in 1 .. few : Newest(seq, n)[k] = seq[(length - few) + k]
  BY <1>2, <1>5, <1>6, <1>7
<1> QED
  BY <1>8 DEF length, few

(***************************************************************************)
(* A reduction is applied only to a bundle that is too large, so one that  *)
(* is too large at some stage has gone through all the earlier ones; what  *)
(* a reduction has done, no later one undoes.  The size itself does not    *)
(* enter: no reduction is promised to be enough.                           *)
(***************************************************************************)
TooLarge == Size(bundle) > Budget

ToShow == LastFew(MaxResults, Len(given.results))

BundleTypes ==
  /\ given \in Bundles
  /\ bundle \in [fixed : Nat, workspace : Nat, memories : Nat,
                 results : Seq(Nat \X Nat), artifacts : Nat, request : Nat]

NewestShown ==
  /\ ToShow \in 0 .. Len(given.results)
  /\ Len(bundle.results) \in 0 .. ToShow
  /\ Len(bundle.results) < 2 => Len(bundle.results) = ToShow
  /\ \A k \in 1 .. Len(bundle.results) :
       bundle.results[k][1] = (Len(given.results) - Len(bundle.results)) + k

GivenUp ==
  /\ Len(bundle.results) < ToShow => FewArtifacts /\ stage > 3
  /\ bundle.memories < Min({5, given.memories}) =>
       FewArtifacts /\ FewResults /\ stage > 4
  /\ bundle.request < given.request =>
       FewArtifacts /\ FewResults /\ FewFacts /\ stage > 5

NothingLeft ==
  TooLarge => /\ stage > 1 => FewArtifacts
              /\ stage > 3 => FewResults
              /\ stage > 4 => FewFacts
              /\ stage > 5 => bundle.request <= 10 + Mark

ContextInv ==
  \/ stage = 0
  \/ stage \in 1 .. Built /\ BundleTypes /\ NewestShown /\ GivenUp /\ NothingLeft

LEMMA PlaceInTail ==
  ASSUME NEW n \in Nat, NEW m \in Nat, NEW few \in 0 .. m, NEW k \in 1 .. few
  PROVE  /\ (m - few) + k \in 1 .. m
         /\ (n - m) + ((m - few) + k) = (n - few) + k
OBVIOUS

LEMMA BundleTypeOf ==
  ASSUME NEW have \in Bundles
  PROVE  have \in [fixed : Nat, workspace : Nat, memories : Nat,
                   results : Seq(Nat), artifacts : Nat, request : Nat]
BY ContextAssumption

LEMMA BuildKeeps ==
  ASSUME Build
  PROVE  ContextInv'
<1>1. PICK have \in Bundles :
        /\ given' = have
        /\ bundle' = [have EXCEPT
             !.results   = Newest([k \in DOMAIN have.results |-> <<k, have.results[k]>>],
                                  MaxResults),
             !.artifacts = Min({have.artifacts, 20}),
             !.memories  = Min({have.memories, 5})]
  BY DEF Build
<1> DEFINE n     == Len(have.results)
           pairs == [k \in DOMAIN have.results |-> <<k, have.results[k]>>]
<1>2. /\ have \in [fixed : Nat, workspace : Nat, memories : Nat,
                   results : Seq(Nat), artifacts : Nat, request : Nat]
      /\ MaxResults \in Nat
  BY BundleTypeOf, ContextAssumption
<1>3. n \in Nat /\ DOMAIN have.results = 1 .. n /\ \A k \in 1 .. n : have.results[k] \in Nat
  BY <1>2, LenProperties, ElementOfSeq
<1>4. /\ pairs \in Seq(Nat \X Nat) /\ Len(pairs) = n
      /\ \A k \in 1 .. n : pairs[k] = <<k, have.results[k]>>
  BY <1>3
<1>5. Min({have.artifacts, 20}) \in Nat /\ Min({have.memories, 5}) \in Nat
  BY <1>2, LeastIsBelow
<1> HIDE DEF pairs
<1>6. /\ LastFew(MaxResults, n) \in 0 .. n
      /\ Newest(pairs, MaxResults) \in Seq(Nat \X Nat)
      /\ Len(Newest(pairs, MaxResults)) = LastFew(MaxResults, n)
      /\ \A k \in 1 .. LastFew(MaxResults, n) :
           Newest(pairs, MaxResults)[k] = pairs[(n - LastFew(MaxResults, n)) + k]
  <2>1. pairs \in Seq(Nat \X Nat) /\ Len(pairs) = n /\ MaxResults \in Nat
    BY <1>2, <1>4
  <2> HIDE DEF n
  <2> QED
    BY <2>1, NewestIsTail
<1>7. /\ given' = have /\ bundle'.results = Newest(pairs, MaxResults)
      /\ bundle'.memories = Min({have.memories, 5})
      /\ bundle'.request = have.request /\ stage' = 1
      /\ bundle' \in [fixed : Nat, workspace : Nat, memories : Nat,
                      results : Seq(Nat \X Nat), artifacts : Nat, request : Nat]
  BY <1>1, <1>2, <1>5, <1>6 DEF Build, pairs
<1>8. BundleTypes'
  BY <1>7 DEF BundleTypes
<1>9. NewestShown'
  <2>1. ToShow' = LastFew(MaxResults, n) /\ Len(given.results)' = n
        /\ Len(bundle.results)' = LastFew(MaxResults, n)
    BY <1>6, <1>7 DEF ToShow
  <2>2. ASSUME NEW k \in 1 .. LastFew(MaxResults, n)
        PROVE  bundle'.results[k][1] = (n - LastFew(MaxResults, n)) + k
    <3> DEFINE place == (n - LastFew(MaxResults, n)) + k
    <3>1. place \in 1 .. n
      <4> DEFINE few == LastFew(MaxResults, n)
      <4>1. n \in Nat /\ few \in 0 .. n /\ k \in 1 .. few
        BY <1>3, <1>6
      <4> HIDE DEF n, few
      <4>2. (n - few) + k \in 1 .. n
        BY <4>1, PlaceInTail
      <4> QED
        BY <4>2 DEF few
    <3>2. bundle'.results[k] = pairs[place]
      BY <1>6, <1>7
    <3> HIDE DEF place
    <3>3. pairs[place] = <<place, have.results[place]>>
      BY <1>4, <3>1
    <3>4. bundle'.results[k][1] = place
      BY <3>2, <3>3
    <3> QED
      BY <3>4 DEF place
  <2> QED
    BY <1>6, <2>1, <2>2 DEF NewestShown
<1>10. GivenUp'
  <2>1. Len(bundle'.results) = ToShow' /\ ToShow' \in Nat
    BY <1>6, <1>7 DEF ToShow
  <2>2. bundle'.memories = Min({5, given'.memories}) /\ bundle'.memories \in Nat
    <3>1. {5, have.memories} = {have.memories, 5}
      OBVIOUS
    <3> QED
      BY <1>5, <1>7, <3>1
  <2>3. bundle'.request = given'.request /\ bundle'.request \in Nat
    BY <1>2, <1>7
  <2> QED
    BY <2>1, <2>2, <2>3 DEF GivenUp
<1>11. NothingLeft'
  BY <1>7 DEF NothingLeft
<1> QED
  BY <1>7, <1>8, <1>9, <1>10, <1>11 DEF ContextInv, Built

(* What a reduction makes of the results: as many, or the last two.         *)
LEMMA ShortenedKeeps ==
  ASSUME NEW results \in Seq(Nat \X Nat)
  PROVE  /\ Shortened(results) \in Seq(Nat \X Nat)
         /\ Len(Shortened(results)) = Len(results)
         /\ \A k \in 1 .. Len(results) : Shortened(results)[k][1] = results[k][1]
<1> DEFINE most == Max({2, Budget \div Max({1, Len(results) * 3})})
<1>1. Len(results) \in Nat /\ DOMAIN results = 1 .. Len(results)
      /\ \A k \in 1 .. Len(results) : results[k] \in Nat \X Nat
  BY LenProperties, ElementOfSeq
<1>2. Budget \in Nat
  BY ContextAssumption, GreatestIsNumber DEF Budget
<1>3. Max({1, Len(results) * 3}) \in Nat /\ Max({1, Len(results) * 3}) >= 1
  BY <1>1, GreatestIsNumber
<1>4. Budget \div Max({1, Len(results) * 3}) \in Nat
  <2>1. \A a, b \in Nat : b >= 1 => a \div b \in Nat
    OBVIOUS
  <2> QED
    BY <1>2, <1>3, <2>1
<1>5. most \in Nat
  BY <1>4, GreatestIsNumber
<1>6. Shortened(results) =
        [k \in DOMAIN results |-> <<results[k][1], Shorten(results[k][2], most)>>]
  BY DEF Shortened
<1> HIDE DEF most
<1>7. \A k \in 1 .. Len(results) :
        /\ results[k][1] \in Nat /\ results[k][2] \in Nat
        /\ Shorten(results[k][2], most) \in Nat
  BY <1>1, <1>5, ShortenBounds
<1> QED
  BY <1>1, <1>6, <1>7

LEMMA PlacesOfTail ==
  ASSUME NEW n \in Nat, NEW m \in 0 .. n
  PROVE  {(n - m) + k : k \in 1 .. m} = n - m + 1 .. n
<1>1. ASSUME NEW x \in n - m + 1 .. n PROVE \E k \in 1 .. m : x = (n - m) + k
  <2>1. x - (n - m) \in 1 .. m /\ x = (n - m) + (x - (n - m))
    OBVIOUS
  <2> QED
    BY <2>1
<1>2. ASSUME NEW k \in 1 .. m PROVE (n - m) + k \in n - m + 1 .. n
  OBVIOUS
<1> QED
  BY <1>1, <1>2

LEMMA ReductionKeeps ==
  ASSUME ContextInv, Compress
  PROVE  ContextInv'
<1>1. /\ stage \in 1 .. Built - 1 /\ stage' = stage + 1 /\ given' = given
      /\ BundleTypes /\ NewestShown /\ GivenUp /\ NothingLeft
      /\ bundle' = IF TooLarge THEN Reduced(stage, bundle) ELSE bundle
  BY DEF Compress, ContextInv, Built, TooLarge
<1>2. /\ stage \in 1 .. 5 /\ stage' \in 1 .. Built
  BY <1>1 DEF Built
<1>3. ToShow' = ToShow
  BY <1>1 DEF ToShow
<1>4. /\ given \in Bundles /\ given.memories \in Nat /\ given.request \in Nat
      /\ Len(given.results) \in Nat
  BY <1>1, BundleTypeOf, LenProperties DEF BundleTypes
<1>5. /\ bundle.results \in Seq(Nat \X Nat) /\ Len(bundle.results) \in Nat
      /\ bundle.artifacts \in Nat /\ bundle.memories \in Nat
      /\ bundle.workspace \in Nat /\ bundle.request \in Nat
  BY <1>1, LenProperties DEF BundleTypes
<1>6. CASE ~TooLarge
  <2>1. bundle' = bundle /\ ~TooLarge'
    BY <1>1, <1>6 DEF TooLarge
  <2>2. BundleTypes' /\ NewestShown'
    BY <1>1, <1>3, <2>1 DEF BundleTypes, NewestShown
  <2>3. GivenUp'
    BY <1>1, <1>2, <1>3, <2>1 DEF GivenUp, FewArtifacts, FewResults, FewFacts
  <2>4. NothingLeft'
    BY <2>1 DEF NothingLeft
  <2> QED
    BY <1>2, <2>2, <2>3, <2>4 DEF ContextInv
<1>7. CASE TooLarge
  <2>0. bundle' = Reduced(stage, bundle)
    BY <1>1, <1>7
  <2> DEFINE Same == /\ bundle'.results = bundle.results
                     /\ bundle'.memories = bundle.memories
                     /\ bundle'.request = bundle.request
  <2>1. CASE stage = 1
    <3>1. bundle' = [bundle EXCEPT !.artifacts = Min({@, 8})] /\ stage' = 2
      BY <1>1, <2>0, <2>1 DEF Reduced
    <3>2. Min({bundle.artifacts, 8}) \in Nat /\ Min({bundle.artifacts, 8}) <= 8
      BY <1>5, LeastIsBelow
    <3>3. BundleTypes' /\ Same /\ bundle'.artifacts <= 8
      BY <1>1, <3>1, <3>2 DEF BundleTypes
    <3>4. NewestShown'
      BY <1>1, <1>3, <3>3 DEF NewestShown
    <3>5. GivenUp'
      BY <1>1, <1>3, <2>1, <3>3 DEF GivenUp
    <3>6. NothingLeft'
      BY <3>1, <3>3 DEF NothingLeft, FewArtifacts
    <3> QED
      BY <1>2, <3>3, <3>4, <3>5, <3>6 DEF ContextInv
  <2>2. CASE stage = 2
    <3>1. bundle' = [bundle EXCEPT !.results = Shortened(@)] /\ stage' = 3
      BY <1>1, <2>0, <2>2 DEF Reduced
    <3>2. /\ Shortened(bundle.results) \in Seq(Nat \X Nat)
          /\ Len(Shortened(bundle.results)) = Len(bundle.results)
          /\ \A k \in 1 .. Len(bundle.results) :
               Shortened(bundle.results)[k][1] = bundle.results[k][1]
      BY <1>5, ShortenedKeeps
    <3>3. /\ BundleTypes' /\ bundle'.results = Shortened(bundle.results)
          /\ bundle'.artifacts = bundle.artifacts /\ bundle'.memories = bundle.memories
          /\ bundle'.request = bundle.request /\ bundle'.workspace = bundle.workspace
      BY <1>1, <3>1, <3>2 DEF BundleTypes
    <3>4. NewestShown'
      BY <1>1, <1>3, <3>2, <3>3 DEF NewestShown
    <3>5. GivenUp'
      BY <1>1, <1>3, <2>2, <3>2, <3>3 DEF GivenUp
    <3>6. NothingLeft'
      BY <1>1, <1>7, <2>2, <3>1, <3>3 DEF NothingLeft, FewArtifacts
    <3> QED
      BY <1>2, <3>3, <3>4, <3>5, <3>6 DEF ContextInv
  <2>3. CASE stage = 3
    <3>1. bundle' = [bundle EXCEPT !.results = Newest(@, 2)] /\ stage' = 4
      BY <1>1, <2>0, <2>3 DEF Reduced
    <3> DEFINE m   == Len(bundle.results)
               few == LastFew(2, m)
    <3>2. /\ few \in 0 .. m
          /\ Newest(bundle.results, 2) \in Seq(Nat \X Nat)
          /\ Len(Newest(bundle.results, 2)) = few
          /\ \A k \in 1 .. few :
               Newest(bundle.results, 2)[k] = bundle.results[(m - few) + k]
      BY <1>5, NewestIsTail
    <3>3. few = IF m <= 2 THEN m ELSE 2
      <4>1. Min({2, m}) = IF 2 <= m THEN 2 ELSE m
        BY <1>5, LeastOfTwo
      <4> QED
        BY <1>5, <4>1 DEF LastFew
    <3>4. few <= 2
      BY <1>5, <3>3
    <3>5. /\ BundleTypes' /\ bundle'.results = Newest(bundle.results, 2)
          /\ bundle'.artifacts = bundle.artifacts /\ bundle'.memories = bundle.memories
          /\ bundle'.request = bundle.request /\ bundle'.workspace = bundle.workspace
      BY <1>1, <3>1, <3>2 DEF BundleTypes
    <3>6. FewArtifacts' /\ FewResults'
      <4>1. bundle'.artifacts <= 8
        BY <1>1, <1>7, <2>3, <3>5 DEF NothingLeft, FewArtifacts
      <4>2. Len(bundle'.results) <= 2
        BY <3>2, <3>4, <3>5
      <4> QED
        BY <4>1, <4>2 DEF FewArtifacts, FewResults
    <3>7. NewestShown'
      <4>1. ASSUME NEW k \in 1 .. few
            PROVE  bundle'.results[k][1] = (Len(given.results) - few) + k
        <5>1. (m - few) + k \in 1 .. m
              /\ (Len(given.results) - m) + ((m - few) + k) = (Len(given.results) - few) + k
          <6> DEFINE n == Len(given.results)
          <6>1. n \in Nat /\ m \in Nat /\ few \in 0 .. m
            BY <1>4, <1>5, <3>2
          <6> HIDE DEF n, m, few
          <6>2. /\ (m - few) + k \in 1 .. m
                /\ (n - m) + ((m - few) + k) = (n - few) + k
            BY <6>1, PlaceInTail
          <6> QED
            BY <6>2 DEF n
        <5>2. bundle.results[(m - few) + k][1] = (Len(given.results) - m) + ((m - few) + k)
          BY <1>1, <5>1 DEF NewestShown
        <5> QED
          BY <3>2, <3>5, <5>1, <5>2
      <4>2. Len(bundle.results)' = few /\ Len(given.results)' = Len(given.results)
        BY <1>1, <3>2, <3>5
      <4>3. /\ ToShow \in 0 .. Len(given.results) /\ m \in 0 .. ToShow
            /\ m < 2 => m = ToShow
        BY <1>1 DEF NewestShown
      <4>4. few \in 0 .. ToShow /\ (few < 2 => few = ToShow)
        <5> DEFINE n == Len(given.results)
        <5>1. n \in Nat /\ m \in Nat /\ ToShow \in 0 .. n /\ m \in 0 .. ToShow
              /\ few \in 0 .. m /\ (m < 2 => m = ToShow)
          BY <1>4, <1>5, <3>2, <4>3
        <5> HIDE DEF n, m, few
        <5>2. CASE m <= 2
          BY <3>3, <5>1, <5>2
        <5>3. CASE m > 2
          BY <3>3, <5>1, <5>3
        <5> QED
          BY <5>1, <5>2, <5>3
      <4> QED
        BY <1>1, <1>3, <4>1, <4>2, <4>3, <4>4 DEF NewestShown
    <3>8. GivenUp'
      BY <1>1, <1>3, <2>3, <3>1, <3>5, <3>6 DEF GivenUp
    <3>9. NothingLeft'
      BY <3>1, <3>6 DEF NothingLeft
    <3> QED
      BY <1>2, <3>5, <3>7, <3>8, <3>9 DEF ContextInv
  <2>4. CASE stage = 4
    <3>1. /\ bundle' = [bundle EXCEPT !.memories = 0, !.workspace = Shorten(@, 4)]
          /\ stage' = 5
      BY <1>1, <2>0, <2>4 DEF Reduced
    <3>2. Shorten(bundle.workspace, 4) \in Nat /\ Shorten(bundle.workspace, 4) <= 4 + Mark
      BY <1>5, ShortenBounds
    <3>3. /\ BundleTypes' /\ bundle'.results = bundle.results
          /\ bundle'.artifacts = bundle.artifacts /\ bundle'.request = bundle.request
          /\ bundle'.memories = 0 /\ bundle'.workspace = Shorten(bundle.workspace, 4)
      <4> DEFINE B == [fixed : Nat, workspace : Nat, memories : Nat,
                       results : Seq(Nat \X Nat), artifacts : Nat, request : Nat]
                 short == Shorten(bundle.workspace, 4)
      <4>1. bundle \in B /\ short \in Nat /\ given' \in Bundles
        BY <1>1, <3>2 DEF BundleTypes
      <4> HIDE DEF short
      <4>2. bundle' = [bundle EXCEPT !.memories = 0, !.workspace = short]
        BY <3>1 DEF short
      <4>3. /\ bundle' \in B /\ bundle'.results = bundle.results
            /\ bundle'.artifacts = bundle.artifacts /\ bundle'.request = bundle.request
            /\ bundle'.memories = 0 /\ bundle'.workspace = short
        BY <4>1, <4>2
      <4> QED
        BY <4>1, <4>3 DEF BundleTypes, short
    <3>4. FewArtifacts' /\ FewResults' /\ FewFacts'
      BY <1>1, <1>7, <2>4, <3>2, <3>3
      DEF NothingLeft, FewArtifacts, FewResults, FewFacts
    <3>5. NewestShown'
      BY <1>1, <1>3, <3>3 DEF NewestShown
    <3>6. GivenUp'
      BY <1>1, <1>3, <2>4, <3>1, <3>3, <3>4 DEF GivenUp
    <3>7. NothingLeft'
      BY <3>1, <3>4 DEF NothingLeft
    <3> QED
      BY <1>2, <3>3, <3>5, <3>6, <3>7 DEF ContextInv
  <2>5. CASE stage = 5
    <3>1. bundle' = [bundle EXCEPT !.request = Shorten(@, 10)] /\ stage' = 6
      BY <1>1, <2>0, <2>5 DEF Reduced
    <3>2. Shorten(bundle.request, 10) \in Nat /\ Shorten(bundle.request, 10) <= 10 + Mark
      BY <1>5, ShortenBounds
    <3>3. /\ BundleTypes' /\ bundle'.results = bundle.results
          /\ bundle'.artifacts = bundle.artifacts /\ bundle'.memories = bundle.memories
          /\ bundle'.workspace = bundle.workspace
          /\ bundle'.request = Shorten(bundle.request, 10)
      BY <1>1, <3>1, <3>2 DEF BundleTypes
    <3>4. FewArtifacts' /\ FewResults' /\ FewFacts'
      BY <1>1, <1>7, <2>5, <3>3 DEF NothingLeft, FewArtifacts, FewResults, FewFacts
    <3>5. NewestShown'
      BY <1>1, <1>3, <3>3 DEF NewestShown
    <3>6. GivenUp'
      BY <1>1, <1>3, <2>5, <3>1, <3>3, <3>4 DEF GivenUp
    <3>7. NothingLeft'
      BY <3>2, <3>3, <3>4 DEF NothingLeft
    <3> QED
      BY <1>2, <3>3, <3>5, <3>6, <3>7 DEF ContextInv
  <2> QED
    BY <1>2, <2>1, <2>2, <2>3, <2>4, <2>5
<1> QED
  BY <1>6, <1>7

(* The context is reduced in the order of what it costs, whatever the       *)
(* budget, the number of results to show and what there is to see: the      *)
(* newest results stay, nothing is given up before what is cheaper, and     *)
(* what is still too large has nothing left to give up (ContextReduced).    *)
THEOREM ContextSpentWell == ContextInit /\ [][ContextNext]_contextVars => []ContextReduced
<1>1. ContextInit => ContextInv
  BY DEF ContextInit, ContextInv
<1>2. ContextInv /\ [ContextNext]_contextVars => ContextInv'
  <2> SUFFICES ASSUME ContextInv, [ContextNext]_contextVars PROVE ContextInv'
    OBVIOUS
  <2>1. CASE Build
    BY <2>1, BuildKeeps
  <2>2. CASE Compress
    BY <2>2, ReductionKeeps
  <2>3. CASE UNCHANGED contextVars
    BY <2>3 DEF contextVars, ContextInv, BundleTypes, NewestShown, GivenUp, NothingLeft,
                TooLarge, ToShow, FewArtifacts, FewResults, FewFacts
  <2> QED
    BY <2>1, <2>2, <2>3 DEF ContextNext
<1>3. ContextInv => ContextReduced
  <2> SUFFICES ASSUME ContextInv, stage = Built PROVE ContextReduced
    BY DEF ContextReduced
  <2> DEFINE n == Len(given.results)
             m == Len(bundle.results)
  <2>1. stage = 6 /\ BundleTypes /\ NewestShown /\ GivenUp /\ NothingLeft
    BY DEF ContextInv, Built
  <2>2. n \in Nat /\ m \in Nat /\ DOMAIN bundle.results = 1 .. m
    BY <2>1, BundleTypeOf, LenProperties DEF BundleTypes
  <2>3. /\ ToShow \in 0 .. n /\ m \in 0 .. ToShow /\ (m < 2 => m = ToShow)
        /\ \A k \in 1 .. m : bundle.results[k][1] = (n - m) + k
    BY <2>1 DEF NewestShown
  <2>4. Places(bundle) = n - m + 1 .. n
    <3>1. Places(bundle) = {(n - m) + k : k \in 1 .. m}
      BY <2>2, <2>3 DEF Places
    <3>2. {(n - m) + k : k \in 1 .. m} = n - m + 1 .. n
      <4>1. n \in Nat /\ m \in 0 .. n
        BY <2>2, <2>3
      <4> HIDE DEF n, m
      <4> QED
        BY <4>1, PlacesOfTail
    <3> QED
      BY <3>1, <3>2
  <2>5. m >= Min({2, ToShow})
    <3>1. Min({2, ToShow}) = IF 2 <= ToShow THEN 2 ELSE ToShow
      BY <2>2, <2>3, LeastOfTwo
    <3> QED
      BY <2>2, <2>3, <3>1
  <2>6. m < ToShow => FewArtifacts
    BY <2>1 DEF GivenUp
  <2>7. /\ bundle.memories < Min({5, given.memories}) => FewArtifacts /\ FewResults
        /\ bundle.request < given.request => FewArtifacts /\ FewResults /\ FewFacts
    BY <2>1 DEF GivenUp
  <2>8. Size(bundle) > Budget =>
          FewArtifacts /\ FewResults /\ FewFacts /\ bundle.request <= 10 + Mark
    BY <2>1 DEF NothingLeft, TooLarge
  <2> QED
    BY <2>4, <2>5, <2>6, <2>7, <2>8 DEF ContextReduced, ToShow
<1> QED
  BY <1>1, <1>2, <1>3, PTL

=============================================================================
