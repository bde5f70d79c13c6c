---------------------------- MODULE AttemptsProofs ----------------------------
(***************************************************************************)
(* Attempts, for every number of tasks, agents, backends and providers,    *)
(* every pinning, every chain and every limit.                             *)
(***************************************************************************)
EXTENDS Attempts, TLAPS, FiniteSetTheorems

One(b) == IF b THEN 1 ELSE 0

(* What one task uses of r. *)
Mine(h, r) == One(h.agent = r) + One(h.backend = r) + One(h.provider = r)

(***************************************************************************)
(* What holds of each task by itself: where its runner is tells what it    *)
(* has acquired; a pin is the submitted one and ends with the first        *)
(* excluded agent; nothing excluded is in use; and failover can still      *)
(* reach the providers that work.                                          *)
(***************************************************************************)
HoldFits(t) ==
  /\ hold[t].agent \notin routing[t].noAgents
  /\ hold[t].backend \notin routing[t].noBackends
  /\ stage[t] \in {"ready", "reviewing", "ended"} => hold[t] = Nothing
  /\ stage[t] \in {"started", "working", "calling"} => hold[t].agent \in Agents
  /\ stage[t] \in {"started", "working"} => hold[t].provider = None
  /\ stage[t] = "started" => hold[t].backend = None
  /\ stage[t] \in {"working", "calling"} => hold[t].backend \in Backends
  /\ stage[t] = "calling" => hold[t].provider \in Providers

PinEnds(t) ==
  /\ routing[t].forced \in {None, Pinned[t]}
  /\ routing[t].forced # None => routing[t].noAgents = {}

Reaches(t) ==
  stage[t] = "calling" =>
    (\A p \in Reliable \cap (Local \cup Fallbacks) : p \in left[t] \cup {hold[t].provider})

TaskInv == \A t \in Tasks : HoldFits(t) /\ PinEnds(t) /\ Reaches(t)

(* Only providers are ever rate limited, and a backend that does not fail  *)
(* by itself is not marked.                                                *)
HealthInv ==
  /\ limited \subseteq Providers
  /\ \A b \in Backends \ (Failing \cup Providers) : stats[b].state # "unhealthy"

IInv == TypeOK /\ SlotsBalanced /\ TaskInv /\ HealthInv /\ AgentNotOverbooked

LEMMA MoveOne ==
  ASSUME NEW S \in SUBSET Tasks, NEW T \in SUBSET Tasks, NEW t, S \ {t} = T \ {t}
  PROVE  /\ Cardinality(S) \in Nat /\ Cardinality(T) \in Nat
         /\ Cardinality(T) + One(t \in S) = Cardinality(S) + One(t \in T)
         /\ One(t \in S) <= Cardinality(S)
<1>1. IsFiniteSet(S) /\ IsFiniteSet(T)
  BY ResourcesAssumption, FS_Subset DEF ResourcesAssumption
<1>2. Cardinality(S) \in Nat /\ Cardinality(T) \in Nat
  BY <1>1, FS_CardinalityType
<1>3. /\ Cardinality(S \ {t}) = IF t \in S THEN Cardinality(S) - 1 ELSE Cardinality(S)
      /\ IsFiniteSet(S \ {t})
  BY <1>1, FS_RemoveElement
<1>4. Cardinality(T \ {t}) = IF t \in T THEN Cardinality(T) - 1 ELSE Cardinality(T)
  BY <1>1, FS_RemoveElement
<1>5. Cardinality(S \ {t}) \in Nat
  BY <1>3, FS_CardinalityType
<1> QED
  BY <1>2, <1>3, <1>4, <1>5, SMT DEF One

(* The slots stay balanced when one task exchanges what it holds and the   *)
(* counts follow.                                                          *)
LEMMA Exchange ==
  ASSUME TypeOK, SlotsBalanced, NEW t \in Tasks, NEW h \in Holding,
         hold' = [hold EXCEPT ![t] = h],
         \A r \in Resources : active'[r] + Mine(hold[t], r) = active[r] + Mine(h, r),
         active' \in [Resources -> Nat]
  PROVE  SlotsBalanced'
<1> SUFFICES ASSUME NEW r \in Resources
             PROVE  active'[r] = Cardinality(AgentUsers(r)') + Cardinality(BackendUsers(r)')
                                   + Cardinality(ProviderUsers(r)')
  BY DEF SlotsBalanced
<1>1. hold \in [Tasks -> Holding] /\ active[r] \in Nat /\ active'[r] \in Nat
  BY DEF TypeOK
<1>2. \A u \in Tasks : hold'[u] = IF u = t THEN h ELSE hold[u]
  BY <1>1
<1>3. /\ Cardinality(AgentUsers(r)) \in Nat /\ Cardinality(AgentUsers(r)') \in Nat
      /\ Cardinality(AgentUsers(r)') + One(hold[t].agent = r)
           = Cardinality(AgentUsers(r)) + One(h.agent = r)
  <2>1. AgentUsers(r) \ {t} = AgentUsers(r)' \ {t}
    BY <1>2 DEF AgentUsers
  <2>2. (t \in AgentUsers(r) <=> hold[t].agent = r) /\ (t \in AgentUsers(r)' <=> h.agent = r)
    BY <1>2 DEF AgentUsers
  <2>3. AgentUsers(r) \in SUBSET Tasks /\ AgentUsers(r)' \in SUBSET Tasks
    BY DEF AgentUsers
  <2> QED
    BY <2>1, <2>2, <2>3, MoveOne DEF One
<1>4. /\ Cardinality(BackendUsers(r)) \in Nat /\ Cardinality(BackendUsers(r)') \in Nat
      /\ Cardinality(BackendUsers(r)') + One(hold[t].backend = r)
           = Cardinality(BackendUsers(r)) + One(h.backend = r)
  <2>1. BackendUsers(r) \ {t} = BackendUsers(r)' \ {t}
    BY <1>2 DEF BackendUsers
  <2>2. (t \in BackendUsers(r) <=> hold[t].backend = r) /\ (t \in BackendUsers(r)' <=> h.backend = r)
    BY <1>2 DEF BackendUsers
  <2>3. BackendUsers(r) \in SUBSET Tasks /\ BackendUsers(r)' \in SUBSET Tasks
    BY DEF BackendUsers
  <2> QED
    BY <2>1, <2>2, <2>3, MoveOne DEF One
<1>5. /\ Cardinality(ProviderUsers(r)) \in Nat /\ Cardinality(ProviderUsers(r)') \in Nat
      /\ Cardinality(ProviderUsers(r)') + One(hold[t].provider = r)
           = Cardinality(ProviderUsers(r)) + One(h.provider = r)
  <2>1. ProviderUsers(r) \ {t} = ProviderUsers(r)' \ {t}
    BY <1>2 DEF ProviderUsers
  <2>2. (t \in ProviderUsers(r) <=> hold[t].provider = r) /\ (t \in ProviderUsers(r)' <=> h.provider = r)
    BY <1>2 DEF ProviderUsers
  <2>3. ProviderUsers(r) \in SUBSET Tasks /\ ProviderUsers(r)' \in SUBSET Tasks
    BY DEF ProviderUsers
  <2> QED
    BY <2>1, <2>2, <2>3, MoveOne DEF One
<1>6. active[r] = Cardinality(AgentUsers(r)) + Cardinality(BackendUsers(r))
                    + Cardinality(ProviderUsers(r))
  BY DEF SlotsBalanced
<1>7. active'[r] + Mine(hold[t], r) = active[r] + Mine(h, r)
  OBVIOUS
<1>8. /\ active'[r] + (One(hold[t].agent = r) + One(hold[t].backend = r) + One(hold[t].provider = r))
           = active[r] + (One(h.agent = r) + One(h.backend = r) + One(h.provider = r))
  BY <1>7 DEF Mine
<1>9. /\ One(hold[t].agent = r) \in Nat /\ One(h.agent = r) \in Nat
      /\ One(hold[t].backend = r) \in Nat /\ One(h.backend = r) \in Nat
      /\ One(hold[t].provider = r) \in Nat /\ One(h.provider = r) \in Nat
  BY DEF One
<1> HIDE DEF One
<1> QED
  BY <1>1, <1>3, <1>4, <1>5, <1>6, <1>8, <1>9

(* What a task uses has been counted. *)
LEMMA Counted ==
  ASSUME TypeOK, SlotsBalanced, NEW t \in Tasks, NEW r \in Resources
  PROVE  /\ Mine(hold[t], r) <= active[r]
         /\ Cardinality(AgentUsers(r)) \in Nat
         /\ Cardinality(AgentUsers(r)) <= active[r]
<1>1. /\ Cardinality(AgentUsers(r)) \in Nat
      /\ One(hold[t].agent = r) <= Cardinality(AgentUsers(r))
  BY MoveOne DEF AgentUsers, One
<1>2. /\ Cardinality(BackendUsers(r)) \in Nat
      /\ One(hold[t].backend = r) <= Cardinality(BackendUsers(r))
  BY MoveOne DEF BackendUsers, One
<1>3. /\ Cardinality(ProviderUsers(r)) \in Nat
      /\ One(hold[t].provider = r) <= Cardinality(ProviderUsers(r))
  BY MoveOne DEF ProviderUsers, One
<1>4. active[r] = Cardinality(AgentUsers(r)) + Cardinality(BackendUsers(r))
                    + Cardinality(ProviderUsers(r))
  BY DEF SlotsBalanced
<1> QED
  BY <1>1, <1>2, <1>3, <1>4 DEF Mine, One
-----------------------------------------------------------------------------
(* A step of t's runner leaves the others alone, and at most lets t's      *)
(* agent go.                                                               *)
OthersKeep(t) ==
  \A u \in Tasks \ {t} : /\ stage'[u] = stage[u] /\ hold'[u] = hold[u]
                          /\ routing'[u] = routing[u] /\ left'[u] = left[u]

LEMMA OneTask ==
  ASSUME TaskInv, NEW t \in Tasks, OthersKeep(t), HoldFits(t)', PinEnds(t)', Reaches(t)'
  PROVE  TaskInv'
<1> SUFFICES ASSUME NEW u \in Tasks
             PROVE  HoldFits(u)' /\ PinEnds(u)' /\ Reaches(u)'
  BY DEF TaskInv
<1>1. CASE u = t
  BY <1>1
<1>2. CASE u # t
  <2>1. stage'[u] = stage[u] /\ hold'[u] = hold[u] /\ routing'[u] = routing[u] /\ left'[u] = left[u]
    BY <1>2 DEF OthersKeep
  <2>2. HoldFits(u) /\ PinEnds(u) /\ Reaches(u)
    BY DEF TaskInv
  <2>3. HoldFits(u)'
    BY <2>1, <2>2 DEF HoldFits
  <2>4. PinEnds(u)'
    BY <2>1, <2>2 DEF PinEnds
  <2>5. Reaches(u)'
    BY <2>1, <2>2 DEF Reaches
  <2> QED
    BY <2>3, <2>4, <2>5
<1> QED
  BY <1>1, <1>2

LEMMA AgentsLeft ==
  ASSUME AgentNotOverbooked, \A u \in Tasks : hold'[u].agent \in {None, hold[u].agent}
  PROVE  AgentNotOverbooked'
<1> SUFFICES ASSUME NEW a \in Agents, MaxConcurrency[a] > 0, \A t \in Tasks : Pinned[t] # a
             PROVE  Cardinality(AgentUsers(a)') <= MaxConcurrency[a]
  BY DEF AgentNotOverbooked
<1>1. a # None
  BY ResourcesAssumption DEF ResourcesAssumption, Resources
<1>2. AgentUsers(a)' \in SUBSET AgentUsers(a)
  BY <1>1 DEF AgentUsers
<1>3. IsFiniteSet(AgentUsers(a))
  BY ResourcesAssumption, FS_Subset DEF ResourcesAssumption, AgentUsers
<1>4. /\ Cardinality(AgentUsers(a)') <= Cardinality(AgentUsers(a))
      /\ IsFiniteSet(AgentUsers(a)')
  BY <1>2, <1>3, FS_Subset
<1>5. Cardinality(AgentUsers(a)') \in Nat /\ Cardinality(AgentUsers(a)) \in Nat
  BY <1>3, <1>4, FS_CardinalityType
<1>6. Cardinality(AgentUsers(a)) <= MaxConcurrency[a]
  BY DEF AgentNotOverbooked
<1>7. MaxConcurrency[a] \in Nat
  BY ResourcesAssumption DEF ResourcesAssumption
<1> QED
  BY <1>4, <1>5, <1>6, <1>7

(* What a repair leaves behind, or the end of the task. *)
LEMMA RepairEffect ==
  ASSUME TypeOK, NEW t \in Tasks, Repaired(t, routing[t])
  PROVE  /\ stage' \in [Tasks -> Stage] /\ used' \in [Tasks -> SUBSET Strategies]
         /\ routing' \in [Tasks -> Routing]
         /\ stage'[t] \in {"ready", "ended"}
         /\ \A u \in Tasks \ {t} : stage'[u] = stage[u] /\ routing'[u] = routing[u]
         /\ routing'[t].forced \in {None, routing[t].forced}
         /\ routing'[t].forced # None => routing'[t].noAgents = routing[t].noAgents
<1>1. /\ routing \in [Tasks -> Routing] /\ stage \in [Tasks -> Stage]
      /\ used \in [Tasks -> SUBSET Strategies] /\ routing[t] \in Routing
  BY DEF TypeOK
<1>2. CASE routing' = [routing EXCEPT ![t] = routing[t]] /\ stage' = [stage EXCEPT ![t] = "ended"]
             /\ used' = used
  BY <1>1, <1>2 DEF Stage
<1>3. ASSUME NEW s \in Strategies, NEW after \in Applied(s, routing[t]),
             stage' = [stage EXCEPT ![t] = "ready"], used' = [used EXCEPT ![t] = @ \cup {s}],
             routing' = [routing EXCEPT ![t] = after]
      PROVE  /\ stage' \in [Tasks -> Stage] /\ used' \in [Tasks -> SUBSET Strategies]
             /\ routing' \in [Tasks -> Routing]
             /\ stage'[t] \in {"ready", "ended"}
             /\ \A u \in Tasks \ {t} : stage'[u] = stage[u] /\ routing'[u] = routing[u]
             /\ routing'[t].forced \in {None, routing[t].forced}
             /\ routing'[t].forced # None => routing'[t].noAgents = routing[t].noAgents
  <2> DEFINE r == routing[t]
  <2>1. /\ after \in Routing
        /\ after.forced \in {None, r.forced}
        /\ after.forced # None => after.noAgents = r.noAgents
    <3>1. s \in {"RETRY", "CHANGE_AGENT", "CHANGE_PROVIDER", "CHANGE_BACKEND"}
      BY ResourcesAssumption DEF ResourcesAssumption
    <3>2. CASE s = "RETRY"
      BY <1>1, <1>3, <3>2 DEF Applied
    <3>3. CASE s = "CHANGE_AGENT"
      <4>1. after = [r EXCEPT !.noAgents = @ \cup ({r.assigned} \ {None}), !.forced = None]
        BY <1>3, <3>3 DEF Applied, AfterChangeAgent
      <4> QED
        BY <1>1, <4>1 DEF Routing
    <3>4. CASE s = "CHANGE_PROVIDER"
      <4> DEFINE current == Or(r.provider, IF r.assigned = None THEN None ELSE ProviderOf[r.assigned])
                 avoid == r.noProviders \cup ({current} \ {None})
                 others == {p \in Providers \ avoid : Usable(stats', limited', p)}
      <4>1. PICK p \in FirstOr(others, None) : after = [r EXCEPT !.noProviders = avoid, !.provider = p]
        BY <1>3, <3>4 DEF Applied, AfterChangeProvider
      <4>2. p \in Providers \cup {None}
        BY <4>1 DEF FirstOr, Earliest
      <4>3. current \in Providers \cup {None}
        BY <1>1, ResourcesAssumption DEF ResourcesAssumption, Routing, Or
      <4> HIDE DEF current, others
      <4> QED
        BY <1>1, <4>1, <4>2, <4>3 DEF Routing
    <3>5. CASE s = "CHANGE_BACKEND"
      <4> DEFINE current == Or(r.backend, IF r.assigned = None THEN None ELSE BackendOf[r.assigned])
                 avoid == r.noBackends \cup ({current} \ {None})
      <4>1. PICK b \in FirstOr(Backends \ avoid, None) : after = [r EXCEPT !.noBackends = avoid, !.backend = b]
        BY <1>3, <3>5 DEF Applied, AfterChangeBackend
      <4>2. b \in Backends \cup {None}
        BY <4>1 DEF FirstOr, Earliest
      <4>3. current \in Backends \cup {None}
        BY <1>1, ResourcesAssumption DEF ResourcesAssumption, Routing, Or
      <4> HIDE DEF current
      <4> QED
        BY <1>1, <4>1, <4>2, <4>3 DEF Routing
    <3> QED
      BY <3>1, <3>2, <3>3, <3>4, <3>5
  <2> QED
    BY <1>1, <1>3, <2>1 DEF Stage
<1> QED
  BY <1>2, <1>3 DEF Repaired

(* A task that leaves gives back everything it has, and nothing else. *)
LEMMA LeaveEffect ==
  ASSUME TypeOK, SlotsBalanced, NEW t \in Tasks, LeaveAll(t)
  PROVE  /\ hold' \in [Tasks -> Holding] /\ active' \in [Resources -> Nat]
         /\ left' \in [Tasks -> SUBSET Providers] /\ next' \in [Tasks -> Providers \cup {None}]
         /\ calls' \in [Tasks -> 0..MaxCalls]
         /\ hold'[t] = Nothing
         /\ \A u \in Tasks \ {t} : hold'[u] = hold[u] /\ left'[u] = left[u]
         /\ SlotsBalanced'
<1> DEFINE d1 == Drop(active, hold[t].provider)
           d2 == Drop(d1, hold[t].backend)
           d3 == Drop(d2, hold[t].agent)
<1>1. /\ hold \in [Tasks -> Holding] /\ active \in [Resources -> Nat]
      /\ hold[t] \in Holding /\ Nothing \in Holding
  BY DEF TypeOK, Holding, Nothing
<1>2. ASSUME NEW f \in [Resources -> Nat], NEW x \in Resources \cup {None}
      PROVE  /\ Drop(f, x) \in [Resources -> Nat]
             /\ \A r \in Resources : f[r] >= One(x = r) => Drop(f, x)[r] + One(x = r) = f[r]
  <2>1. None \notin Resources
    BY ResourcesAssumption DEF ResourcesAssumption
  <2> QED
    BY <2>1 DEF Drop, Release, One
<1>3. /\ hold[t].provider \in Resources \cup {None} /\ hold[t].backend \in Resources \cup {None}
      /\ hold[t].agent \in Resources \cup {None}
  BY <1>1 DEF Holding, Resources
<1>4. d1 \in [Resources -> Nat] /\ d2 \in [Resources -> Nat] /\ d3 \in [Resources -> Nat]
  <2>1. d1 \in [Resources -> Nat]
    BY <1>1, <1>2, <1>3
  <2> HIDE DEF d1
  <2>2. d2 \in [Resources -> Nat]
    BY <1>2, <1>3, <2>1
  <2> HIDE DEF d2
  <2>3. d3 \in [Resources -> Nat]
    BY <1>2, <1>3, <2>2
  <2> QED
    BY <2>1, <2>2, <2>3
<1>5. active' = d3 /\ hold' = [hold EXCEPT ![t] = Nothing]
  BY DEF LeaveAll
<1>6. \A r \in Resources : active'[r] + Mine(hold[t], r) = active[r] + Mine(Nothing, r)
  <2> SUFFICES ASSUME NEW r \in Resources
               PROVE  d3[r] + Mine(hold[t], r) = active[r] + Mine(Nothing, r)
    BY <1>5
  <2>1. /\ One(hold[t].provider = r) \in Nat /\ One(hold[t].backend = r) \in Nat
        /\ One(hold[t].agent = r) \in Nat
    BY DEF One
  <2>2. active[r] >= One(hold[t].agent = r) + One(hold[t].backend = r) + One(hold[t].provider = r)
    BY Counted, <1>1, <2>1 DEF Mine
  <2>3. active[r] \in Nat /\ d1[r] \in Nat /\ d2[r] \in Nat /\ d3[r] \in Nat
    BY <1>1, <1>4
  <2>4. active[r] >= One(hold[t].provider = r) => d1[r] + One(hold[t].provider = r) = active[r]
    BY <1>1, <1>2, <1>3
  <2>5. d1[r] >= One(hold[t].backend = r) => d2[r] + One(hold[t].backend = r) = d1[r]
    BY <1>2, <1>3, <1>4
  <2>6. d2[r] >= One(hold[t].agent = r) => d3[r] + One(hold[t].agent = r) = d2[r]
    BY <1>2, <1>3, <1>4
  <2>7. Mine(Nothing, r) = 0
    BY ResourcesAssumption DEF Mine, One, Nothing, ResourcesAssumption
  <2>8. Mine(hold[t], r) = One(hold[t].agent = r) + One(hold[t].backend = r) + One(hold[t].provider = r)
    BY DEF Mine
  <2> HIDE DEF d1, d2, d3, One, Mine
  <2> QED
    BY <2>1, <2>2, <2>3, <2>4, <2>5, <2>6, <2>7, <2>8
<1>7. SlotsBalanced'
  BY <1>1, <1>4, <1>5, <1>6, Exchange
<1>8. /\ left' \in [Tasks -> SUBSET Providers] /\ next' \in [Tasks -> Providers \cup {None}]
      /\ calls' \in [Tasks -> 0..MaxCalls]
  BY ResourcesAssumption DEF LeaveAll, TypeOK, ResourcesAssumption
<1>9. /\ hold'[t] = Nothing
      /\ \A u \in Tasks \ {t} : hold'[u] = hold[u] /\ left'[u] = left[u]
  BY <1>1 DEF LeaveAll, TypeOK
<1> QED
  BY <1>1, <1>4, <1>5, <1>7, <1>8, <1>9

LEMMA StatsType ==
  ASSUME NEW x \in [ok: Nat, bad: Nat, state: States]
  PROVE  /\ Succeeded(x) \in [ok: Nat, bad: Nat, state: States]
         /\ Failed(x) \in [ok: Nat, bad: Nat, state: States]
         /\ Succeeded(x).state = "unhealthy" => x.state = "unhealthy"
<1>1. Succeeded(x) \in [ok: Nat, bad: Nat, state: States]
  <2> DEFINE now == IF x.state \in {"unknown", "degraded"} THEN "healthy" ELSE x.state
  <2>1. now \in States /\ x.ok + 1 \in Nat
    BY DEF States
  <2>2. Succeeded(x) = [x EXCEPT !.ok = x.ok + 1, !.state = now]
    BY DEF Succeeded
  <2> HIDE DEF now
  <2> QED
    BY <2>1, <2>2
<1>2. Succeeded(x).state = "unhealthy" => x.state = "unhealthy"
  BY DEF Succeeded, States
<1>3. Failed(x) \in [ok: Nat, bad: Nat, state: States]
  <2> DEFINE bad == x.bad + 1
             all == x.ok + bad
             now == IF 4 * bad >= 3 * all /\ bad >= 3 THEN "unhealthy"
                      ELSE IF 5 * bad >= 2 * all THEN "degraded" ELSE x.state
  <2>1. bad \in Nat /\ now \in States
    BY DEF States
  <2>2. Failed(x) = [x EXCEPT !.bad = bad, !.state = now]
    BY DEF Failed
  <2> HIDE DEF bad, now
  <2> QED
    BY <2>1, <2>2
<1> QED
  BY <1>1, <1>2, <1>3

(***************************************************************************)
(* The ways an attempt ends all have this shape: the task leaves, and is   *)
(* repaired, ended or reviewed.                                            *)
(***************************************************************************)
LEMMA LeavingKeeps ==
  ASSUME IInv, NEW t \in Tasks, LeaveAll(t),
         stats' \in [Resources -> [ok: Nat, bad: Nat, state: States]],
         limited' \subseteq Resources, HealthInv',
         \/ Repaired(t, routing[t])
         \/ stage' = [stage EXCEPT ![t] = "reviewing"] /\ UNCHANGED <<routing, used>>
  PROVE  IInv'
<1>1. /\ hold' \in [Tasks -> Holding] /\ active' \in [Resources -> Nat]
      /\ left' \in [Tasks -> SUBSET Providers] /\ next' \in [Tasks -> Providers \cup {None}]
      /\ calls' \in [Tasks -> 0..MaxCalls]
      /\ hold'[t] = Nothing
      /\ \A u \in Tasks \ {t} : hold'[u] = hold[u] /\ left'[u] = left[u]
      /\ SlotsBalanced'
  BY LeaveEffect DEF IInv
<1>2. /\ stage' \in [Tasks -> Stage] /\ used' \in [Tasks -> SUBSET Strategies]
      /\ routing' \in [Tasks -> Routing]
      /\ stage'[t] \in {"ready", "ended", "reviewing"}
      /\ \A u \in Tasks \ {t} : stage'[u] = stage[u] /\ routing'[u] = routing[u]
      /\ routing'[t].forced \in {None, routing[t].forced}
      /\ routing'[t].forced # None => routing'[t].noAgents = routing[t].noAgents
  <2>1. CASE Repaired(t, routing[t])
    BY <2>1, RepairEffect DEF IInv
  <2>2. CASE stage' = [stage EXCEPT ![t] = "reviewing"] /\ UNCHANGED <<routing, used>>
    BY <2>2 DEF IInv, TypeOK, Stage
  <2> QED
    BY <2>1, <2>2
<1>3. TypeOK'
  BY <1>1, <1>2 DEF TypeOK
<1>4. TaskInv'
  <2>1. OthersKeep(t)
    BY <1>1, <1>2 DEF OthersKeep
  <2>2. HoldFits(t)'
    <3>1. routing'[t] \in Routing
      BY <1>2
    <3>2. None \notin routing'[t].noAgents /\ None \notin routing'[t].noBackends
      BY <3>1, ResourcesAssumption DEF Routing, ResourcesAssumption, Resources
    <3> QED
      BY <1>1, <1>2, <3>2 DEF HoldFits, Nothing
  <2>3. PinEnds(t)'
    <3>1. PinEnds(t)
      BY DEF IInv, TaskInv
    <3> QED
      BY <1>2, <3>1 DEF PinEnds
  <2>4. Reaches(t)'
    BY <1>2 DEF Reaches
  <2> QED
    BY <2>1, <2>2, <2>3, <2>4, OneTask DEF IInv
<1>5. AgentNotOverbooked'
  <2>1. \A u \in Tasks : hold'[u].agent \in {None, hold[u].agent}
    BY <1>1 DEF Nothing
  <2> QED
    BY <2>1, AgentsLeft DEF IInv
<1> QED
  BY <1>1, <1>3, <1>4, <1>5 DEF IInv
-----------------------------------------------------------------------------
LEMMA InitHolds == Init => IInv
<1> SUFFICES ASSUME Init
             PROVE  IInv
  OBVIOUS
<1> USE ResourcesAssumption DEF ResourcesAssumption
<1>1. TypeOK
  <2>1. stage \in [Tasks -> Stage] /\ hold \in [Tasks -> Holding] /\ used \in [Tasks -> SUBSET Strategies]
    BY DEF Init, Stage, Holding, Nothing
  <2>2. routing \in [Tasks -> Routing]
    BY DEF Init, Routing
  <2>3. /\ left \in [Tasks -> SUBSET Providers] /\ next \in [Tasks -> Providers \cup {None}]
        /\ calls \in [Tasks -> 0..MaxCalls] /\ active \in [Resources -> Nat] /\ limited \subseteq Resources
    BY DEF Init
  <2>4. stats \in [Resources -> [ok: Nat, bad: Nat, state: States]]
    BY DEF Init, States
  <2> QED
    BY <2>1, <2>2, <2>3, <2>4 DEF TypeOK
<1>2. \A r \in Resources : AgentUsers(r) = {} /\ BackendUsers(r) = {} /\ ProviderUsers(r) = {}
  BY DEF Init, Nothing, AgentUsers, BackendUsers, ProviderUsers
<1>c. Cardinality({}) = 0
  BY FS_EmptySet
<1>3. SlotsBalanced
  <2> SUFFICES ASSUME NEW r \in Resources
               PROVE  active[r] = Cardinality(AgentUsers(r)) + Cardinality(BackendUsers(r))
                                    + Cardinality(ProviderUsers(r))
    BY DEF SlotsBalanced
  <2>1. active[r] = 0
    BY DEF Init
  <2>2. AgentUsers(r) = {} /\ BackendUsers(r) = {} /\ ProviderUsers(r) = {}
    BY <1>2
  <2> QED
    BY <1>c, <2>1, <2>2
<1>4. TaskInv
  BY DEF Init, TaskInv, HoldFits, PinEnds, Reaches, Nothing
<1>5. HealthInv
  BY DEF Init, HealthInv, Resources
<1>6. AgentNotOverbooked
  <2> SUFFICES ASSUME NEW a \in Agents, MaxConcurrency[a] > 0
               PROVE  Cardinality(AgentUsers(a)) <= MaxConcurrency[a]
    BY DEF AgentNotOverbooked
  <2>1. AgentUsers(a) = {}
    BY <1>2 DEF Resources
  <2> QED
    BY <1>c, <2>1
<1> QED
  BY <1>1, <1>3, <1>4, <1>5, <1>6 DEF IInv

LEMMA RouteStep ==
  ASSUME IInv, NEW t \in Tasks, Route(t)
  PROVE  IInv'
<1>1. /\ TypeOK /\ SlotsBalanced /\ TaskInv /\ HealthInv /\ AgentNotOverbooked
      /\ HoldFits(t) /\ PinEnds(t)
  BY DEF IInv, TaskInv
<1>2. stage[t] = "ready" /\ hold[t] = Nothing /\ UNCHANGED <<left, next, calls, stats, limited>>
  BY <1>1 DEF Route, HoldFits
<1>3. HealthInv'
  BY <1>1, <1>2 DEF HealthInv
<1>4. CASE UNCHANGED <<hold, active>> /\ Repaired(t, routing[t])
  <2>1. /\ stage' \in [Tasks -> Stage] /\ used' \in [Tasks -> SUBSET Strategies]
        /\ routing' \in [Tasks -> Routing]
        /\ stage'[t] \in {"ready", "ended"}
        /\ \A u \in Tasks \ {t} : stage'[u] = stage[u] /\ routing'[u] = routing[u]
        /\ routing'[t].forced \in {None, routing[t].forced}
        /\ routing'[t].forced # None => routing'[t].noAgents = routing[t].noAgents
    BY <1>1, <1>4, RepairEffect
  <2>2. TypeOK'
    BY <1>1, <1>2, <1>4, <2>1 DEF TypeOK
  <2>3. SlotsBalanced'
    BY <1>1, <1>4 DEF SlotsBalanced, AgentUsers, BackendUsers, ProviderUsers
  <2>4. TaskInv'
    <3>1. OthersKeep(t)
      BY <1>2, <1>4, <2>1 DEF OthersKeep
    <3>2. None \notin routing'[t].noAgents /\ None \notin routing'[t].noBackends
      <4>1. routing'[t] \in Routing
        BY <2>1
      <4> QED
        BY <4>1, ResourcesAssumption DEF Routing, ResourcesAssumption, Resources
    <3>3. HoldFits(t)' /\ PinEnds(t)' /\ Reaches(t)'
      BY <1>1, <1>2, <1>4, <2>1, <3>2 DEF HoldFits, PinEnds, Reaches, Nothing
    <3> QED
      BY <1>1, <3>1, <3>3, OneTask
  <2>5. AgentNotOverbooked'
    BY <1>1, <1>4 DEF AgentNotOverbooked, AgentUsers
  <2> QED
    BY <1>3, <2>2, <2>3, <2>4, <2>5 DEF IInv
<1>5. ASSUME NEW a \in Choices(t),
             stage' = [stage EXCEPT ![t] = "started"],
             hold' = [hold EXCEPT ![t].agent = a],
             active' = Acquire(active, a),
             routing' = [routing EXCEPT ![t].assigned = a],
             UNCHANGED used
      PROVE  IInv'
  <2>1. a \in Agents
    BY <1>1, ResourcesAssumption DEF Choices, PinEnds, ResourcesAssumption
  <2>2. /\ stage \in [Tasks -> Stage] /\ hold \in [Tasks -> Holding] /\ routing \in [Tasks -> Routing]
        /\ active \in [Resources -> Nat] /\ a \in Resources /\ a # None
    BY <1>1, <2>1, ResourcesAssumption DEF TypeOK, Resources, ResourcesAssumption
  <2> DEFINE h == [Nothing EXCEPT !.agent = a]
  <2>3. h \in Holding /\ hold' = [hold EXCEPT ![t] = h]
    BY <1>2, <1>5, <2>1, <2>2 DEF Holding, Nothing
  <2>4. TypeOK'
    <3>1. stage' \in [Tasks -> Stage] /\ hold' \in [Tasks -> Holding]
      BY <1>5, <2>2, <2>3 DEF Stage
    <3>2. routing' \in [Tasks -> Routing]
      <4>1. [routing[t] EXCEPT !.assigned = a] \in Routing
        BY <2>1, <2>2 DEF Routing
      <4>2. routing' = [routing EXCEPT ![t] = [routing[t] EXCEPT !.assigned = a]]
        BY <1>5
      <4> QED
        BY <2>2, <4>1, <4>2
    <3>3. active' \in [Resources -> Nat]
      BY <1>5, <2>2 DEF Acquire
    <3> QED
      BY <1>1, <1>2, <1>5, <3>1, <3>2, <3>3 DEF TypeOK
  <2>5. \A r \in Resources : active'[r] + Mine(hold[t], r) = active[r] + Mine(h, r)
    BY <1>2, <1>5, <2>2, ResourcesAssumption DEF Acquire, Mine, One, Nothing, ResourcesAssumption
  <2>6. SlotsBalanced'
    <3> HIDE DEF h
    <3> QED
      BY <1>1, <2>3, <2>4, <2>5, Exchange DEF TypeOK
  <2>7. TaskInv'
    <3>1. OthersKeep(t)
      BY <1>2, <1>5, <2>2 DEF OthersKeep
    <3>2. /\ stage'[t] = "started" /\ hold'[t] = h
          /\ routing'[t] = [routing[t] EXCEPT !.assigned = a] /\ routing[t] \in Routing
      BY <1>5, <2>2, <2>3
    <3>3. /\ routing'[t].noAgents = routing[t].noAgents /\ routing'[t].forced = routing[t].forced
          /\ routing'[t].noBackends = routing[t].noBackends /\ None \notin routing[t].noBackends
      BY <3>2, ResourcesAssumption DEF Routing, ResourcesAssumption, Resources
    <3>4. a \notin routing[t].noAgents
      BY <1>1 DEF Choices, Viable, PinEnds
    <3>5. h.agent = a /\ h.backend = None /\ h.provider = None
      BY DEF Nothing
    <3>6. HoldFits(t)' /\ PinEnds(t)' /\ Reaches(t)'
      BY <1>1, <2>1, <3>2, <3>3, <3>4, <3>5 DEF HoldFits, PinEnds, Reaches
    <3> QED
      BY <1>1, <3>1, <3>6, OneTask
  <2>8. AgentNotOverbooked'
    <3> SUFFICES ASSUME NEW b \in Agents, MaxConcurrency[b] > 0, \A u \in Tasks : Pinned[u] # b
                 PROVE  Cardinality(AgentUsers(b)') <= MaxConcurrency[b]
      BY DEF AgentNotOverbooked
    <3>1. Cardinality(AgentUsers(b)) <= MaxConcurrency[b] /\ MaxConcurrency[b] \in Nat /\ b \in Resources
      BY <1>1, ResourcesAssumption DEF AgentNotOverbooked, ResourcesAssumption, Resources
    <3>2. \A u \in Tasks : hold'[u].agent = IF u = t THEN a ELSE hold[u].agent
      BY <1>5, <2>2 DEF Holding
    <3>3. CASE b # a
      <4>1. hold[t].agent = None /\ b # None
        BY <1>2, <2>2, ResourcesAssumption DEF Nothing, ResourcesAssumption, Resources
      <4>2. AgentUsers(b)' = AgentUsers(b)
        BY <3>2, <3>3, <4>1 DEF AgentUsers
      <4> QED
        BY <3>1, <4>2
    <3>4. CASE b = a
      <4>1. routing[t].forced # a
        BY <1>1, <3>4, <2>2 DEF PinEnds
      <4>2. Viable(t, a)
        BY <4>1 DEF Choices
      <4>3. active[a] < MaxConcurrency[a]
        BY <3>4, <4>2 DEF Viable
      <4>4. Cardinality(AgentUsers(a)) \in Nat /\ Cardinality(AgentUsers(a)) <= active[a] /\ active[a] \in Nat
        BY <1>1, <2>2, Counted
      <4>5. AgentUsers(a)' = AgentUsers(a) \cup {t}
        BY <3>2 DEF AgentUsers
      <4>6. IsFiniteSet(AgentUsers(a))
        BY ResourcesAssumption, FS_Subset DEF ResourcesAssumption, AgentUsers
      <4>7. Cardinality(AgentUsers(a)') <= Cardinality(AgentUsers(a)) + 1
        <5>1. Cardinality(AgentUsers(a) \cup {t})
                = IF t \in AgentUsers(a) THEN Cardinality(AgentUsers(a)) ELSE Cardinality(AgentUsers(a)) + 1
          BY <4>6, FS_AddElement
        <5> QED
          BY <4>4, <4>5, <5>1
      <4>8. Cardinality(AgentUsers(a)') \in Nat
        BY <4>5, <4>6, FS_AddElement, FS_CardinalityType
      <4> QED
        BY <3>1, <3>4, <4>3, <4>4, <4>7, <4>8
    <3> QED
      BY <3>3, <3>4
  <2> QED
    BY <1>3, <2>4, <2>6, <2>7, <2>8 DEF IInv
<1> QED
  BY <1>4, <1>5 DEF Route

(***************************************************************************)
(* The steps inside an attempt: t exchanges what it holds for h, and the   *)
(* routing and the agent stay.                                             *)
(***************************************************************************)
LEMMA InsideKeeps ==
  ASSUME IInv, NEW t \in Tasks, NEW h \in Holding,
         hold' = [hold EXCEPT ![t] = h], h.agent = hold[t].agent,
         active' \in [Resources -> Nat],
         \A r \in Resources : active'[r] + Mine(hold[t], r) = active[r] + Mine(h, r),
         stage' \in [Tasks -> Stage], routing' = routing, used' = used,
         left' \in [Tasks -> SUBSET Providers], next' \in [Tasks -> Providers \cup {None}],
         calls' \in [Tasks -> 0..MaxCalls],
         stats' \in [Resources -> [ok: Nat, bad: Nat, state: States]],
         limited' \subseteq Resources, HealthInv', OthersKeep(t), HoldFits(t)', Reaches(t)'
  PROVE  IInv'
<1>1. TypeOK /\ SlotsBalanced /\ TaskInv /\ AgentNotOverbooked /\ hold \in [Tasks -> Holding]
  BY DEF IInv, TypeOK
<1>2. TypeOK'
  BY <1>1 DEF TypeOK
<1>3. SlotsBalanced'
  BY <1>1, Exchange
<1>4. TaskInv'
  <2>1. PinEnds(t)'
    BY <1>1 DEF TaskInv, PinEnds
  <2> QED
    BY <1>1, <2>1, OneTask
<1>5. AgentNotOverbooked'
  <2>1. \A u \in Tasks : hold'[u].agent = hold[u].agent
    BY <1>1
  <2> QED
    BY <1>1, <2>1, AgentsLeft
<1> QED
  BY <1>2, <1>3, <1>4, <1>5 DEF IInv

LEMMA EnterStep ==
  ASSUME IInv, NEW t \in Tasks, Enter(t)
  PROVE  IInv'
<1> DEFINE a == hold[t].agent
           b == BackendFor(t, a)
<1>1. /\ TypeOK /\ HealthInv /\ HoldFits(t)
      /\ hold \in [Tasks -> Holding] /\ stage \in [Tasks -> Stage] /\ routing[t] \in Routing
      /\ active \in [Resources -> Nat]
  BY DEF IInv, TaskInv, TypeOK
<1>2. stage[t] = "started" /\ a \in Agents /\ hold[t].backend = None /\ hold[t].provider = None
      /\ UNCHANGED <<stats, limited>>
  BY <1>1 DEF Enter, HoldFits
<1>3. HealthInv'
  BY <1>1, <1>2 DEF HealthInv
<1>4. b \in Backends /\ ProviderFor(t, a) \in Providers \cup {None}
  BY <1>1, <1>2, ResourcesAssumption DEF BackendFor, ProviderFor, Or, Routing, ResourcesAssumption
<1>5. CASE /\ Admitted(t, b)
           /\ stage' = [stage EXCEPT ![t] = "working"]
           /\ hold' = [hold EXCEPT ![t].backend = b]
           /\ active' = Acquire(active, b)
           /\ next' = [next EXCEPT ![t] = ProviderFor(t, a)]
           /\ UNCHANGED <<routing, used, left, calls>>
  <2> DEFINE h == [hold[t] EXCEPT !.backend = b]
  <2>1. h \in Holding /\ hold' = [hold EXCEPT ![t] = h] /\ h.agent = a /\ h.backend = b /\ h.provider = None
    BY <1>1, <1>2, <1>4, <1>5 DEF Holding
  <2>2. b \in Resources /\ b # None
    BY <1>4, ResourcesAssumption DEF Resources, ResourcesAssumption
  <2>3. active' \in [Resources -> Nat]
    BY <1>1, <1>5, <2>2 DEF Acquire
  <2>4. \A r \in Resources : active'[r] + Mine(hold[t], r) = active[r] + Mine(h, r)
    <3> SUFFICES ASSUME NEW r \in Resources
                 PROVE  active'[r] + Mine(hold[t], r) = active[r] + Mine(h, r)
      OBVIOUS
    <3>1. r # None /\ active[r] \in Nat
      BY <1>1, ResourcesAssumption DEF ResourcesAssumption
    <3>2. active'[r] = active[r] + One(b = r)
      BY <1>1, <1>5, <2>2 DEF Acquire, One
    <3>3. Mine(h, r) = One(hold[t].agent = r) + One(b = r) + One(FALSE)
      BY <2>1, <3>1 DEF Mine, One
    <3>4. Mine(hold[t], r) = One(hold[t].agent = r) + One(FALSE) + One(FALSE)
      BY <1>2, <3>1 DEF Mine, One
    <3> QED
      BY <3>1, <3>2, <3>3, <3>4 DEF One
  <2>5. /\ stage' \in [Tasks -> Stage] /\ next' \in [Tasks -> Providers \cup {None}]
        /\ left' \in [Tasks -> SUBSET Providers] /\ calls' \in [Tasks -> 0..MaxCalls]
        /\ stats' \in [Resources -> [ok: Nat, bad: Nat, state: States]] /\ limited' \subseteq Resources
        /\ stage'[t] = "working" /\ hold'[t] = h /\ routing' = routing /\ used' = used
    BY <1>1, <1>2, <1>4, <1>5, <2>1 DEF TypeOK, Stage
  <2>6. OthersKeep(t)
    BY <1>1, <1>5 DEF OthersKeep
  <2>7. HoldFits(t)' /\ Reaches(t)'
    <3>1. routing' = routing /\ b \notin routing[t].noBackends
      BY <1>5 DEF Admitted
    <3> QED
      BY <1>1, <1>2, <1>4, <2>1, <2>5, <3>1 DEF HoldFits, Reaches
  <2> HIDE DEF h, a, b
  <2>8. h.agent = hold[t].agent
    BY <2>1 DEF a
  <2> QED
    BY <1>3, <2>1, <2>3, <2>4, <2>5, <2>6, <2>7, <2>8, InsideKeeps
<1>6. CASE LeaveAll(t) /\ Repaired(t, routing[t])
  BY <1>1, <1>2, <1>3, <1>6, LeavingKeeps DEF TypeOK
<1> QED
  BY <1>2, <1>5, <1>6 DEF Enter

LEMMA ChainType ==
  ASSUME TypeOK, NEW p \in Providers \cup {None}, NEW q \in ChainHeads(p)
  PROVE  q \in Providers /\ ChainTail(q) \subseteq Providers
BY ResourcesAssumption DEF ChainHeads, ChainTail, FirstOf, Earliest, ResourcesAssumption

LEMMA GenerateStep ==
  ASSUME IInv, NEW t \in Tasks, Generate(t)
  PROVE  IInv'
<1>1. /\ TypeOK /\ HealthInv /\ HoldFits(t)
      /\ hold \in [Tasks -> Holding] /\ stage \in [Tasks -> Stage] /\ left \in [Tasks -> SUBSET Providers]
      /\ active \in [Resources -> Nat] /\ calls \in [Tasks -> 0..MaxCalls]
  BY DEF IInv, TaskInv, TypeOK
<1>2. PICK p \in ChainHeads(next[t]) :
        /\ stage' = [stage EXCEPT ![t] = "calling"]
        /\ hold' = [hold EXCEPT ![t].provider = p]
        /\ active' = Acquire(active, p)
        /\ left' = [left EXCEPT ![t] = ChainTail(p)]
        /\ calls' = [calls EXCEPT ![t] = @ + 1]
  BY DEF Generate
<1>3. /\ stage[t] = "working" /\ calls[t] < MaxCalls /\ UNCHANGED <<routing, used, next, stats, limited>>
      /\ hold[t].provider = None /\ hold[t].backend \in Backends /\ hold[t].agent \in Agents
  BY <1>1 DEF Generate, HoldFits
<1>4. p \in Providers /\ ChainTail(p) \subseteq Providers /\ p \in Resources /\ p # None
  <2>1. next[t] \in Providers \cup {None}
    BY <1>1 DEF TypeOK
  <2> QED
    BY <1>1, <1>2, <2>1, ChainType, ResourcesAssumption DEF Resources, ResourcesAssumption
<1> DEFINE h == [hold[t] EXCEPT !.provider = p]
<1>5. /\ h \in Holding /\ hold' = [hold EXCEPT ![t] = h]
      /\ h.agent = hold[t].agent /\ h.backend = hold[t].backend /\ h.provider = p
  BY <1>1, <1>2, <1>4 DEF Holding
<1>6. active' \in [Resources -> Nat]
  BY <1>1, <1>2, <1>4 DEF Acquire
<1>7. \A r \in Resources : active'[r] + Mine(hold[t], r) = active[r] + Mine(h, r)
  <2> SUFFICES ASSUME NEW r \in Resources
               PROVE  active'[r] + Mine(hold[t], r) = active[r] + Mine(h, r)
    OBVIOUS
  <2>1. r # None /\ active[r] \in Nat
    BY <1>1, ResourcesAssumption DEF ResourcesAssumption
  <2>2. active'[r] = active[r] + One(p = r)
    BY <1>1, <1>2, <1>4 DEF Acquire, One
  <2>3. Mine(h, r) = One(hold[t].agent = r) + One(hold[t].backend = r) + One(p = r)
    BY <1>5 DEF Mine
  <2>4. Mine(hold[t], r) = One(hold[t].agent = r) + One(hold[t].backend = r) + One(FALSE)
    BY <1>3, <2>1 DEF Mine, One
  <2> QED
    BY <2>1, <2>2, <2>3, <2>4 DEF One
<1>8. /\ stage' \in [Tasks -> Stage] /\ next' \in [Tasks -> Providers \cup {None}]
      /\ left' \in [Tasks -> SUBSET Providers] /\ calls' \in [Tasks -> 0..MaxCalls]
      /\ stats' \in [Resources -> [ok: Nat, bad: Nat, state: States]] /\ limited' \subseteq Resources
      /\ stage'[t] = "calling" /\ hold'[t] = h /\ left'[t] = ChainTail(p)
      /\ routing' = routing /\ used' = used
  <2>1. calls[t] + 1 \in 0..MaxCalls
    BY <1>1, <1>3, ResourcesAssumption DEF ResourcesAssumption
  <2> QED
    BY <1>1, <1>2, <1>3, <1>4, <1>5, <2>1 DEF TypeOK, Stage
<1>9. OthersKeep(t)
  BY <1>1, <1>2, <1>3 DEF OthersKeep
<1>10. HoldFits(t)' /\ Reaches(t)' /\ HealthInv'
  <2>1. HoldFits(t)'
    BY <1>1, <1>3, <1>4, <1>5, <1>8 DEF HoldFits
  <2>2. Reaches(t)'
    BY <1>5, <1>8 DEF Reaches, ChainTail
  <2>3. HealthInv'
    BY <1>1, <1>3 DEF HealthInv
  <2> QED
    BY <2>1, <2>2, <2>3
<1> HIDE DEF h
<1> QED
  BY <1>5, <1>6, <1>7, <1>8, <1>9, <1>10, InsideKeeps

LEMMA AnswerStep ==
  ASSUME IInv, NEW t \in Tasks, Answer(t)
  PROVE  IInv'
<1> DEFINE p == hold[t].provider
           h == [hold[t] EXCEPT !.provider = None]
<1>1. /\ TypeOK /\ SlotsBalanced /\ HealthInv /\ HoldFits(t)
      /\ hold \in [Tasks -> Holding] /\ stage \in [Tasks -> Stage] /\ left \in [Tasks -> SUBSET Providers]
      /\ active \in [Resources -> Nat] /\ next \in [Tasks -> Providers \cup {None}]
      /\ stats \in [Resources -> [ok: Nat, bad: Nat, state: States]]
  BY DEF IInv, TaskInv, TypeOK
<1>2. /\ stage[t] = "calling"
      /\ stage' = [stage EXCEPT ![t] = "working"] /\ hold' = [hold EXCEPT ![t].provider = None]
      /\ active' = Release(active, p) /\ stats' = [stats EXCEPT ![p] = Succeeded(@)]
      /\ next' = [next EXCEPT ![t] = p] /\ left' = [left EXCEPT ![t] = {}]
      /\ routing' = routing /\ used' = used /\ calls' = calls /\ limited' = limited
  BY DEF Answer
<1>3. /\ p \in Providers /\ p \in Resources /\ p # None
      /\ hold[t].backend \in Backends /\ hold[t].agent \in Agents
  BY <1>1, <1>2, ResourcesAssumption DEF HoldFits, Resources, ResourcesAssumption
<1>4. /\ h \in Holding /\ hold' = [hold EXCEPT ![t] = h]
      /\ h.agent = hold[t].agent /\ h.backend = hold[t].backend /\ h.provider = None
  BY <1>1, <1>2 DEF Holding
<1>5. active' \in [Resources -> Nat]
  BY <1>1, <1>2, <1>3 DEF Release
<1>6. \A r \in Resources : active'[r] + Mine(hold[t], r) = active[r] + Mine(h, r)
  <2> SUFFICES ASSUME NEW r \in Resources
               PROVE  active'[r] + Mine(hold[t], r) = active[r] + Mine(h, r)
    OBVIOUS
  <2>1. r # None /\ active[r] \in Nat /\ active'[r] \in Nat
    BY <1>1, <1>5, ResourcesAssumption DEF ResourcesAssumption
  <2>2. Mine(hold[t], r) = One(hold[t].agent = r) + One(hold[t].backend = r) + One(p = r)
    BY DEF Mine
  <2>3. Mine(h, r) = One(hold[t].agent = r) + One(hold[t].backend = r) + One(FALSE)
    BY <1>4, <2>1 DEF Mine, One
  <2>4. Mine(hold[t], r) <= active[r]
    BY <1>1, Counted
  <2>5. active[r] > 0 => active'[r] + One(p = r) = active[r]
    BY <1>1, <1>2, <1>3 DEF Release, One
  <2>6. p = r => active[r] > 0
    BY <2>1, <2>2, <2>4 DEF One
  <2>7. p # r => active'[r] = active[r]
    BY <1>1, <1>2, <1>3 DEF Release
  <2> HIDE DEF p
  <2> QED
    BY <2>1, <2>2, <2>3, <2>5, <2>6, <2>7 DEF One
<1>7. /\ stage' \in [Tasks -> Stage] /\ next' \in [Tasks -> Providers \cup {None}]
      /\ left' \in [Tasks -> SUBSET Providers] /\ calls' \in [Tasks -> 0..MaxCalls]
      /\ limited' \subseteq Resources
      /\ stage'[t] = "working" /\ hold'[t] = h
  BY <1>1, <1>2, <1>3, <1>4 DEF TypeOK, Stage
<1>8. stats' \in [Resources -> [ok: Nat, bad: Nat, state: States]]
  <2>1. Succeeded(stats[p]) \in [ok: Nat, bad: Nat, state: States]
    BY <1>1, <1>3, StatsType
  <2> QED
    BY <1>1, <1>2, <2>1
<1>9. HealthInv'
  BY <1>1, <1>2, <1>3 DEF HealthInv, Resources
<1>10. OthersKeep(t) /\ HoldFits(t)' /\ Reaches(t)'
  <2>1. OthersKeep(t)
    BY <1>1, <1>2 DEF OthersKeep
  <2>2. HoldFits(t)' /\ Reaches(t)'
    <3> HIDE DEF h
    <3> QED
      BY <1>1, <1>2, <1>3, <1>4, <1>7 DEF HoldFits, Reaches
  <2> QED
    BY <2>1, <2>2
<1> HIDE DEF h
<1> QED
  BY <1>2, <1>4, <1>5, <1>6, <1>7, <1>8, <1>9, <1>10, InsideKeeps

LEMMA ProviderFailsStep ==
  ASSUME IInv, NEW t \in Tasks, NEW rated \in BOOLEAN, ProviderFails(t, rated)
  PROVE  IInv'
<1> DEFINE p == hold[t].provider
<1>1. /\ TypeOK /\ SlotsBalanced /\ HealthInv /\ HoldFits(t) /\ Reaches(t)
      /\ hold \in [Tasks -> Holding] /\ stage \in [Tasks -> Stage] /\ left \in [Tasks -> SUBSET Providers]
      /\ active \in [Resources -> Nat] /\ limited \subseteq Resources
      /\ stats \in [Resources -> [ok: Nat, bad: Nat, state: States]]
  BY DEF IInv, TaskInv, TypeOK
<1>2. /\ stage[t] = "calling" /\ p \notin Reliable
      /\ stats' = [stats EXCEPT ![p] = Failed(@)]
      /\ limited' = IF rated THEN limited \cup {p} ELSE limited
  BY DEF ProviderFails
<1>3. /\ p \in Providers /\ p \in Resources /\ p # None
      /\ hold[t].backend \in Backends /\ hold[t].agent \in Agents
  BY <1>1, <1>2, ResourcesAssumption DEF HoldFits, Resources, ResourcesAssumption
<1>4. stats' \in [Resources -> [ok: Nat, bad: Nat, state: States]] /\ limited' \subseteq Resources
  <2>1. Failed(stats[p]) \in [ok: Nat, bad: Nat, state: States]
    BY <1>1, <1>3, StatsType
  <2> QED
    BY <1>1, <1>2, <1>3, <2>1
<1>5. HealthInv'
  BY <1>1, <1>2, <1>3 DEF HealthInv, Resources
<1>6. ASSUME NEW q \in FirstOf(left[t]),
             hold' = [hold EXCEPT ![t].provider = q],
             active' = Acquire(Release(active, p), q),
             left' = [left EXCEPT ![t] = @ \ {q}],
             UNCHANGED <<stage, routing, used, next, calls>>
      PROVE  IInv'
  <2> DEFINE h == [hold[t] EXCEPT !.provider = q]
  <2>1. q \in left[t] /\ q \in Providers /\ q \in Resources
    BY <1>1, <1>6 DEF FirstOf, Resources
  <2>2. /\ h \in Holding /\ hold' = [hold EXCEPT ![t] = h]
        /\ h.agent = hold[t].agent /\ h.backend = hold[t].backend /\ h.provider = q
    BY <1>1, <1>6, <2>1 DEF Holding
  <2>3. Release(active, p) \in [Resources -> Nat]
    BY <1>1, <1>3 DEF Release
  <2>4. active' \in [Resources -> Nat]
    BY <1>6, <2>1, <2>3 DEF Acquire
  <2>5. \A r \in Resources : active'[r] + Mine(hold[t], r) = active[r] + Mine(h, r)
    <3> SUFFICES ASSUME NEW r \in Resources
                 PROVE  active'[r] + Mine(hold[t], r) = active[r] + Mine(h, r)
      OBVIOUS
    <3> DEFINE f == Release(active, p)
    <3>1. active[r] \in Nat /\ f[r] \in Nat /\ active'[r] \in Nat
      BY <1>1, <2>3, <2>4
    <3>2. Mine(hold[t], r) = One(hold[t].agent = r) + One(hold[t].backend = r) + One(p = r)
      BY DEF Mine
    <3>3. Mine(h, r) = One(hold[t].agent = r) + One(hold[t].backend = r) + One(q = r)
      BY <2>2 DEF Mine
    <3>4. Mine(hold[t], r) <= active[r]
      BY <1>1, Counted
    <3>5. p = r => active[r] > 0
      BY <3>1, <3>2, <3>4 DEF One
    <3>6. f[r] + One(p = r) = active[r]
      <4>1. CASE p = r
        BY <1>1, <1>3, <3>5, <4>1 DEF Release, One
      <4>2. CASE p # r
        BY <1>1, <1>3, <4>2 DEF Release, One
      <4> QED
        BY <4>1, <4>2
    <3>7. active'[r] = f[r] + One(q = r)
      BY <1>6, <2>1, <2>3 DEF Acquire, One
    <3> HIDE DEF f, p, h
    <3> QED
      BY <3>1, <3>2, <3>3, <3>6, <3>7 DEF One
  <2>6. /\ stage' \in [Tasks -> Stage] /\ next' \in [Tasks -> Providers \cup {None}]
        /\ left' \in [Tasks -> SUBSET Providers] /\ calls' \in [Tasks -> 0..MaxCalls]
        /\ stage'[t] = "calling" /\ hold'[t] = h /\ left'[t] = left[t] \ {q}
        /\ routing' = routing /\ used' = used
    BY <1>1, <1>2, <1>6, <2>2 DEF TypeOK
  <2>7. OthersKeep(t)
    BY <1>1, <1>6 DEF OthersKeep
  <2>8. HoldFits(t)' /\ Reaches(t)'
    <3> HIDE DEF h
    <3>1. HoldFits(t)'
      BY <1>1, <1>2, <1>3, <2>1, <2>2, <2>6 DEF HoldFits
    <3>2. Reaches(t)'
      BY <1>1, <1>2, <2>1, <2>2, <2>6 DEF Reaches
    <3> QED
      BY <3>1, <3>2
  <2> HIDE DEF h
  <2> QED
    BY <1>4, <1>5, <2>2, <2>4, <2>5, <2>6, <2>7, <2>8, InsideKeeps
<1>7. CASE LeaveAll(t) /\ Repaired(t, routing[t])
  BY <1>4, <1>5, <1>7, LeavingKeeps
<1> QED
  BY <1>6, <1>7 DEF ProviderFails

LEMMA CompleteStep ==
  ASSUME IInv, NEW t \in Tasks, Complete(t)
  PROVE  IInv'
<1>1. /\ TypeOK /\ HealthInv /\ HoldFits(t)
      /\ stats \in [Resources -> [ok: Nat, bad: Nat, state: States]] /\ limited \subseteq Resources
  BY DEF IInv, TaskInv, TypeOK
<1>2. hold[t].backend \in Resources
  BY <1>1 DEF Complete, HoldFits, Resources
<1>3. /\ Succeeded(stats[hold[t].backend]) \in [ok: Nat, bad: Nat, state: States]
      /\ Succeeded(stats[hold[t].backend]).state = "unhealthy" => stats[hold[t].backend].state = "unhealthy"
  BY <1>1, <1>2, StatsType
<1>4. stats' = [stats EXCEPT ![hold[t].backend] = Succeeded(@)] /\ limited' = limited
  BY DEF Complete
<1>5. stats' \in [Resources -> [ok: Nat, bad: Nat, state: States]] /\ limited' \subseteq Resources
  BY <1>1, <1>3, <1>4
<1>6. HealthInv'
  BY <1>1, <1>2, <1>3, <1>4 DEF HealthInv, Resources
<1>7. LeaveAll(t) /\ stage' = [stage EXCEPT ![t] = "reviewing"] /\ UNCHANGED <<routing, used>>
  BY DEF Complete
<1> QED
  BY <1>5, <1>6, <1>7, LeavingKeeps

LEMMA BackendRaisesStep ==
  ASSUME IInv, NEW t \in Tasks, BackendRaises(t)
  PROVE  IInv'
<1>1. /\ TypeOK /\ HealthInv /\ HoldFits(t)
      /\ stats \in [Resources -> [ok: Nat, bad: Nat, state: States]] /\ limited \subseteq Resources
  BY DEF IInv, TaskInv, TypeOK
<1>2. hold[t].backend \in Resources /\ hold[t].backend \in Failing
  BY <1>1 DEF BackendRaises, HoldFits, Resources
<1>3. Failed(stats[hold[t].backend]) \in [ok: Nat, bad: Nat, state: States]
  BY <1>1, <1>2, StatsType
<1>4. stats' = [stats EXCEPT ![hold[t].backend] = Failed(@)] /\ limited' = limited
  BY DEF BackendRaises
<1>5. stats' \in [Resources -> [ok: Nat, bad: Nat, state: States]] /\ limited' \subseteq Resources
  BY <1>1, <1>3, <1>4
<1>6. HealthInv'
  BY <1>1, <1>2, <1>4 DEF HealthInv, Resources
<1>7. LeaveAll(t) /\ Repaired(t, routing[t])
  BY DEF BackendRaises
<1> QED
  BY <1>5, <1>6, <1>7, LeavingKeeps

LEMMA InterruptStep ==
  ASSUME IInv, NEW t \in Tasks, Interrupt(t)
  PROVE  IInv'
<1>1. /\ TypeOK /\ HealthInv /\ stats \in [Resources -> [ok: Nat, bad: Nat, state: States]]
      /\ limited \subseteq Resources
  BY DEF IInv, TypeOK
<1>2. LeaveAll(t) /\ limited' = limited
  BY DEF Interrupt
<1>3. CASE /\ hold[t].backend \in Hosting
           /\ stats' = [stats EXCEPT ![hold[t].backend] = Succeeded(@)]
           /\ stage' = [stage EXCEPT ![t] = "reviewing"]
           /\ UNCHANGED <<routing, used>>
  <2>1. hold[t].backend \in Resources
    BY <1>3, ResourcesAssumption DEF Resources, ResourcesAssumption
  <2>2. /\ Succeeded(stats[hold[t].backend]) \in [ok: Nat, bad: Nat, state: States]
        /\ Succeeded(stats[hold[t].backend]).state = "unhealthy" => stats[hold[t].backend].state = "unhealthy"
    BY <1>1, <2>1, StatsType
  <2>3. stats' \in [Resources -> [ok: Nat, bad: Nat, state: States]] /\ limited' \subseteq Resources
    BY <1>1, <1>2, <1>3, <2>2
  <2>4. HealthInv'
    BY <1>1, <1>2, <1>3, <2>1, <2>2 DEF HealthInv, Resources
  <2> QED
    BY <1>2, <1>3, <2>3, <2>4, LeavingKeeps
<1>4. CASE UNCHANGED stats /\ Repaired(t, routing[t])
  <2>1. HealthInv'
    BY <1>1, <1>2, <1>4 DEF HealthInv
  <2> QED
    BY <1>1, <1>2, <1>4, <2>1, LeavingKeeps
<1> QED
  BY <1>3, <1>4 DEF Interrupt

LEMMA ReviewStep ==
  ASSUME IInv, NEW t \in Tasks, Review(t)
  PROVE  IInv'
<1>1. TypeOK /\ SlotsBalanced /\ TaskInv /\ HealthInv /\ AgentNotOverbooked /\ HoldFits(t) /\ PinEnds(t)
  BY DEF IInv, TaskInv
<1>2. /\ stage[t] = "reviewing" /\ Repaired(t, routing[t])
      /\ UNCHANGED <<hold, left, next, calls, active, stats, limited>> /\ hold[t] = Nothing
  BY <1>1 DEF Review, HoldFits
<1>3. /\ stage' \in [Tasks -> Stage] /\ used' \in [Tasks -> SUBSET Strategies]
      /\ routing' \in [Tasks -> Routing]
      /\ stage'[t] \in {"ready", "ended"}
      /\ \A u \in Tasks \ {t} : stage'[u] = stage[u] /\ routing'[u] = routing[u]
      /\ routing'[t].forced \in {None, routing[t].forced}
      /\ routing'[t].forced # None => routing'[t].noAgents = routing[t].noAgents
  BY <1>1, <1>2, RepairEffect
<1>4. TypeOK'
  BY <1>1, <1>2, <1>3 DEF TypeOK
<1>5. SlotsBalanced' /\ HealthInv' /\ AgentNotOverbooked'
  BY <1>1, <1>2 DEF SlotsBalanced, HealthInv, AgentNotOverbooked, AgentUsers, BackendUsers, ProviderUsers
<1>6. TaskInv'
  <2>1. OthersKeep(t)
    BY <1>2, <1>3 DEF OthersKeep
  <2>2. None \notin routing'[t].noAgents /\ None \notin routing'[t].noBackends
    <3>1. routing'[t] \in Routing
      BY <1>3
    <3> QED
      BY <3>1, ResourcesAssumption DEF Routing, ResourcesAssumption, Resources
  <2>3. HoldFits(t)' /\ PinEnds(t)' /\ Reaches(t)'
    BY <1>1, <1>2, <1>3, <2>2 DEF HoldFits, PinEnds, Reaches, Nothing
  <2> QED
    BY <1>1, <2>1, <2>3, OneTask
<1> QED
  BY <1>4, <1>5, <1>6 DEF IInv

LEMMA AbandonStep ==
  ASSUME IInv, NEW t \in Tasks, Abandon(t)
  PROVE  IInv'
<1>1. TypeOK /\ SlotsBalanced /\ TaskInv /\ HealthInv /\ AgentNotOverbooked /\ HoldFits(t) /\ PinEnds(t)
  BY DEF IInv, TaskInv
<1>2. /\ stage[t] = "ready" /\ stage' = [stage EXCEPT ![t] = "ended"] /\ stage \in [Tasks -> Stage]
      /\ UNCHANGED <<hold, routing, used, left, next, calls, active, stats, limited>>
  BY <1>1 DEF Abandon, TypeOK
<1>3. stage' \in [Tasks -> Stage] /\ stage'[t] = "ended" /\ \A u \in Tasks \ {t} : stage'[u] = stage[u]
  BY <1>2 DEF Stage
<1>4. TypeOK' /\ HealthInv'
  BY <1>1, <1>2, <1>3 DEF TypeOK, HealthInv
<1>5. SlotsBalanced' /\ AgentNotOverbooked'
  BY <1>1, <1>2 DEF SlotsBalanced, AgentNotOverbooked, AgentUsers, BackendUsers, ProviderUsers
<1>6. TaskInv'
  <2>1. OthersKeep(t)
    BY <1>2, <1>3 DEF OthersKeep
  <2>2. HoldFits(t)' /\ PinEnds(t)' /\ Reaches(t)'
    BY <1>1, <1>2, <1>3 DEF HoldFits, PinEnds, Reaches
  <2> QED
    BY <1>1, <2>1, <2>2, OneTask
<1> QED
  BY <1>4, <1>5, <1>6 DEF IInv

LEMMA LimitExpiresStep ==
  ASSUME IInv, NEW r \in Resources, LimitExpires(r)
  PROVE  IInv'
<1>1. TypeOK /\ SlotsBalanced /\ TaskInv /\ HealthInv /\ AgentNotOverbooked
  BY DEF IInv
<1>2. limited' = limited \ {r} /\ UNCHANGED <<stage, hold, routing, used, left, next, calls, active, stats>>
  BY DEF LimitExpires
<1>3. TypeOK' /\ HealthInv'
  BY <1>1, <1>2 DEF TypeOK, HealthInv
<1>4. SlotsBalanced' /\ AgentNotOverbooked'
  BY <1>1, <1>2 DEF SlotsBalanced, AgentNotOverbooked, AgentUsers, BackendUsers, ProviderUsers
<1>5. TaskInv'
  BY <1>1, <1>2 DEF TaskInv, HoldFits, PinEnds, Reaches
<1> QED
  BY <1>3, <1>4, <1>5 DEF IInv

LEMMA StutterStep ==
  ASSUME IInv, UNCHANGED vars
  PROVE  IInv'
<1>1. TypeOK /\ SlotsBalanced /\ TaskInv /\ HealthInv /\ AgentNotOverbooked
  BY DEF IInv
<1>2. TypeOK' /\ HealthInv'
  BY <1>1 DEF vars, TypeOK, HealthInv
<1>3. SlotsBalanced' /\ AgentNotOverbooked'
  BY <1>1 DEF vars, SlotsBalanced, AgentNotOverbooked, AgentUsers, BackendUsers, ProviderUsers
<1>4. TaskInv'
  BY <1>1 DEF vars, TaskInv, HoldFits, PinEnds, Reaches
<1> QED
  BY <1>2, <1>3, <1>4 DEF IInv

LEMMA StepHolds ==
  ASSUME IInv, [Next]_vars
  PROVE  IInv'
<1>1. ASSUME NEW t \in Tasks, Runner(t)
      PROVE  IInv'
  BY <1>1, RouteStep, EnterStep, GenerateStep, AnswerStep, ProviderFailsStep, CompleteStep,
     BackendRaisesStep, InterruptStep, ReviewStep DEF Runner
<1>2. ASSUME NEW t \in Tasks, Abandon(t)
      PROVE  IInv'
  BY <1>2, AbandonStep
<1>3. ASSUME NEW r \in Resources, LimitExpires(r)
      PROVE  IInv'
  BY <1>3, LimitExpiresStep
<1>4. CASE AllEnded
  BY <1>4, StutterStep DEF AllEnded
<1>5. CASE UNCHANGED vars
  BY <1>5, StutterStep
<1> QED
  BY <1>1, <1>2, <1>3, <1>4, <1>5 DEF Next

(* The inductive invariant holds in every reachable state. *)
THEOREM AttemptsInductive == Spec => []IInv
<1>1. Init => IInv
  BY InitHolds
<1>2. IInv /\ [Next]_vars => IInv'
  BY StepHolds
<1> QED
  BY <1>1, <1>2, PTL DEF Spec

(* Every variable of Attempts keeps its type. *)
THEOREM AttemptsTypeCorrect == Spec => []TypeOK
<1>1. IInv => TypeOK
  BY DEF IInv
<1> QED
  BY <1>1, AttemptsInductive, PTL

(* However attempts end, in failover, failure, interruption or refusal,    *)
(* HealthRegistry counts exactly the tasks that use a resource.            *)
THEOREM SlotsStayBalanced == Spec => []SlotsBalanced
<1>1. IInv => SlotsBalanced
  BY DEF IInv
<1> QED
  BY <1>1, AttemptsInductive, PTL

(* AgentRouter's check of max_concurrency is enough for agents no task is  *)
(* pinned to, although select and acquire are not one operation.           *)
THEOREM AgentsNeverOverbooked == Spec => []AgentNotOverbooked
<1>1. IInv => AgentNotOverbooked
  BY DEF IInv
<1> QED
  BY <1>1, AttemptsInductive, PTL

(* The two together: capacity is counted exactly and never exceeded.       *)
THEOREM CapacityAlwaysKept == Spec => []CapacityKept
<1>1. IInv => CapacityKept
  BY DEF IInv, CapacityKept
<1> QED
  BY <1>1, AttemptsInductive, PTL

(* What a repair has excluded for a task is not used for it again, also    *)
(* when the task was pinned to it.                                         *)
THEOREM ExclusionsAlwaysHold == Spec => []ExclusionsHold
<1>1. IInv => ExclusionsHold
  BY DEF IInv, TaskInv, HoldFits, ExclusionsHold
<1> QED
  BY <1>1, AttemptsInductive, PTL

(* Neither provider outages nor interruptions make a backend unusable.     *)
THEOREM SoundBackendsStayUsable == Spec => []SoundBackendsUsable
<1>1. IInv => SoundBackendsUsable
  BY DEF IInv, HealthInv, SoundBackendsUsable, Usable
<1> QED
  BY <1>1, AttemptsInductive, PTL

(* generate() does not give up before every local or configured fallback   *)
(* provider that works has been asked.                                     *)
THEOREM FailoverAlwaysReaches == Spec => []FailoverReaches
<1>1. IInv => FailoverReaches
  BY DEF IInv, TaskInv, Reaches, FailoverReaches
<1> QED
  BY <1>1, AttemptsInductive, PTL
=============================================================================
