------------------------------- MODULE Attempts -------------------------------
(***************************************************************************)
(* One attempt after another: Orchestrator._attempt and _apply_repair of   *)
(* airvis/orchestration/orchestrator.py, on the resources all tasks share. *)
(* AgentRouter.select picks an agent, BackendRegistry.execute enters its   *)
(* backend, and a backend that hosts providers calls                       *)
(* ProviderRegistry.generate, which fails over from one to the next.  The  *)
(* HealthRegistry counts who uses what and marks what keeps failing.       *)
(*                                                                         *)
(* Tasks interleave at their awaits: before the backend is entered, around *)
(* provider calls and tools, in the review and in the sleep before a       *)
(* RETRY.  Which strategy a failure calls for is RepairLoop's subject; here *)
(* it is any one not tried before, and those that leave the routing alone  *)
(* are like RETRY, CHANGE_MODEL among them.  Scores and models are open:   *)
(* any agent that passes the filters may win, or none of them may serve    *)
(* the model in force (a repair may have changed it, or the provider       *)
(* behind it) and reach min_score.  An agent's own successes and failures  *)
(* only weigh in its score and are left out.                               *)
(***************************************************************************)
EXTENDS Naturals, FiniteSets

CONSTANTS
  Tasks, Agents, Backends, Providers, None,
  BackendOf, ProviderOf,  \* AgentSpec.backend_id and provider_id, or None
  MaxConcurrency,         \* AgentSpec.max_concurrency, 0 for no limit
  Pinned,                 \* Task.forced_agent_id as submitted, or None
  Hosting,                \* the backends that call providers (native, mcp)
  Fallbacks,              \* ProviderRegistry.fallbacks
  Local,                  \* the providers with local = True
  Rank,                   \* registration order of providers, names of backends
  FallbackRank,           \* the order of Fallbacks
  Reliable,               \* assumption: providers that never fail
  Failing,                \* assumption: backends that fail by themselves
  Strategies,             \* the repairs that may be decided on
  MaxRepairs,             \* RepairConfig.max_repairs_per_task
  MaxCalls                \* AgentSpec.max_iterations

Resources == Agents \cup Backends \cup Providers
States    == {"unknown", "healthy", "degraded", "unhealthy"}
Stage     == {"ready", "started", "working", "calling", "reviewing", "ended"}

ASSUME ResourcesAssumption ==
  /\ IsFiniteSet(Tasks)
  /\ None \notin Resources
  /\ BackendOf \in [Agents -> Backends]
  /\ ProviderOf \in [Agents -> Providers \cup {None}]
  /\ MaxConcurrency \in [Agents -> Nat]
  /\ Pinned \in [Tasks -> Agents \cup {None}]
  /\ Hosting \subseteq Backends /\ Failing \subseteq Backends
  /\ Fallbacks \subseteq Providers /\ Local \subseteq Providers /\ Reliable \subseteq Providers
  /\ Rank \in [Backends \cup Providers -> Nat]
  /\ FallbackRank \in [Fallbacks -> Nat]
  /\ Strategies \subseteq {"RETRY", "CHANGE_AGENT", "CHANGE_PROVIDER", "CHANGE_BACKEND"}
  /\ MaxRepairs \in Nat
  /\ MaxCalls \in Nat \ {0}

VARIABLES
  stage,    \* where the runner of each task is
  hold,     \* what it has acquired, by role
  routing,  \* the task's routing fields
  used,     \* task.attempted_repairs
  left,     \* the rest of the chain of the current generate()
  next,     \* the provider the next generate() starts with
  calls,    \* how often this execution has called generate()
  active,   \* ResourceStats.active_tasks
  stats,    \* ResourceStats.successes, failures and health
  limited   \* the resources whose rate limit has not expired

vars == <<stage, hold, routing, used, left, next, calls, active, stats, limited>>

Nothing == [agent |-> None, backend |-> None, provider |-> None]

Holding ==
  [agent: Agents \cup {None}, backend: Backends \cup {None}, provider: Providers \cup {None}]

Routing ==
  [forced: Agents \cup {None}, assigned: Agents \cup {None},
   backend: Backends \cup {None}, provider: Providers \cup {None},
   noAgents: SUBSET Agents, noBackends: SUBSET Backends, noProviders: SUBSET Providers]

TypeOK ==
  /\ stage \in [Tasks -> Stage]
  /\ hold \in [Tasks -> Holding]
  /\ routing \in [Tasks -> Routing]
  /\ used \in [Tasks -> SUBSET Strategies]
  /\ left \in [Tasks -> SUBSET Providers]
  /\ next \in [Tasks -> Providers \cup {None}]
  /\ calls \in [Tasks -> 0..MaxCalls]
  /\ active \in [Resources -> Nat]
  /\ stats \in [Resources -> [ok: Nat, bad: Nat, state: States]]
  /\ limited \subseteq Resources
-----------------------------------------------------------------------------
(* HealthRegistry.acquire and release *)
Acquire(act, r) == [act EXCEPT ![r] = @ + 1]
Release(act, r) == [act EXCEPT ![r] = IF @ > 0 THEN @ - 1 ELSE 0]

Succeeded(s) ==
  [s EXCEPT !.ok = @ + 1,
            !.state = IF @ \in {"unknown", "degraded"} THEN "healthy" ELSE @]

Failed(s) ==
  LET bad == s.bad + 1
      all == s.ok + bad
  IN  [s EXCEPT !.bad = bad,
                !.state = IF 4 * bad >= 3 * all /\ bad >= 3 THEN "unhealthy"
                          ELSE IF 5 * bad >= 2 * all THEN "degraded" ELSE @]

Usable(st, lim, r) == st[r].state # "unhealthy" /\ r \notin lim

Or(x, y) == IF x # None THEN x ELSE y

(* The backend and the provider of an attempt by agent a. *)
BackendFor(t, a)  == Or(routing[t].backend, BackendOf[a])
ProviderFor(t, a) == Or(routing[t].provider, ProviderOf[a])

(* Mutant: an agent at its limit may still be chosen. *)
ViableAtLimit(t, a) ==
  LET b == BackendFor(t, a)
      p == ProviderFor(t, a)
  IN  /\ a \notin routing[t].noAgents
      /\ b \notin routing[t].noBackends
      /\ p \notin routing[t].noProviders
      /\ Usable(stats, limited, b)
      /\ (p # None => Usable(stats, limited, p))
      /\ (MaxConcurrency[a] > 0 => active[a] <= MaxConcurrency[a])

(* The filters of AgentRouter._score that depend on the run. *)
Viable(t, a) ==
  LET b == BackendFor(t, a)
      p == ProviderFor(t, a)
  IN  /\ a \notin routing[t].noAgents
      /\ b \notin routing[t].noBackends
      /\ p \notin routing[t].noProviders
      /\ Usable(stats, limited, b)
      /\ (p # None => Usable(stats, limited, p))
      /\ (MaxConcurrency[a] > 0 => active[a] < MaxConcurrency[a])

(* AgentRouter.select: a pin overrides every filter. *)
Choices(t) ==
  IF routing[t].forced # None THEN {routing[t].forced} ELSE {a \in Agents : Viable(t, a)}

Earliest(S) == {x \in S : \A y \in S : Rank[x] <= Rank[y]}

FirstOr(S, default) == IF S = {} THEN {default} ELSE Earliest(S)

(* In a chain the fallbacks come in their order, then local providers as   *)
(* registered.                                                             *)
Sooner(p, q) ==
  \/ p \in Fallbacks /\ q \notin Fallbacks
  \/ p \in Fallbacks /\ q \in Fallbacks /\ FallbackRank[p] < FallbackRank[q]
  \/ p \notin Fallbacks /\ q \notin Fallbacks /\ Rank[p] < Rank[q]

FirstOf(S) == {p \in S : \A q \in S \ {p} : Sooner(p, q)}

(***************************************************************************)
(* ProviderRegistry.chain: the first provider, which is the one asked for, *)
(* or a fallback, or the first usable one there is, or just the first; and *)
(* what comes after it.                                                    *)
(***************************************************************************)
ChainHeads(p) ==
  IF p # None THEN {p}
  ELSE IF Fallbacks # {} THEN FirstOf(Fallbacks)
  ELSE LET usable == {q \in Providers : Usable(stats, limited, q)}
       IN  Earliest(IF usable = {} THEN Providers ELSE usable)

(* Mutant: the chain ends with the configured fallbacks. *)
FallbacksOnly(head) == Fallbacks \ {head}

ChainTail(head) == (Fallbacks \cup Local) \ {head}
-----------------------------------------------------------------------------
(* Mutant: the pin survives the change of agent. *)
KeepsPin(r) == {[r EXCEPT !.noAgents = @ \cup ({r.assigned} \ {None})]}

(* Orchestrator._apply_repair for the strategies that change the routing;  *)
(* the candidates are looked at after the failure has been recorded.       *)
AfterChangeAgent(r) ==
  {[r EXCEPT !.noAgents = @ \cup ({r.assigned} \ {None}), !.forced = None]}

AfterChangeProvider(r) ==
  LET current == Or(r.provider, IF r.assigned = None THEN None ELSE ProviderOf[r.assigned])
      avoid == r.noProviders \cup ({current} \ {None})
      others == {p \in Providers \ avoid : Usable(stats', limited', p)}
  IN  {[r EXCEPT !.noProviders = avoid, !.provider = p] : p \in FirstOr(others, None)}

AfterChangeBackend(r) ==
  LET current == Or(r.backend, IF r.assigned = None THEN None ELSE BackendOf[r.assigned])
      avoid == r.noBackends \cup ({current} \ {None})
  IN  {[r EXCEPT !.noBackends = avoid, !.backend = b] : b \in FirstOr(Backends \ avoid, None)}

Applied(s, r) ==
  CASE s = "RETRY"           -> {r}
    [] s = "CHANGE_AGENT"    -> AfterChangeAgent(r)
    [] s = "CHANGE_PROVIDER" -> AfterChangeProvider(r)
    [] s = "CHANGE_BACKEND"  -> AfterChangeBackend(r)

(* The attempt has failed: a repair not tried before is applied to the     *)
(* task's routing r, or the task ends, as it must once the budget is       *)
(* spent.  The next attempt is a step of its own: a RETRY sleeps first.    *)
Repaired(t, r) ==
  \/ /\ stage' = [stage EXCEPT ![t] = "ended"]
     /\ used' = used
     /\ routing' = [routing EXCEPT ![t] = r]
  \/ \E s \in Strategies \ used[t] : \E after \in Applied(s, r) :
       /\ Cardinality(used[t]) < MaxRepairs
       /\ stage' = [stage EXCEPT ![t] = "ready"]
       /\ used' = [used EXCEPT ![t] = @ \cup {s}]
       /\ routing' = [routing EXCEPT ![t] = after]

Init ==
  /\ stage = [t \in Tasks |-> "ready"]
  /\ hold = [t \in Tasks |-> Nothing]
  /\ routing = [t \in Tasks |->
       [forced |-> Pinned[t], assigned |-> None, backend |-> None, provider |-> None,
        noAgents |-> {}, noBackends |-> {}, noProviders |-> {}]]
  /\ used = [t \in Tasks |-> {}]
  /\ left = [t \in Tasks |-> {}]
  /\ next = [t \in Tasks |-> None]
  /\ calls = [t \in Tasks |-> 0]
  /\ active = [r \in Resources |-> 0]
  /\ stats = [r \in Resources |-> [ok |-> 0, bad |-> 0, state |-> "unknown"]]
  /\ limited = {}

(* Mutant: a task no agent can serve waits for one. *)
RouteWaits(t) ==
  /\ stage[t] = "ready"
  /\ UNCHANGED <<left, next, calls, stats, limited>>
  /\ \/ Choices(t) = {} /\ UNCHANGED vars
     \/ \E a \in Choices(t) :
          /\ stage' = [stage EXCEPT ![t] = "started"]
          /\ hold' = [hold EXCEPT ![t].agent = a]
          /\ active' = Acquire(active, a)
          /\ routing' = [routing EXCEPT ![t].assigned = a]
          /\ UNCHANGED used

(* select, up to the await of the backend: an agent is taken, or unless    *)
(* the task is pinned NoAgentAvailableError is raised, which happens when  *)
(* no agent is viable and may happen when none of the viable ones serves   *)
(* the model or scores enough.                                             *)
Route(t) ==
  /\ stage[t] = "ready"
  /\ UNCHANGED <<left, next, calls, stats, limited>>
  /\ \/ /\ routing[t].forced = None
        /\ UNCHANGED <<hold, active>>
        /\ Repaired(t, routing[t])
     \/ \E a \in Choices(t) :
          /\ stage' = [stage EXCEPT ![t] = "started"]
          /\ hold' = [hold EXCEPT ![t].agent = a]
          /\ active' = Acquire(active, a)
          /\ routing' = [routing EXCEPT ![t].assigned = a]
          /\ UNCHANGED used

Drop(act, r) == IF r = None THEN act ELSE Release(act, r)

(* Mutant: a call that is left early keeps the slot of its provider. *)
KeepsProviderSlot(t) ==
  /\ hold' = [hold EXCEPT ![t] = Nothing]
  /\ active' = Drop(Drop(active, hold[t].backend), hold[t].agent)
  /\ left' = [left EXCEPT ![t] = {}]
  /\ next' = [next EXCEPT ![t] = None]
  /\ calls' = [calls EXCEPT ![t] = 0]

(* Everything the attempt has acquired is given back on its way out, and   *)
(* its locals are gone.                                                    *)
LeaveAll(t) ==
  /\ hold' = [hold EXCEPT ![t] = Nothing]
  /\ active' = Drop(Drop(Drop(active, hold[t].provider), hold[t].backend), hold[t].agent)
  /\ left' = [left EXCEPT ![t] = {}]
  /\ next' = [next EXCEPT ![t] = None]
  /\ calls' = [calls EXCEPT ![t] = 0]

(* BackendRegistry.resolve, and execute up to its await: the backend may   *)
(* have become unusable, and a pinned task was never filtered.             *)
Admitted(t, b) == b \notin routing[t].noBackends /\ Usable(stats, limited, b)

Enter(t) ==
  LET a == hold[t].agent
      b == BackendFor(t, a)
  IN  /\ stage[t] = "started"
      /\ UNCHANGED <<stats, limited>>
      /\ \/ /\ Admitted(t, b)
            /\ stage' = [stage EXCEPT ![t] = "working"]
            /\ hold' = [hold EXCEPT ![t].backend = b]
            /\ active' = Acquire(active, b)
            /\ next' = [next EXCEPT ![t] = ProviderFor(t, a)]
            /\ UNCHANGED <<routing, used, left, calls>>
         \/ /\ ~Admitted(t, b)
            /\ LeaveAll(t)
            /\ Repaired(t, routing[t])

(* ProviderRegistry.generate: the first provider is called. *)
Generate(t) ==
  /\ stage[t] = "working"
  /\ hold[t].backend \in Hosting
  /\ calls[t] < MaxCalls
  /\ \E p \in ChainHeads(next[t]) :
       /\ stage' = [stage EXCEPT ![t] = "calling"]
       /\ hold' = [hold EXCEPT ![t].provider = p]
       /\ active' = Acquire(active, p)
       /\ left' = [left EXCEPT ![t] = ChainTail(p)]
       /\ calls' = [calls EXCEPT ![t] = @ + 1]
  /\ UNCHANGED <<routing, used, next, stats, limited>>

(* The provider answers; the next call will start with it. *)
Answer(t) ==
  LET p == hold[t].provider
  IN  /\ stage[t] = "calling"
      /\ stage' = [stage EXCEPT ![t] = "working"]
      /\ hold' = [hold EXCEPT ![t].provider = None]
      /\ active' = Release(active, p)
      /\ stats' = [stats EXCEPT ![p] = Succeeded(@)]
      /\ next' = [next EXCEPT ![t] = p]
      /\ left' = [left EXCEPT ![t] = {}]
      /\ UNCHANGED <<routing, used, calls, limited>>

(* It fails, and the next in the chain is called; or there is none, and    *)
(* ProviderUnavailableError leaves the backend without a mark on it.       *)
ProviderFails(t, rated) ==
  LET p == hold[t].provider
  IN  /\ stage[t] = "calling"
      /\ p \notin Reliable
      /\ stats' = [stats EXCEPT ![p] = Failed(@)]
      /\ limited' = IF rated THEN limited \cup {p} ELSE limited
      /\ \/ \E q \in FirstOf(left[t]) :
              /\ hold' = [hold EXCEPT ![t].provider = q]
              /\ active' = Acquire(Release(active, p), q)
              /\ left' = [left EXCEPT ![t] = @ \ {q}]
              /\ UNCHANGED <<stage, routing, used, next, calls>>
         \/ /\ left[t] = {}
            /\ LeaveAll(t)
            /\ Repaired(t, routing[t])

(* The backend returns a result, good or bad: a success of the backend. *)
Complete(t) ==
  /\ stage[t] = "working"
  /\ hold[t].backend \in Hosting => calls[t] > 0
  /\ stage' = [stage EXCEPT ![t] = "reviewing"]
  /\ LeaveAll(t)
  /\ stats' = [stats EXCEPT ![hold[t].backend] = Succeeded(@)]
  /\ UNCHANGED <<routing, used, limited>>

(* It raises anything but a ProviderError: a tool that fails or is denied, *)
(* a program that is missing, times out or returns nothing.                *)
BackendRaises(t) ==
  /\ stage[t] = "working"
  /\ hold[t].backend \in Failing
  /\ LeaveAll(t)
  /\ stats' = [stats EXCEPT ![hold[t].backend] = Failed(@)]
  /\ UNCHANGED limited
  /\ Repaired(t, routing[t])

(* Mutant: an interrupted execution counts against its backend. *)
InterruptBlames(t) ==
  /\ stage[t] \in {"started", "working", "calling"}
  /\ LeaveAll(t)
  /\ UNCHANGED limited
  /\ IF hold[t].backend \in Hosting
     THEN /\ stats' = [stats EXCEPT ![hold[t].backend] = Failed(@)]
          /\ stage' = [stage EXCEPT ![t] = "reviewing"]
          /\ UNCHANGED <<routing, used>>
     ELSE /\ UNCHANGED stats
          /\ Repaired(t, routing[t])

(***************************************************************************)
(* A CancelledError arrives, from the guard's time-out or a cancel().  A   *)
(* hosting backend turns it into a failed result, so it counts as a        *)
(* success of the backend; anywhere else it unwinds the attempt, which is  *)
(* a time-out to repair or the end of the runner.                          *)
(***************************************************************************)
Interrupt(t) ==
  /\ stage[t] \in {"started", "working", "calling"}
  /\ LeaveAll(t)
  /\ UNCHANGED limited
  /\ IF hold[t].backend \in Hosting
     THEN /\ stats' = [stats EXCEPT ![hold[t].backend] = Succeeded(@)]
          /\ stage' = [stage EXCEPT ![t] = "reviewing"]
          /\ UNCHANGED <<routing, used>>
     ELSE /\ UNCHANGED stats
          /\ Repaired(t, routing[t])

(* The review accepts the result and the task ends, or it does not. *)
Review(t) ==
  /\ stage[t] = "reviewing"
  /\ UNCHANGED <<hold, left, next, calls, active, stats, limited>>
  /\ Repaired(t, routing[t])

(* The workflow has been cancelled before the attempt begins. *)
Abandon(t) ==
  /\ stage[t] = "ready"
  /\ stage' = [stage EXCEPT ![t] = "ended"]
  /\ UNCHANGED <<hold, routing, used, left, next, calls, active, stats, limited>>

(* The 30 seconds after a RateLimitError are over. *)
LimitExpires(r) ==
  /\ r \in limited
  /\ limited' = limited \ {r}
  /\ UNCHANGED <<stage, hold, routing, used, left, next, calls, active, stats>>

AllEnded == (\A t \in Tasks : stage[t] = "ended") /\ UNCHANGED vars

Runner(t) ==
  \/ Route(t)
  \/ Enter(t)
  \/ Generate(t)
  \/ Answer(t)
  \/ \E rated \in BOOLEAN : ProviderFails(t, rated)
  \/ Complete(t)
  \/ BackendRaises(t)
  \/ Interrupt(t)
  \/ Review(t)

Next ==
  \/ \E t \in Tasks : Runner(t)
  \/ \E t \in Tasks : Abandon(t)
  \/ \E r \in Resources : LimitExpires(r)
  \/ AllEnded

Spec == Init /\ [][Next]_vars

(* The guard around an attempt, and the time-outs below it, end every      *)
(* wait.  Nobody has to cancel a workflow.                                 *)
FairSpec == Spec /\ \A t \in Tasks : WF_vars(Runner(t))
-----------------------------------------------------------------------------
(* The tasks that use r, in each role. *)
AgentUsers(r)    == {t \in Tasks : hold[t].agent = r}
BackendUsers(r)  == {t \in Tasks : hold[t].backend = r}
ProviderUsers(r) == {t \in Tasks : hold[t].provider = r}

(***************************************************************************)
(* active_tasks counts exactly the tasks that are at the resource now: no  *)
(* way through failover, failure, interruption or refusal gives a slot     *)
(* back twice or not at all.                                               *)
(***************************************************************************)
SlotsBalanced ==
  \A r \in Resources :
    active[r] = Cardinality(AgentUsers(r)) + Cardinality(BackendUsers(r))
                  + Cardinality(ProviderUsers(r))

(* An agent no task is pinned to never works on more tasks than its        *)
(* max_concurrency allows, although it is chosen by many runners.          *)
AgentNotOverbooked ==
  \A a \in Agents :
    MaxConcurrency[a] > 0 /\ (\A t \in Tasks : Pinned[t] # a) =>
      Cardinality(AgentUsers(a)) <= MaxConcurrency[a]

(* Both: the slots are counted exactly, and what they are counted for holds. *)
CapacityKept == SlotsBalanced /\ AgentNotOverbooked

(* Neither an agent nor a backend that a repair has excluded for a task    *)
(* works on it again, also when the task was pinned to the agent.          *)
ExclusionsHold ==
  \A t \in Tasks : /\ hold[t].agent \notin routing[t].noAgents
                    /\ hold[t].backend \notin routing[t].noBackends

(* "A provider outage must not poison the native backend"                  *)
(* (backends/registry.py:111): a backend that does not fail by itself      *)
(* stays usable, whatever its providers and the time-outs do.              *)
SoundBackendsUsable ==
  \A b \in Backends \ (Failing \cup Providers) : Usable(stats, limited, b)

(* Failover reaches a local provider that works: while it is still to be   *)
(* reached, a call is under way or the provider is left in the chain, so   *)
(* generate() cannot end in ProviderUnavailableError.                      *)
FailoverReaches ==
  \A t \in Tasks :
    stage[t] = "calling" =>
      (\A p \in Reliable \cap (Local \cup Fallbacks) : p \in left[t] \cup {hold[t].provider})

(* Every task comes to an end: chains, calls and repairs are bounded. *)
EveryTaskEnds == \A t \in Tasks : <>(stage[t] = "ended")
=============================================================================
