# A TLA+ model of AIRVIS

AIRVIS takes a request, plans it as a graph of tasks, runs the tasks concurrently on a set of
agents, repairs what fails, reviews the outcome and keeps the state in SQLite so that an
interrupted workflow can be resumed.  This directory holds TLA+ modules translated from
`src/airvis`, the TLC configurations that check them, and TLAPS proofs of what matters most.

`PROJECT.json` lists the components, the runs, the lines every definition stands for (`map`),
the hazards, the findings and the theorems.  Paths below are relative to `src/airvis/`.

## 1. The system

| Component | State | Operations | Interacts with |
|---|---|---|---|
| DAG engine, `orchestration/dag.py` | task table of a `DAGRun`, dict of asyncio handles, `cancelled`, `failed_hard` | `execute`, `cancel`, `add_tasks`, `validate_graph` | calls the orchestrator's `_execute_task` for each node; saves rows |
| Repair loop, `orchestration/repair.py`, `_execute_task` in `orchestrator.py` | `attempted_repairs`, `repair_attempts`, records per workflow | classify, `plan`, `_apply_repair` | each task's runner; `add_tasks` for REPLAN |
| Attempt, `_attempt` in `orchestrator.py` | the task's routing fields | `AgentRouter.select`, `BackendRegistry.execute`, review | health registry, backends |
| Agent routing, `agents/` | registry of `AgentSpec` | `select`, `_score` | reads health |
| Backends, `backends/` | running executions | `resolve`, `execute` of native, MCP, command line | providers, tools, health |
| Providers, `providers/` | registry, fallbacks | `chain`, `generate` | health |
| Health registry, `core/health.py` | counters, health state and rate limit per id | `acquire`, `release`, `record_*`, `is_usable` | shared by all of the above |
| Orchestrator, `orchestration/orchestrator.py` | `_runs`, `_cancelled`, `_repairs`, `_reviews` | `run`, `resume`, `cancel`, `status` | planner, engine, review, store |
| Store, `state/store.py` | rows of workflows, tasks, reviews, artifacts, events | save and load, one transaction each | written by orchestrator and engine |
| Planner, `orchestration/planner.py` | none | plan by rules, plan by a model, replan | providers; `validate_graph`, `add_tasks` |
| Review and triage, `review.py`, `repair.py`, `core/errors.py` | none | seven evaluators, a model's opinion, the verdict; `ErrorAnalyzer` | each attempt, the repair loop |
| Context, `context/manager.py` | none | build, compress | each attempt |
| Permissions and tools, `security/`, `tools/` | grants, rules, child processes | authorize, call | native backend |
| MCP client, `mcp/` | child process, ids, lock | start, request, close | tools |
| Agent OS, `agent_kernel.py`, `agent_os*.py`, `scheduler.py` | jobs, goals, counters, queue directory | enqueue, spawn, cancel, daemon loop, goal loop | orchestrator |
| Runtime facade, `runtime.py`, `sessions.py`, `../web_server.py`, `../websocket_server.py` | default session and its file, chat lock | chat request, run, speak | orchestrator |
| Voice assistant, `../jarvis.py`, `../speech.py`, the two bridges | chosen microphone, clap windows, session lock, engine | listen, record, transcribe, route | orchestrator, other assistants |
| Everything else | files, dicts | command line, set-up, legacy engine | the runtime facade |

**What makes it hard.**  All runners share one event loop and interleave at every `await`; a
running node changes the graph the engine is iterating over; a cancellation reaches runners as an
exception some of them swallow; results arrive after the run has decided to stop; rows are saved
one at a time and saves may fail silently; a process can die between any two of them; several
runners draw on the same repair budget, the same agents' slots and the same health marks.

**What makes each part correct.**

- engine: a task runs only on completed dependencies, with the dependencies it has *after* any
  rewiring; no slot idles while a task is ready; late results change nothing; every run ends,
  and one that ends by itself leaves nothing that could have been started;
- graph validation: accepts exactly the graphs without circles and unknown ids;
- repair: no strategy twice, both budgets kept, nothing begins after a cancellation, every runner
  ends;
- workflow: a cancel ends the run, the verdict agrees with the rows, completed work survives
  crashes and is not repeated;
- attempts: slots are counted exactly, limits and exclusions hold, an outage of a provider harms
  no backend, failover reaches a provider that works, every task ends;
- planner: what it hands over can be run, and says what was asked for;
- review and triage: the verdict goes by evidence, the category of a failure by its class;
- providers: a streamed reply arrives in order and whole, or is known to have failed;
- tools: nothing runs that the gate has not passed, answers are not exchanged, children are reaped
  unless their call is interrupted from outside;
- jobs: one daemon takes a request and answers it at most once, a cancelled job never runs, the
  verdict of a job is that of the goal's last iteration (it does not look at whether the workflow
  behind an answer succeeded, see the run `JobOverruled`);
- assistant: what a client was told is kept; a session begins and ends as it should; it is not deaf
  while a microphone works.

## 2. Modules

| Module | Models | Notes |
|---|---|---|
| `TaskDag` | operators on graphs: dependents, validity, what a failure takes along | constant module |
| `ValidateGraph` | the depth-first search of `validate_graph`, colours and call stack | any set of ids |
| `DagEngine` | `DAGEngine.execute`, `cancel`, `add_tasks` | one run of one graph |
| `TaskGraph` | the contract of the engine: nodes, needs, verdicts | abstract specification |
| `DagRefinement` | `DagEngine` implements `TaskGraph` | `INSTANCE ... WITH` |
| `WorkflowRun` | `run`, `resume`, `cancel`, the rows, crashes | extends `DagEngine` |
| `RepairLoop` | `_execute_task` around `RepairPlanner.plan` | all runners of one workflow |
| `Attempts` | `_attempt`, `_apply_repair`, router, backends, providers, health | all tasks of a process |
| `Planner` | plans by rules and by a model, replan | functions |
| `Admission` | from a plan, a reply or stored rows to an accepted graph | extends `ValidateGraph`, `Planner` |
| `ContextBudget` | `ContextManager.build` and `compress` | sizes of texts |
| `HttpProvider` | `generate` and `stream` of a network provider | worker thread, loop, queue, caller |
| `ReviewGate` | evaluators, scores, blocking issues, verdict | functions |
| `Triage` | `ErrorAnalyzer` and the classes of errors | extends `ReviewGate` |
| `TaskPath` | one attempt from the call to its category | extends `HttpProvider`, `Triage` |
| `McpClient` | one MCP server's pipes, ids, lock, time-outs | all callers of one server |
| `ToolGate` | loop of the native backend, `ToolRegistry`, `PermissionManager`, terminal | extends `McpClient` |
| `AgentKernel` | the loop of a goal: plan, execute, delegate, repair, verify | goals of all kernels |
| `JobQueue` | queue directory, daemons, thread pool, job API | extends `AgentKernel` |
| `RequestQueue` | what the queue directory promises | abstract specification |
| `AgentRuntime` | chat requests, lock, session file, spoken answers | one server, restarts |
| `Voice` | clap detector and voice session | the voice program |
| `Microphone` | the choice of the input device | the voice program's start |
| `MC*` | values of the constants; `MCTaskPath`, `MCParts` put independent parts side by side | TLC only |
| `MCResume` | `WorkflowRun` with a history variable: who has asked for a cancellation since when | TLC only |
| `*Proofs` | the theorems of section 5 | TLAPS |

`MCTaskPath` and `MCParts`, which extends it, run specifications that share no variable in one TLC
run: admission of a plan, contexts, one attempt; microphone, voice session, web server.  In the
program these parts share nothing that is modelled either.  The first three are calls that touch
only what they are given; the microphone is chosen once, before the voice program listens, and only
the device lives on; the voice program is a process of its own next to the web server.  A variable
`part` therefore chooses one of them at the start, so that each is explored on its own and no
interleaving of unrelated steps is counted as coverage.

### DagEngine and the code

`pc` is where `execute()` is.  `top` and what follows it up to `asyncio.wait` is code without an
`await`, so `Launch` (with everything `_ready` returns, in an order by priority that ties leave
open) and `StopRun` are single steps.  `wait` is the `asyncio.wait`; only here, and in the drain
after a stop, can runners move: `RunnerEnds` (a result, a failure, an abort), `RunnerUnwinds` and
`RunnerSwallows` (a cancelled handle gives in, or returns a result all the same), `Replan`.
`Settle(t)` is one turn of the loop over `done`, including `_settle`, the cancelling of dependents
and the saves.  `Cancel` sets the flag from outside at any moment.  `status`, `deps`, `prio`,
`attempts` are the fields of `Task`; `store` holds the rows.  Of the statuses the code declares,
READY and SKIPPED are never assigned and do not occur.  RUNNING is never saved, so the prologue's
treatment of RUNNING rows matters only for rows that cannot exist.

### WorkflowRun and the code

`phase` is where the call is; `StartRun`, `PlanReady`, `PlanFails`, `Begin`, `Rejected`,
`Conclude` are the stretches of `run` and `resume` between awaits; `CancelWorkflow` is
`Orchestrator.cancel`, which may come again, also to an execution whose workflow is in `_cancelled`
from an earlier one.  `Crash` keeps only the rows.  The process may also die between two rows:
`CrashBetweenRows` within a pass of `_cancel_dependents`, which works its way down the graph, or of
`_cancel_remaining`; `CrashWhileSaving` among the rows of a plan; and a save may fail there
(`PlanUnsaved`).  Rows of a plan come in any order, since a model may list a task before what it
depends on; a resume over rows with a missing dependency is turned away by the validation.
`doomed` says that the workflow was in `_cancelled` already when the runners of this execution
arrived.

### RepairLoop and the code

A runner fails with some category, the planner picks the first strategy of the playbook that has
not been tried and passes its filter, the record is written, the strategy is applied: it may
succeed, raise (when a REPLAN cannot be planned or an approval cannot be asked for), or end the
runner.  Playbooks may be overridden by the configuration, also oddly.

### Attempts and the code

`stage` says between which awaits a task's runner is; `hold` what it has acquired; `routing` is
the group of fields of `Task` that repairs write.  `Route` is `select` and the `acquire` of the
agent, which no `await` separates; `Enter` is `resolve` and the `acquire` of the backend, a step
of its own because `asyncio.wait_for` starts the call in a task of its own before Python 3.12
(later versions have fewer behaviours, all of them included).  `Generate`, `Answer` and
`ProviderFails` are the loop of `ProviderRegistry.generate`; `Complete`, `BackendRaises` and
`Interrupt` the ways an execution ends.  The configuration is the default one,
`skip_unhealthy = True`.  Ids of agents, backends and providers share one name space in the health
registry; the model and the proofs allow them to coincide.  `Viable` has the filters that change
while tasks run: exclusions, saturation, the health of backend and provider.  Scores, `min_score`
and the models a provider serves are left open, in both directions: any viable agent may win, and
`Route` may find none good enough even if some are viable, unless the task is pinned.

### Planner, Admission, TaskPath, ContextBudget and the code

`Planner` has no state: `HeuristicPlan` builds the stages that `INTENTS` orders and the final
report, `Parse` reads a model's list of entries as `LLMPlanner` does, with the entries that are
dropped, the default labels, and the pairing of tasks with entries that a dropped entry shifts.
`Admission` draws a graph from a request, from a reply, or from what a store may contain, lets
`ValidateGraph` (unchanged) run on it, and splits a failed task, after which the search runs again.
`TaskPath` makes one call through `HttpProvider`, derives the evidence for `ReviewGate` from how the
call ended, and hands what failed to `Triage`, in the order in which `_attempt` and the branch of
`_execute_task` behind it do.  In `HttpProvider`, `Worker` is the thread that reads the reply,
`LoopTurn` one callback of `call_soon_threadsafe`, `Caller` the asynchronous generator; that the
caller is cancelled or stops asking (`Leave`, `LeaveAtOnce`) is the environment's choice.
`ContextBudget` counts characters in hundreds; `stage` is the number of the next of the reductions
`compress` tries in turn.  `Newest` is Python's `xs[-n:]`, so that `max_previous_results = 0` shows
all results instead of none.

### ToolGate, McpClient and the code

`stage` is where an execution of the native backend is: the tool plan, the provider's rounds, a tool
call with its gate, its run and its record.  The gate is split where the code awaits the approval
handler: `HumanApproves` and `HumanRefuses` are the environment's, and a handler may never answer.
`granted` is the cache of grants, which a REQUEST_APPROVAL repair also writes (`GrantAndRetry`; the
attempt that follows runs the whole tool plan again, with a new count of calls and without the
approvals of the one before).  `CutShort` is the orchestrator's time-out or any cancellation from
outside, `Cancel` is `NativeBackend.cancel`.  `children` counts the processes an execution has
running and `orphans` those an interruption has left behind; these go on next to the children of
later calls and may end by themselves.  In `McpClient`, `Send` is the critical section up to the
write, `Skip` one turn of the reading loop; answers lie in the pipe in the order in which the server
wrote them, and stay there when the caller that wanted them is gone.

### AgentKernel, JobQueue and the code

A goal goes through `PlanGoal`, `StartTask` and `EndTask`, `Evaluate` (which completes it,
delegates or repairs) and round again, as in `AgentKernel.run`, with the counters that the goals of
one kernel share and that nothing resets.  No lock guards them and goals run in threads, so that
looking at a counter and raising it are two steps, between which other goals may come:
`RepairGoal` and `CountRepair`, `Delegate` and `RegisterSubtask`.  The executor is
`AgentOS._execute_goal_task`, an arbitrary outcome per task: "solved" for a workflow that completed,
"unsolved" for one that did not and whose result comes back all the same, "failed" for an executor
that raised.  The kernel tells only the last from the others.  In `JobQueue` a request file is
created and filled in two steps, daemons list, read, unlink and spawn in steps of their own, and
only `unlink` decides between two of them.  `RunJob`, `StepJob` and `FinishJob` are the thread of
the pool; `CancelJob` is `cancel_job`; `Stop`, `Crash`, `Restart` and `Exit` are the lives of a
process.  `RequestQueue` is the contract: a request waits until one daemon takes it, and is answered
at most once, by that one.

### AgentRuntime, Voice, Microphone and the code

A client's request goes through the lock, the write of the session's file into a sibling (`Open`,
`Write`, `Replace`), the engine, the history and the answer, after which a thread may speak it.  A
file is an inode, so that two writers of the same sibling can be told apart.  `Locked = FALSE` gives
the callers of `websocket_server.py`.  `Voice` counts time in the 40 ms blocks of the clap detector
and in the chunks of the recorder; a level is quiet, middle or loud.  `Microphone` probes the
devices one by one, as `_choose_input_device` does.

### Mutants

Every property of a passing run has a mutant in `PROJECT.json`: a definition of the module,
written just before the one it replaces, that changes it the way a plausible slip would (a dropped
guard, a forgotten release, a swapped order).  With the mutant in place TLC finds the property
violated.  The mutants are not part of the specifications.

## 3. Runs

| Run | Question | Properties |
|---|---|---|
| `DagCore` | the engine on every graph of three tasks, either of the last two a finalizer, with REPLAN, on every graph of four without it, and on invalid graphs; failures, cancellation at any moment, runners that swallow it | `StartedOnce`, `NoIdleSlot`, `StoreCurrent`, `LateResultsDropped`, `ImplementsTaskGraph`, `RunTerminates` |
| `WorkflowCore` | run, cancel, resume and a crash on three plans, one of them with a circle | `UpstreamCompleted`, `CancelNeverLost`, `RecordAgrees`, `CallReturns` |
| `WorkflowLossy` | the same with failing saves, `fail_fast`, runners cancelled from outside | `DurableProgress` |
| `Repair` | two runners, one shared budget, an odd playbook, cancel, resume | `NeverTwice`, `BudgetsKept`, `NoAttemptAfterCancel`, `EveryRunnerEnds` |
| `Attempts` | two tasks, one of them pinned, two agents with one slot each, two backends, two providers | `CapacityKept`, `ExclusionsHold`, `SoundBackendsUsable`, `FailoverReaches`, `EveryTaskEnds` |
| `ToolCalls` | two executions, three tools, one MCP server, a human who may not answer | `RunsAreGated`, `AnswerIsOwn`, `ChildrenReaped`, `CancelStopsPlan` |
| `Jobs` | two daemons on one directory, or one process driven through the job API | `ImplementsRequestQueue`, `VerdictOfLastIteration`, `CancelledNeverRuns`, `AcceptedAnswered` |
| `Parts` | on a task's path: plans, replies and stored graphs up to their admission; contexts; one attempt from the call to its category | `PlanUsable`, `DecidesValidity`, `ContextReduced`, `StreamFaithful`, `GateIsEvidence`, `TriageSound`, `PathEnds` |
| | the voice program from its microphone to the end of a session; the web server with two clients and a restart | `MicrophoneHears`, `SessionByDoubleClap`, `SessionInv`, `AnswersKept`, `AssistantAnswers` |

Four runs end in a violation; each shows a sentence of the repository that the code does not keep
(the findings in `PROJECT.json` quote them):

| Run | What happens |
|---|---|
| `ReplanLost` | the rows of a REPLAN's subtasks are never saved; after a crash their work counts as done |
| `ResumeCancelled` | a workflow is cancelled and ends; a resume in the same process, which nobody cancels, starts its tasks, and each fails on arrival since `_cancelled` still holds the workflow |
| `JobOverruled` | the workflow behind a job's only task fails, and the job is reported completed: the kernel looks only at whether the executor raised, not at the verdict it calls authoritative |
| `PlanMisread` | one malformed entry in a model's plan shifts the dependencies of all later entries to other tasks |

`ResumedTasksWork` is checked on `MCResume`, whose history variable tells a cancellation of the
resume itself from one of the execution before it; it speaks of tasks the resume has started, so
that a resume that finds no rows and raises is no counterexample.

### Behaviours documented and not judged

The runs do not judge these; against all but the first no sentence of the repository speaks:

- a request is lost when its daemon stops or dies after it has unlinked the file: the jobs of
  `agent_os_daemon.py:3` are durable up to that moment only.  `RequestQueue` allows the loss, and
  `AcceptedAnswered` promises an answer only from a daemon that goes on serving;

- a resume retries failed tasks but leaves those CANCELLED because of them; a finalizer that
  completed over failed tasks is not run again when a resume repairs them, so its report is stale;
- a COMPLETED workflow may keep a report whose row says FAILED.  With five tasks (`a`, `z`, `k`
  behind `z`, `e` behind `a` and `k`, a finalizer behind all): in the first call `a` and `z` fail,
  `k` and `e` are cancelled, the finalizer runs and fails.  A resume completes `z` and replans `a`,
  which revives `e`; `e` waits for ever behind the cancelled `k`, so that the finalizer is never
  ready, no task is FAILED in memory, and the ratio decides for COMPLETED.  `RecordAgrees` used to
  speak of finalizers too; the attempt to prove it led to this behaviour, which TLC then showed with
  a threshold of 0.5 (with the default 0.6 one more completed task is needed);
- with four tasks and a REPLAN, a dependent that another failure had cancelled can be re-queued
  although it can never run, after a finalizer has counted it as settled (`StoreCurrent` and
  `TaskGraph` allow it explicitly);
- a crash between the rows of a plan leaves a part that a resume takes for the whole; and a
  dependent saved with a rewired dependency whose row does not exist makes the graph unloadable;
- exclusions and overrides are not saved: a resumed task has forgotten the agents and models that
  its repairs had turned away from, but not that the repairs were tried;
- three failures of tools, or denied approvals, mark the native backend unhealthy for the rest of
  the process, as does any failure that is no `ProviderError`;
- an MCP server that sends a request of its own with the id the client is waiting for is taken to
  have answered (`ServerAsks = TRUE` has that behaviour; the run keeps it FALSE);
- a cancelled job keeps the status "queued" for ever, and a goal that is out of repairs goes on;
- a child process whose call is interrupted from outside, which includes the limit of
  `ToolRegistry.call` when it is not longer than the terminal's own, goes on without a parent;
- after `NativeBackend.cancel` the tool calls of the model's answer at hand are still made.

### Bounds and why they suffice

- Tasks of the engine: three with two spare ids, or four with one.  Every rule concerns a task,
  what it depends on and what depends on it; four tasks contain the chain, the fork, the join, the
  diamond and a finalizer behind any of them.  Two spare ids allow one REPLAN per run; more are
  beyond the bound in TLC and within the proofs.
- `MaxConcurrency = 2` with three or more ready tasks: slots are full, and are freed while others
  wait.
- `MaxResumes`, `MaxCrashes`: the state a resume starts from is the rows; a second resume starts
  from rows a first one has written.
- `MaxRepairs = 1`, `MaxCalls = 2` in `Attempts`: two attempts of two tasks are four failures,
  enough to pass the threshold of three; two calls let a call start with the provider that
  answered the one before.  The safety properties are proved for all values.
- `Repair`: both budgets are three, so that each can be hit first.
- `Parts`, a task's path: every reply of up to two entries, each well-formed, nameless, not an
  object or misvalued, with any labels and references; of the replies of three, those in which no
  label comes twice and references go back, in which an entry can still be dropped before, between
  and behind others (graphs of three in any order come from the rows of a store); one replan; a
  reply of two pieces, so that the mark of the end can meet a full and an empty queue; contexts with
  up to four results, short and long, around a budget of 24.
- `ToolCalls`: one server and two executions plus the set-up: a late answer needs one caller that
  was interrupted and one that follows it.  One plan has two commands, so that a second child can
  start beside one a time-out has left behind, and one has a step that is denied after another has
  run, so that a retry repeats the latter.  `MaxEvents = 1` is one disturbance (a cancellation, a
  closed pipe, an interruption, a grant) per behaviour, besides time-outs of tools, which are not
  counted; `MaxLines = 1` is one line nobody asked for.  The safety properties are proved for all
  values.
- `Jobs`: two daemons and two requests are the least in which both race for one file and one of
  them goes on; `MaxIterations = 2` lets a goal fail, be delegated or repaired, and be tried again;
  two threads; the first request hangs wherever it runs; one fault.  The safety properties are
  proved for any number of each.
- `Parts`, the assistant: gaps of 2 to 5 blocks and a cool-down of 7 keep the order of the real
  limits; commands of one or two of the words the routing knows, and those of three for which its
  rules compete; two turns of a session; two clients and one restart, so that each can be the one
  that is overtaken; three devices, so that the default, the loudest and the first can be three
  different ones.
- Distinct states, for orientation: `WorkflowCore` 240 thousand, `WorkflowLossy` 2.4 million,
  `Attempts` 337 thousand, `ToolCalls` 570 thousand, `Parts` 220 thousand, `Jobs` 96 thousand.
- Symmetry is used for the spare ids of a REPLAN only, in runs without liveness properties.

### Fairness

- `DagEngine`: weak fairness of the engine, since the event loop runs whatever is runnable, and of
  each runner, since a runner's call is bounded by `asyncio.wait_for` and its repair loop is
  bounded (`Repair` shows the latter).  Nobody has to cancel.
- `WorkflowRun`: the same for the call and the runners; crashes and cancellations are never
  forced.
- `RepairLoop`, `Attempts`: weak fairness of each runner, for the same time-outs.  In `Attempts`
  neither the expiry of a rate limit nor a cancellation is forced.
- `ValidateGraph`: a sequential program that keeps running.
- `HttpProvider`: the worker thread, the loop and the caller move; the thread's reads end because
  the socket has a time-out, the server itself owes nothing.
- `ToolGate`: the loop and the expiry of time-outs; neither the server, the human, a tool without a
  limit nor the user is forced.
- `JobQueue`: the daemons' loops and the threads of the pool; nobody has to enqueue, stop, crash or
  restart, and a hanging executor hangs.  `AcceptedAnswered` speaks only of the case in which some
  daemon keeps serving.
- `Voice`: the session's own steps; nobody has to clap or speak, and the recorder's limits end what
  the user does not.  `AgentRuntime`: weak fairness of the threads, strong fairness of taking the
  lock, which other clients keep taking and giving back; a `threading.Lock` promises no order, but
  a client that never gets a lock that is freed again and again is not what is being checked.

Deadlock is checked in the runs of the engine, the workflow, the repair loop and the attempts, where
finished states stutter explicitly.  `Parts`, `PlanMisread`, `ToolCalls`, `Jobs` and `JobOverruled`
say `CHECK_DEADLOCK FALSE`: their processes really end (a daemon is stopped, a program exits, an
execution returns), and what must not stop is said by their liveness properties or, for a hanging
tool or a silent server, is left to the environment.

## 4. What only TLC has checked

Liveness, which is out of the prover's reach: `RunTerminates`, `CallReturns`, `EveryRunnerEnds`,
`EveryTaskEnds`, `AcceptedAnswered`, `AssistantAnswers`, `PathEnds`.  Every safety property that a
passing run checks is proved as well, under the assumptions section 5 names.  What stays bounded is
what a proof takes as given: that the constants of a configuration satisfy the `ASSUME`s, and the
four runs that end in a violation.

## 5. What is proved

Every theorem holds for every value of the constants that meets the `ASSUME`s of its module:
finite sets of tasks, well-typed plans and tables, and nothing about sizes.  No theorem rests on an
unproved fact.  The assumptions that say more than a type:

- `PlansAssumption`: the finalizers of a plan are tasks of it (`Task.is_finalizer` is a field of the
  tasks that are handed over);
- `AdmissionAssumption`: the ids of the subtasks of a REPLAN are distinct and new, as those of
  `new_id` are;
- `PathAssumption`: a model's score lies between 0 and 100, where `_llm_review` clamps it;
- `ContextAssumption`: limits and lengths are natural numbers;
- `NoneAssumption`, `NoOneAssumption`: the value for "none" is none of the others.

- **`DagEngineProofs`**: `EngineInv` is inductive.  It joins the type, `Bookkeeping` (which ids
  have which status at which `pc`, and that handles that outlive the loop belong to tasks that
  cannot end well any more), `HandlesAgree`, `GraphStaysValid` and `UpstreamCompleted`.  The parts
  need each other: a REPLAN keeps the graph valid only if the fresh ids occur nowhere in it, which
  is bookkeeping; and `UpstreamCompleted` survives it only since the split task is still running,
  so that nothing that depends on it has started, which is `HandlesAgree`.  The lemma behind
  `GraphStaysValid`: splitting a node of a valid graph into a chain of two gives a valid graph.
  The same module proves `StartedOnce`, `LateResultsDropped`, `NoIdleSlot`, `StoreCurrent`, and that
  the engine implements `TaskGraph`.  Each adds a small invariant to `EngineInv`: `EndInv` (no
  handle outlives the run), `StartInv` (a task that is back in the queue has not been started),
  `SavedInv` (which rows agree with memory while the loop runs).  `StartedOnce` assumes that no
  runner is cancelled from outside, `StoreCurrent` also that no save fails; the theorems say so, and
  the engine breaks them otherwise.  The refinement goes action by action: a step of the engine is a
  step of `TaskGraph` or leaves its variables alone.
- **`PlanningProofs`**, a task's path outside the engine:
  - *admission* (`DecidesValidity`, `PlanUsable`): the search's invariant says that grey nodes form
    the path on the stack and black nodes lead only to black ones, and `Admission` keeps it through
    every submission, split and new search.  A plan by the rules is valid because each task waits
    for the nearest stage before its own: in a set of tasks, one of the least stage waits for none
    of them; and its report is behind every task because it has the last stage.  A replan puts a
    chain in the place of a node, the lemma of the engine again;
  - *the context* (`ContextReduced`): a reduction is applied only to a bundle that is too large, so
    that one that is too large at some stage has been through all earlier ones, and no later one
    undoes them.  The size stays an unknown function: no reduction is promised to be enough;
  - *the provider* (`StreamFaithful`), for replies of any length.  What the caller has been given,
    what is in the queue and what the loop still has to hand over are one row of consecutive pieces,
    closed by the mark of the end; every step moves one piece along the row;
  - *the review* (`GateIsEvidence`, for every threshold up to 78 per cent, which is the limit: the
    scores without damning evidence can fall to 78, and a threshold of 79 would refuse such a result
    for its score alone) and *the triage* (`TriageSound`): no row of `_EXCEPTION_MAP` stands behind
    the row of its base class, so that the first row that fits is the nearest.
- **`RepairLoopProofs`**: no strategy twice for a task and the budget per task, over any number of
  resumes and any overriding playbook; no attempt begins after a cancellation.  `BudgetsKept` adds
  the sums: until the first resume the repairs of all tasks together are no more than the records of
  the workflow, and each task has made at most one attempt more than repairs.  A sum over the tasks
  is the number of pairs of a task and a number up to its own, since cardinalities can be reasoned
  about and a fold over a set cannot.
- **`AttemptsProofs`**: exact slot counting, limits of agents, exclusions, sound backends and
  failover.  The invariant ties what a task holds to where its runner is (`HoldFits`), a pin to an
  empty set of excluded agents (`PinEnds`: the change of agent clears the pin, without which a pin
  would override the exclusion), and the rest of a chain to the providers still to be reached
  (`Reaches`).  `Exchange` reduces every step to one task trading what it holds; the agents' limit
  then follows from exact counting, since no `await` lies between `select` and `acquire`.
- **`WorkflowRunProofs`**: `CancelNeverLost`, `DurableProgress` and, provided that saves succeed,
  `UpstreamCompleted`, for any number of crashes and resumes.  `CancelInv` follows a cancellation
  between the orchestrator's set and the engine's flag; `DurableInv` says that a row COMPLETED and
  the status in memory cannot part while a run is on.  `UpstreamInv` adds that the rows are closed
  upwards by themselves, since they are all a resume has: a task is saved COMPLETED with the
  dependencies of that moment, which had been saved before it.  Between `execute` and its end
  `EngineInv` holds and is reused as it is.  `RecordAgrees` (saves succeed, only the engine cancels
  runners) takes three more: `ToldInv`: a row FAILED of an ordinary task has dependencies that are
  completed and saved as such, so that a resume can start the task at once, nothing can take its
  dependencies from it, and the run does not end before it has a new row or has failed again, which
  the verdict sees; a finalizer's dependencies need not be completed, which is why it is excepted.
  `WaitInv`, for workflows without finalizers, is about the tasks whose row says QUEUED: such a row
  is left behind by a plan, or by a crash between two rows.  A task is `Fresh` when it is queued and
  has no row at all, as the subtasks of a REPLAN; a fresh task, and a queued row in what it did not
  wait for when it was saved, waits only for tasks that are on their way or done (`Passes`: not
  cancelled, and if queued then fresh).  What it did wait for when it was saved may be cancelled,
  if a crash has cut a pass of `_cancel_dependents` short, and then it can never be saved COMPLETED;
  so that when a run ends, a row QUEUED means that something has failed or that the task is `Stuck`
  behind a dependency whose row is not COMPLETED.  Either the verdict sees it, or no later run moves
  the row.  `OverInv`: so a COMPLETED workflow without finalizers has only rows that a
  resume leaves alone.
- **`JobQueueProofs`**: the daemons implement `RequestQueue` for any number of daemons and requests;
  `VerdictOfLastIteration` and `CancelledNeverRuns`.  `JobInv` ties a daemon's position to what it
  has unlinked, so that two daemons cannot hold one request; `GoalInv` and `PoolInv` tie the state
  of a job to its thread and to what the kernel found: by the plain planner a goal has one task, a
  round is left for another one only over an executor that raised, and a goal is given up only at
  the head of a round beyond the last, whatever has become of its status meanwhile.  The only
  assumption on processes is that none is daemon and client at once.
- **`ToolGateProofs`**: `RunsAreGated`, `ChildrenReaped`, `CancelStopsPlan` and, if the server sends
  no request of its own, `AnswerIsOwn`, for any number of executions, tools, wishes and events.
  `GateInv` carries the decision from the gate to the run: between the two an execution waits for a
  human, and meanwhile the grants of the process only grow.  It also keeps the account of child
  processes, step by step: one that starts belongs to the call in progress, and the call ends only
  by reaping it or by leaving it to the orphans.  `McpInv` says that an id is a place in
  the history of who asked, that a holder of the lock who reads was the last to ask, so that the
  newest id is its own, and that the set-up has the lock alone, before any caller.  The two need
  each other: a caller reaches the lock only through the gate, once the server's tools are known.

- **`AssistantProofs`**: `SessionInv` and `SessionByDoubleClap` for any tuning of the detector, any
  limits of the recorder and any sounds: the place of a session says what it holds (lock, recorder,
  file), a command is remembered until its answer has been spoken, and the detector is armed only
  after a quiet block.  `MicrophoneHears` for any devices: the loop's best so far is the loudest of
  those it has passed.
  `AnswersKept`, with the lock of the web server (`Locked = TRUE`; without it the property is false,
  and nothing promises it): whoever is inside holds the lock, so that the file is either what the
  history was before the request or what it is after it, and what was answered is in both.

Liveness and induction over recursive definitions are outside what the prover does.

## 6. What is abstracted, and what is not modelled

- An attempt has an arbitrary outcome in `DagEngine`, `RepairLoop` and `WorkflowRun`; what happens
  inside it is `Attempts`, `ToolGate` and `TaskPath`, in which in turn any repair not tried before
  may be decided on.
- Scores of agents, texts, prompts and wording are data: any agent that passes the filters may win;
  review, planning and context are decided by facts, labels and sizes.
- The planner and the review may call providers too; they acquire and release the same slots
  through the same `generate` and are left out of `Attempts`.
- `health_check_all` runs in the command line's own process; the health states of a running
  workflow change only through its own calls.
- The save of the row `created` at the start of `run` never fails in the model.
- One call at a time: two processes resuming the same workflow are not modelled.
- Tools other than the terminal and MCP are one call of file, process or network I/O with an
  arbitrary outcome.
- **Without a caller** in the program, and left out: `topological_layers` (only a test uses it), and
  the timers of `scheduler.py` (nothing calls the facade's `schedule_once`; the command line only
  lists the file of jobs, whose timers a restart would not set again).
- **Not modelled**: the legacy engine (sequential interfaces that delegate), the command line,
  set-up and installation (prompts, diagnostics, one PID file), `voice.py` (a one-shot channel of
  the set-up program), `status()`, the events table and the event bus (they observe), loading of
  configuration (read once, at start), request bodies and TLS of providers, the artifact manager's
  copies of files, the agents' scores, the health checks.  They are I/O or data with little control.

## 7. What could come next

1. `Attempts` composed with `RepairLoop`'s decisions and with the rows, for what a resume forgets
   of exclusions and overrides.
2. Two processes that resume one workflow: the store serializes transactions, not calls.
3. `websocket_server.py` next to the web server, once a document says what it promises.
