------------------------------- MODULE ToolGate -------------------------------
(***************************************************************************)
(* Tool calls: the execution loop of the native backend                    *)
(* (airvis/backends/native.py), ToolRegistry.call (tools/registry.py) and  *)
(* PermissionManager (security/permissions.py), over tools in the process, *)
(* a child process (tools/terminal.py) and an MCP server (McpClient).      *)
(*                                                                         *)
(* Executions interleave at every await: the approval handler, the tool,   *)
(* the provider.  They share the grants of the permission manager and the  *)
(* lock of the MCP client.  The orchestrator may time an execution out     *)
(* (wait_for around BackendRegistry.execute), anybody may cancel it.       *)
(***************************************************************************)
EXTENDS McpClient

CONSTANTS
  Executions,
  Tools,         \* name |-> [risk, needs, network, kind]
  Agents,        \* execution |-> [permissions, tools] of its agent
  Workloads,     \* what to run: [config: a SecurityConfig, plans: the tool_plan
                 \* of each execution, a sequence of [tool, optional]]
  Wishes,        \* what a model may ask for in one answer: sequences of tools
  MaxToolCalls,  \* NativeBackend.max_tool_calls
  MaxIterations, \* ExecutionRequest.max_iterations
  HasHandler,    \* is there an approval handler?
  MaxEvents      \* bound: cancellations, interruptions, grants, and ends of the pipe

ASSUME ToolAssumption ==
  /\ Callers = Executions
  /\ \A e \in Executions : Agents[e].tools \subseteq DOMAIN Tools
  /\ \A t \in DOMAIN Tools : Tools[t].risk \in Nat
  /\ \A w \in Workloads :
       w.config.ceiling \in Nat
         /\ \A t \in DOMAIN w.config.overrides : w.config.overrides[t] \in Nat
  /\ MaxToolCalls \in Nat /\ MaxIterations \in Nat \ {0} /\ MaxEvents \in Nat
  /\ HasHandler \in BOOLEAN

VARIABLES
  config,     \* PermissionManager.config
  plan,       \* request.tool_plan of each execution
  granted,    \* PermissionManager._granted
  stage,      \* where execute() is
  steps,      \* the rest of the plan
  wishes,     \* the rest of the model's calls
  call,       \* the call in progress: [tool, optional]
  made,       \* calls_made
  rounds,     \* iterations
  failures,   \* is there a record that is not ok?
  cancelSet,  \* the cancel events that are set
  outcome,    \* what execute() returned or raised
  children,   \* how many child processes of an execution run
  approvals,  \* history: calls a human approved, <<execution, calls_made>>
  orphans,    \* history: how many of them an interrupted call has left behind
  events      \* how many of MaxEvents there have been

loopVars == <<steps, wishes, call, made, rounds, failures>>
given == <<config, plan>>
gateVars == <<given, granted, stage, loopVars, cancelSet, outcome, children, approvals, orphans, events>>
vars == <<gateVars, mcpVars>>

NoCall == [tool |-> "", optional |-> TRUE]
-----------------------------------------------------------------------------
(* effective_risk, auto_approve_ceiling and the policy of a tool.          *)
Risk(t) == IF t \in DOMAIN config.overrides THEN config.overrides[t] ELSE Tools[t].risk
Policy(t) == IF t \in DOMAIN config.policies THEN config.policies[t] ELSE "none"
Missing(e, t) == (Tools[t].needs \ Agents[e].permissions) \ granted

Forbidden(e, t) ==
  \/ t \in config.denied
  \/ t \notin Agents[e].tools
  \/ Missing(e, t) # {}
  \/ Tools[t].network /\ ~config.allowNetwork
  \/ Policy(t) = "deny"

(* Mutant: a low risk is approved before the tool's policy is read.        *)
EvaluateRiskFirst(e, t) ==
  IF Forbidden(e, t) THEN "deny"
  ELSE IF Risk(t) <= config.ceiling THEN "allow"
  ELSE IF Policy(t) # "none" THEN (IF Policy(t) = "allow" THEN "allow" ELSE "approval")
  ELSE config.highRisk

(* evaluate(), in the order of the code: the hard denials, then the tool's *)
(* own policy, then its risk.                                              *)
Evaluate(e, t) ==
  IF Forbidden(e, t) THEN "deny"
  ELSE IF Policy(t) # "none" THEN (IF Policy(t) = "allow" THEN "allow" ELSE "approval")
  ELSE IF Risk(t) <= config.ceiling THEN "allow"
  ELSE config.highRisk

Init ==
  /\ McpInit
  /\ \E w \in Workloads : config = w.config /\ plan = w.plans /\ steps = w.plans
  /\ granted = {} /\ events = 0
  /\ stage = [e \in Executions |-> "loop"]
  /\ wishes = [e \in Executions |-> <<>>] /\ call = [e \in Executions |-> NoCall]
  /\ made = [e \in Executions |-> 0] /\ rounds = [e \in Executions |-> 0]
  /\ failures = [e \in Executions |-> FALSE] /\ outcome = [e \in Executions |-> "none"]
  /\ cancelSet = {} /\ approvals = {}
  /\ children = [e \in Executions |-> 0] /\ orphans = [e \in Executions |-> 0]
-----------------------------------------------------------------------------
(* execute() returns or raises.                                            *)
Ends(e, how) ==
  /\ stage' = [stage EXCEPT ![e] = "done"]
  /\ outcome' = [outcome EXCEPT ![e] = how]

(* A call begins: calls_made is raised, and ToolRegistry.call is entered.  *)
Begins(e, t, optional) ==
  /\ made' = [made EXCEPT ![e] = @ + 1]
  /\ call' = [call EXCEPT ![e] = [tool |-> t, optional |-> optional]]
  /\ stage' = [stage EXCEPT ![e] = "gate"]

(* MCP servers are discovered before the process runs anything.            *)
Started == setup \in {"ready", "failed"}

(* The first loop: the steps of the plan, until the cancel event is set or *)
(* the budget is used up.                                                  *)
NextStep(e) ==
  /\ Started /\ stage[e] = "loop" /\ rounds[e] = 0 /\ steps[e] # <<>>
  /\ e \notin cancelSet /\ made[e] < MaxToolCalls
  /\ Begins(e, Head(steps[e]).tool, Head(steps[e]).optional)
  /\ steps' = [steps EXCEPT ![e] = Tail(@)]
  /\ UNCHANGED <<given, granted, wishes, rounds, failures, cancelSet, outcome, children, approvals, orphans, events, mcpVars>>

(* The inner loop over the calls the model asked for; it does not look at  *)
(* the cancel event.                                                       *)
NextWish(e) ==
  /\ stage[e] = "loop" /\ wishes[e] # <<>> /\ made[e] < MaxToolCalls
  /\ Begins(e, Head(wishes[e]), TRUE)
  /\ wishes' = [wishes EXCEPT ![e] = Tail(@)]
  /\ UNCHANGED <<given, granted, steps, rounds, failures, cancelSet, outcome, children, approvals, orphans, events, mcpVars>>

BudgetUsed(e) == made[e] >= MaxToolCalls
StepsOver(e) == steps[e] = <<>> \/ BudgetUsed(e) \/ rounds[e] > 0
WishesOver(e) == wishes[e] = <<>> \/ BudgetUsed(e)

(* The head of either loop finds the cancel event set.                     *)
SeesCancel(e) ==
  /\ Started /\ stage[e] = "loop" /\ e \in cancelSet
  /\ WishesOver(e) /\ rounds[e] < MaxIterations
  /\ Ends(e, "cancelled")
  /\ UNCHANGED <<given, granted, loopVars, cancelSet, children, approvals, orphans, events, mcpVars>>

(* Mutant: the event is looked at in the first loop only.                  *)
AskProviderAnyway(e) ==
  /\ Started /\ stage[e] = "loop"
  /\ StepsOver(e) /\ WishesOver(e) /\ rounds[e] < MaxIterations
  /\ rounds' = [rounds EXCEPT ![e] = @ + 1]
  /\ stage' = [stage EXCEPT ![e] = "provider"]
  /\ UNCHANGED <<given, granted, steps, wishes, call, made, failures, cancelSet, outcome, children, approvals, orphans, events, mcpVars>>

(* One iteration of the second loop: the provider is asked.                *)
AskProvider(e) ==
  /\ Started /\ stage[e] = "loop" /\ e \notin cancelSet
  /\ StepsOver(e) /\ WishesOver(e) /\ rounds[e] < MaxIterations
  /\ rounds' = [rounds EXCEPT ![e] = @ + 1]
  /\ stage' = [stage EXCEPT ![e] = "provider"]
  /\ UNCHANGED <<given, granted, steps, wishes, call, made, failures, cancelSet, outcome, children, approvals, orphans, events, mcpVars>>

(* result.ok: no record is a failure, not even one of an optional step.    *)
Verdict(e) == IF failures[e] THEN "not_ok" ELSE "ok"

(* It answers with calls or without, or fails for good.                    *)
ProviderAnswers(e) ==
  /\ stage[e] = "provider"
  /\ \E w \in Wishes :
       IF w = <<>> \/ BudgetUsed(e)
       THEN Ends(e, Verdict(e)) /\ UNCHANGED wishes
       ELSE /\ wishes' = [wishes EXCEPT ![e] = w]
            /\ stage' = [stage EXCEPT ![e] = "loop"]
            /\ UNCHANGED outcome
  /\ UNCHANGED <<given, granted, steps, call, made, rounds, failures, cancelSet, children, approvals, orphans, events, mcpVars>>

ProviderFails(e) ==
  /\ stage[e] = "provider"
  /\ Ends(e, "provider_error")
  /\ UNCHANGED <<given, granted, loopVars, cancelSet, children, approvals, orphans, events, mcpVars>>

OutOfRounds(e) ==
  /\ stage[e] = "loop" /\ StepsOver(e) /\ WishesOver(e) /\ rounds[e] = MaxIterations
  /\ Ends(e, Verdict(e))
  /\ UNCHANGED <<given, granted, loopVars, cancelSet, children, approvals, orphans, events, mcpVars>>
-----------------------------------------------------------------------------
(* _invoke: an optional call that fails leaves a record, any other raises. *)
CallFails(e, how) ==
  IF call[e].optional
  THEN /\ stage' = [stage EXCEPT ![e] = "loop"]
       /\ call' = [call EXCEPT ![e] = NoCall]
       /\ failures' = [failures EXCEPT ![e] = TRUE]
       /\ UNCHANGED outcome
  ELSE Ends(e, how) /\ UNCHANGED <<call, failures>>

CallReturns(e, ok) ==
  /\ call' = [call EXCEPT ![e] = NoCall]
  /\ failures' = [failures EXCEPT ![e] = @ \/ ~ok]
  /\ stage' = [stage EXCEPT ![e] = "loop"]
  /\ UNCHANGED outcome

(* The tool exists and its arguments are valid ...                         *)
Known(t) == t \in DOMAIN Tools /\ (Tools[t].kind = "mcp" => setup = "ready")

Refuse(e) ==
  /\ stage[e] = "gate"
  /\ CallFails(e, "tool_error")    \* unknown tool, or arguments that do not fit
  /\ UNCHANGED <<given, granted, steps, wishes, made, rounds, cancelSet, children, approvals, orphans, events, mcpVars>>

(* ... authorize: denied, allowed, or a human is asked.                    *)
Deny(e) ==
  /\ stage[e] = "gate" /\ Known(call[e].tool)
  /\ LET decision == Evaluate(e, call[e].tool)
     IN  \/ decision = "deny" /\ CallFails(e, "denied")
         \/ decision = "approval" /\ ~HasHandler /\ CallFails(e, "approval_required")
  /\ UNCHANGED <<given, granted, steps, wishes, made, rounds, cancelSet, children, approvals, orphans, events, mcpVars>>

AskHuman(e) ==
  /\ stage[e] = "gate" /\ Known(call[e].tool)
  /\ Evaluate(e, call[e].tool) = "approval" /\ HasHandler
  /\ stage' = [stage EXCEPT ![e] = "human"]
  /\ UNCHANGED <<given, granted, loopVars, cancelSet, outcome, children, approvals, orphans, events, mcpVars>>

(* The tool is entered; an MCP tool queues for the lock of its client.     *)
Enters(e) ==
  /\ stage' = [stage EXCEPT ![e] = "run"]
  /\ IF Tools[call[e].tool].kind = "mcp" THEN Enter(e) ELSE UNCHANGED mcpVars

Runs(e, kind) == stage[e] = "run" /\ Tools[call[e].tool].kind = kind

Allow(e) ==
  /\ stage[e] = "gate" /\ Known(call[e].tool)
  /\ Evaluate(e, call[e].tool) = "allow"
  /\ Enters(e)
  /\ UNCHANGED <<given, granted, loopVars, cancelSet, outcome, children, approvals, orphans, events>>

HumanApproves(e) ==
  /\ stage[e] = "human"
  /\ approvals' = approvals \cup {<<e, made[e]>>}
  /\ Enters(e)
  /\ UNCHANGED <<given, granted, loopVars, cancelSet, outcome, children, orphans, events>>

HumanRefuses(e) ==
  /\ stage[e] = "human"
  /\ CallFails(e, "denied")
  /\ UNCHANGED <<given, granted, steps, wishes, made, rounds, cancelSet, children, approvals, orphans, events, mcpVars>>

(* The terminal refuses a critical command, whoever approved it, and       *)
(* starts a child for any other, whatever earlier calls have left behind.  *)
CriticalRefused(e) ==
  /\ Runs(e, "child")
  /\ CallFails(e, "denied")
  /\ UNCHANGED <<given, granted, steps, wishes, made, rounds, cancelSet, children, approvals, orphans, events, mcpVars>>

ChildStarts(e) ==
  /\ Runs(e, "child")
  /\ stage' = [stage EXCEPT ![e] = "child"]
  /\ children' = [children EXCEPT ![e] = @ + 1]
  /\ UNCHANGED <<given, granted, loopVars, cancelSet, outcome, approvals, orphans, events, mcpVars>>

(* A tool in the process, or a child, ends by itself.                      *)
ToolEnds(e) ==
  /\ Runs(e, "local") \/ stage[e] = "child"
  /\ \/ \E ok \in BOOLEAN : CallReturns(e, ok)
     \/ CallFails(e, "tool_error")
  /\ children' = IF stage[e] = "child" THEN [children EXCEPT ![e] = @ - 1] ELSE children
  /\ UNCHANGED <<given, granted, steps, wishes, made, rounds, cancelSet, approvals, orphans, events, mcpVars>>

(* The MCP client returns the result, or raises.                           *)
McpReturns(e) ==
  /\ Runs(e, "mcp")
  /\ Return(e)
  /\ IF received'[e].kind = "error" THEN CallFails(e, "tool_error") ELSE CallReturns(e, TRUE)
  /\ UNCHANGED <<given, granted, steps, wishes, made, rounds, cancelSet, children, approvals, orphans, events>>

McpRaises(e) ==
  /\ Runs(e, "mcp")
  /\ Raise(e)
  /\ CallFails(e, "tool_error")
  /\ UNCHANGED <<given, granted, steps, wishes, made, rounds, cancelSet, children, approvals, orphans, events>>

(* What is behind the tool when it is interrupted: the lock is given back, *)
(* a child process goes on, and may end by itself later.                   *)
Severed(e) ==
  /\ IF Runs(e, "mcp") THEN Interrupt(e) ELSE UNCHANGED mcpVars
  /\ orphans' = IF stage[e] = "child" THEN [orphans EXCEPT ![e] = @ + 1] ELSE orphans

(* wait_for(tool.run(...)) of ToolRegistry.call expires: ToolTimeoutError. *)
ToolTimesOut(e) ==
  /\ stage[e] \in {"run", "child"}
  /\ CallFails(e, "tool_error")
  /\ Severed(e)
  /\ UNCHANGED <<given, granted, steps, wishes, made, rounds, cancelSet, children, approvals, events>>

OrphanEnds(e) ==
  /\ orphans[e] > 0
  /\ orphans' = [orphans EXCEPT ![e] = @ - 1]
  /\ children' = [children EXCEPT ![e] = @ - 1]
  /\ UNCHANGED <<given, granted, stage, loopVars, cancelSet, outcome, approvals, events, mcpVars>>

(* Mutant: the terminal does not kill its child.                           *)
ChildLeft(e) ==
  /\ stage[e] = "child"
  /\ CallFails(e, "tool_error")
  /\ UNCHANGED <<given, granted, steps, wishes, made, rounds, cancelSet, children, approvals, orphans, events, mcpVars>>

(* The terminal's own, shorter limit expires: the child is killed.         *)
ChildKilled(e) ==
  /\ stage[e] = "child"
  /\ CallFails(e, "tool_error")
  /\ children' = [children EXCEPT ![e] = @ - 1]
  /\ UNCHANGED <<given, granted, steps, wishes, made, rounds, cancelSet, approvals, orphans, events, mcpVars>>
-----------------------------------------------------------------------------
Disturbs == events < MaxEvents /\ events' = events + 1

(* NativeBackend.cancel sets the event of an execution that is running.    *)
Cancel(e) ==
  /\ Started /\ stage[e] # "done" /\ e \notin cancelSet /\ Disturbs
  /\ cancelSet' = cancelSet \cup {e}
  /\ UNCHANGED <<given, granted, stage, loopVars, outcome, children, approvals, orphans, mcpVars>>

(* The orchestrator's time-out, or its own cancellation, raises            *)
(* CancelledError at whatever execute() awaits.                            *)
CutShort(e) ==
  /\ stage[e] \in {"gate", "human", "run", "child", "provider"} /\ Disturbs
  /\ Ends(e, "cancelled")
  /\ Severed(e)
  /\ UNCHANGED <<given, granted, loopVars, cancelSet, children, approvals>>

(* A REQUEST_APPROVAL repair: the permissions the denial named are granted *)
(* to the whole process, and the task is tried again with the whole plan.  *)
GrantAndRetry(e) ==
  /\ stage[e] = "done" /\ outcome[e] = "denied" /\ Disturbs
  /\ HasHandler
  /\ LET t == call[e].tool
     IN  /\ t \notin config.denied /\ t \in Agents[e].tools /\ Missing(e, t) # {}
         /\ granted' = granted \cup Missing(e, t)
  /\ stage' = [stage EXCEPT ![e] = "loop"] /\ outcome' = [outcome EXCEPT ![e] = "none"]
  /\ steps' = [steps EXCEPT ![e] = plan[e]]
  /\ wishes' = [wishes EXCEPT ![e] = <<>>] /\ call' = [call EXCEPT ![e] = NoCall]
  /\ made' = [made EXCEPT ![e] = 0] /\ rounds' = [rounds EXCEPT ![e] = 0]
  /\ failures' = [failures EXCEPT ![e] = FALSE]
  /\ cancelSet' = cancelSet \ {e}
  /\ approvals' = {a \in approvals : a[1] # e}
  /\ UNCHANGED <<given, children, orphans, mcpVars>>
-----------------------------------------------------------------------------
ExecutionStep(e) ==
  \/ NextStep(e) \/ NextWish(e) \/ SeesCancel(e) \/ AskProvider(e) \/ ProviderAnswers(e)
  \/ ProviderFails(e) \/ OutOfRounds(e) \/ Refuse(e) \/ Deny(e) \/ AskHuman(e) \/ Allow(e)
  \/ CriticalRefused(e) \/ ChildStarts(e) \/ McpReturns(e) \/ McpRaises(e) \/ ToolTimesOut(e)
  \/ (Send(e) \/ Skip(e)) /\ UNCHANGED gateVars

Environment(e) ==
  \/ HumanApproves(e) \/ HumanRefuses(e) \/ ToolEnds(e) \/ ChildKilled(e) \/ OrphanEnds(e)
  \/ Cancel(e) \/ CutShort(e) \/ GrantAndRetry(e)

PipeEnds ==
  /\ ServerDies \/ Close
  /\ Disturbs
  /\ UNCHANGED <<given, granted, stage, loopVars, cancelSet, outcome, children, approvals, orphans>>

McpStep == (McpSetupStep \/ ServerAnswers \/ ServerSpeaks) /\ UNCHANGED gateVars

Next == McpStep \/ PipeEnds \/ \E e \in Executions : ExecutionStep(e) \/ Environment(e)

Spec == Init /\ [][Next]_vars

(* The event loop runs every execution, and time-outs expire; neither the  *)
(* server nor a human, a tool or a user is made to do anything.            *)
Fairness ==
  /\ \A e \in Executions : WF_vars(ExecutionStep(e))
  /\ \A u \in Users : WF_vars((Send(u) \/ Skip(u)) /\ UNCHANGED gateVars)
  /\ \A e \in Executions : WF_vars(McpReturns(e)) /\ WF_vars(McpRaises(e))
  /\ WF_vars(McpSetupStep /\ UNCHANGED gateVars)

FairSpec == Spec /\ Fairness
-----------------------------------------------------------------------------
GateTypeOK ==
  /\ McpTypeOK
  /\ cancelSet \subseteq Executions
  /\ children \in [Executions -> Nat] /\ orphans \in [Executions -> Nat]
  /\ stage \in [Executions -> {"loop", "provider", "gate", "human", "run", "child", "done"}]
  /\ outcome \in [Executions -> {"none", "ok", "not_ok", "cancelled", "denied",
                                 "approval_required", "tool_error", "provider_error"}]
  /\ made \in [Executions -> 0..MaxToolCalls] /\ rounds \in [Executions -> 0..MaxIterations]

(* What the gate asks of a call: no list, policy or missing permission     *)
(* forbids it, and above the ceiling of risk the policy allows it or a     *)
(* human has approved this very call.                                      *)
Passed(e) ==
  LET t == call[e].tool
      approved == <<e, made[e]>> \in approvals
  IN  /\ ~Forbidden(e, t)
      /\ Policy(t) = "approval" => approved
      /\ Policy(t) = "none" /\ Risk(t) > config.ceiling => config.highRisk = "allow" \/ approved

(* What runs has passed the gate, however many calls wait for approval at  *)
(* the same time, and whatever is granted meanwhile (permissions.py:3).    *)
RunsAreGated == \A e \in Executions : stage[e] \in {"run", "child"} => Passed(e)

(* After cancel() the steps of the plan and the provider are left alone;   *)
(* only what the model has already asked for is still called               *)
(* (native.py:76, 95).                                                     *)
CancelStopsPlan ==
  [][\A e \in cancelSet :
       e \in cancelSet' => rounds'[e] = rounds[e] /\ steps'[e] = steps[e]]_vars

(* Over repeated calls, time-outs, interruptions and retries, a child      *)
(* process that runs belongs to the call in progress or was left behind by *)
(* an interruption from outside: the terminal kills or awaits all others   *)
(* (terminal.py:98).                                                       *)
ChildrenReaped ==
  \A e \in Executions : children[e] = orphans[e] + (IF stage[e] = "child" THEN 1 ELSE 0)
=============================================================================
