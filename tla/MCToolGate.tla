----------------------------- MODULE MCToolGate -----------------------------
(* Values of ToolGate's constants for TLC.                                 *)
EXTENDS ToolGate, TLC

CONSTANTS e1, e2

Tool(risk, needs, network, kind) ==
  [risk |-> risk, needs |-> needs, network |-> network, kind |-> kind]

SomeTools ==
  "read"  :> Tool(0, {}, FALSE, "local") @@
  "shell" :> Tool(3, {"execute"}, FALSE, "child") @@
  "mcp"   :> Tool(1, {"mcp"}, TRUE, "mcp")

(* One agent may use everything; the other lacks a permission and a tool.  *)
TwoAgents ==
  e1 :> [permissions |-> {"execute", "mcp"}, tools |-> {"read", "shell", "mcp"}] @@
  e2 :> [permissions |-> {"mcp"}, tools |-> {"shell", "mcp"}]

Config(ceiling, highRisk, policies, overrides, denied, network) ==
  [ceiling |-> ceiling, highRisk |-> highRisk, policies |-> policies,
   overrides |-> overrides, denied |-> denied, allowNetwork |-> network]

NoEntries == [t \in {} |-> ""]

Step(t, optional) == [tool |-> t, optional |-> optional]

(* Approval above low risk, and two commands in one plan; a tool policy of  *)
(* each kind, a deny list, and a plan whose second step is denied; and a    *)
(* policy that denies what an override has made risky.                      *)
SomeWorkloads == {
  [config |-> Config(1, "approval", NoEntries, NoEntries, {}, TRUE),
   plans |-> e1 :> <<Step("shell", TRUE), Step("shell", FALSE)>> @@ e2 :> <<Step("shell", FALSE)>>],
  [config |-> Config(1, "approval", "mcp" :> "approval" @@ "shell" :> "allow", NoEntries, {"read"}, TRUE),
   plans |-> e1 :> <<Step("mcp", TRUE)>> @@ e2 :> <<Step("mcp", TRUE), Step("shell", FALSE)>>],
  [config |-> Config(2, "deny", NoEntries, "mcp" :> 3, {}, FALSE),
   plans |-> e1 :> <<Step("mcp", TRUE)>> @@ e2 :> <<>>]}

SomeWishes == {<<>>, <<"read", "read">>}
=============================================================================
