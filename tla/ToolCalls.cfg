CONSTANTS
  e1 = e1  e2 = e2
  Executions = {e1, e2}
  Callers = {e1, e2}
  Setup = setup
  ServerAsks = FALSE
  MaxLines = 1
  Tools <- SomeTools
  Agents <- TwoAgents
  Workloads <- SomeWorkloads
  Wishes <- SomeWishes
  MaxToolCalls = 2
  MaxIterations = 1
  HasHandler = TRUE
  MaxEvents = 1
SPECIFICATION FairSpec
INVARIANTS RunsAreGated AnswerIsOwn ChildrenReaped
PROPERTIES CancelStopsPlan
CHECK_DEADLOCK FALSE
