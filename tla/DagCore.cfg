CONSTANTS
  a = a  b = b  c = c  d = d  e = e
  Tasks = {a, b, c, d, e}
  Plans <- SmallGraphs
  MaxConcurrency = 2
  CancelDependents = TRUE
  FailFast = FALSE
  SwallowsCancel = TRUE
  StrayCancel = FALSE
  StoreFails = FALSE
SPECIFICATION FairSpec
INVARIANTS StartedOnce NoIdleSlot StoreCurrent
PROPERTIES LateResultsDropped ImplementsTaskGraph RunTerminates
