CONSTANTS
  d1 = d1  d2 = d2  c1 = c1
  Requests = {1, 2}
  Direct = {3}
  Daemons = {d1, d2}
  Clients = {c1}
  Goals <- MCGoals
  Kernels = {d1, d2, c1}
  KernelOf <- MCKernelOf
  Custom = {c1}
  PlanSizes = {0, 2}
  Stuck <- FirstHangs
  MaxIterations = 2
  MaxParallel = 1
  MaxRepairs = 1
  MaxDelegations = 1
  NeedsVerified = TRUE
  Scenarios <- TwoDaemonsOrOneClient
  Workers = 2
  DiskFails = TRUE
  MaxFaults = 1
SPECIFICATION FairSpec
INVARIANTS VerdictOfLastIteration CancelledNeverRuns
PROPERTIES ImplementsRequestQueue AcceptedAnswered
CHECK_DEADLOCK FALSE
