CONSTANTS
  d1 = d1  d2 = d2  c1 = c1
  Requests = {1}
  Direct = {}
  Daemons = {d1}
  Clients = {}
  Goals <- OneGoal
  Kernels = {d1}
  KernelOf <- OneKernelOf
  Custom = {}
  PlanSizes = {1}
  Stuck = {}
  MaxIterations = 2
  MaxParallel = 1
  MaxRepairs = 1
  MaxDelegations = 1
  NeedsVerified = TRUE
  Scenarios <- OneDaemon
  Workers = 1
  DiskFails = FALSE
  MaxFaults = 0
SPECIFICATION Spec
INVARIANT WorkflowIsAuthoritative
CHECK_DEADLOCK FALSE
