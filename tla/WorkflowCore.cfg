CONSTANTS
  a = a  b = b  c = c  d = d  s1 = s1  s2 = s2
  Tasks = {a, b, c, s1, s2}
  Plans <- SmallPlans
  MaxConcurrency = 2
  CancelDependents = TRUE
  FailFast = FALSE
  SwallowsCancel = TRUE
  StrayCancel = FALSE
  StoreFails = FALSE
  MaxResumes = 2
  MaxCrashes = 1
  MinTenths = 6
SPECIFICATION WfFairSpec
INVARIANTS UpstreamCompleted CancelNeverLost RecordAgrees
PROPERTIES CallReturns
