CONSTANTS
  a = a  b = b  c = c  d = d  s1 = s1  s2 = s2
  Tasks = {a, b, c}
  Plans <- JoinOnly
  MaxConcurrency = 2
  CancelDependents = TRUE
  FailFast = FALSE
  SwallowsCancel = TRUE
  StrayCancel = FALSE
  StoreFails = FALSE
  MaxResumes = 1
  MaxCrashes = 0
  MinTenths = 6
SPECIFICATION HistorySpec
INVARIANT ResumedTasksWork
