CONSTANTS
  a = a  b = b  c = c  d = d  s1 = s1  s2 = s2
  Tasks = {a, b, s1, s2}
  Plans <- Pair
  MaxConcurrency = 2
  CancelDependents = TRUE
  FailFast = FALSE
  SwallowsCancel = TRUE
  StrayCancel = FALSE
  StoreFails = FALSE
  MaxResumes = 1
  MaxCrashes = 1
  MinTenths = 6
SPECIFICATION WfSpec
SYMMETRY SpareIds
INVARIANTS ReplannedWorkDone
