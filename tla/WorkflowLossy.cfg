CONSTANTS
  a = a  b = b  c = c  d = d  s1 = s1  s2 = s2
  Tasks = {a, b, c, s1, s2}
  Plans <- JoinOnly
  MaxConcurrency = 2
  CancelDependents = TRUE
  FailFast = TRUE
  SwallowsCancel = TRUE
  StrayCancel = TRUE
  StoreFails = TRUE
  MaxResumes = 1
  MaxCrashes = 1
  MinTenths = 6
SPECIFICATION WfSpec
SYMMETRY SpareIds
PROPERTIES DurableProgress
