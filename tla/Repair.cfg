CONSTANTS
  t1 = t1  t2 = t2
  Tasks = {t1, t2}
  Splittable = {t1, t2}
  Failures = {"TOOL_ERROR", "TIMEOUT", "PERMISSION_ERROR", "CANCELLED"}
  Overrides <- OddOverrides
  MaxPerTask = 3
  MaxPerWorkflow = 3
  MaxRetries = 3
  HasHandler = TRUE
  AllowHumanReview = TRUE
  MaxResumes = 1
SPECIFICATION FairSpec
INVARIANTS NeverTwice BudgetsKept
PROPERTIES NoAttemptAfterCancel EveryRunnerEnds
