SPECIFICATION MCSpec
CONSTANTS
  Tasks = {t1, t2, t3}
  DispatchMode = "task_queue"
  Costs <- MCCosts
  GlobalBudget = 2
INVARIANTS
  DependentsWait
  NeverSpins
  SkippedOnlyBehindFailure
  OneResultPerStartedTask
PROPERTIES
  ImplementsSchedule
CHECK_DEADLOCK FALSE
