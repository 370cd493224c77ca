SPECIFICATION FairSpec
CONSTANTS
  Tasks = {t1, t2}
  Costs <- MCCosts
  GlobalBudget = 0
  Workers = {w1}
  Concurrency = 2
  MaxFaults = 1
  MaxStops = 0
INVARIANTS
  ExecutedAfterPredecessors
  CompletedWasExecuted
PROPERTIES
  LateResultIgnored
  RunReturns
  CompletedRunIsAcked
CHECK_DEADLOCK FALSE
