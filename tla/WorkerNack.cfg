SPECIFICATION FairSpec
CONSTANTS
  Tasks = {t1, t2}
  Workers = {w1}
  Concurrency = 1
  MaxFaults = 0
  MaxStops = 0
PROPERTIES
  NackedIsRetriedOrDeadLettered
CHECK_DEADLOCK FALSE
