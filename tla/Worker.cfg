SPECIFICATION FairSpec
CONSTANTS
  Tasks = {t1, t2}
  Workers = {w1, w2}
  Concurrency = 1
  MaxFaults = 2
  MaxStops = 1
INVARIANTS
  ExecutedAtMostOnce
  AckedHasResult
  NothingAbandoned
PROPERTIES
  EveryMessageIsHandled
  AnsweredOrNacked
  DrainEnds
CHECK_DEADLOCK FALSE
