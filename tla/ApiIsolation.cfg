SPECIFICATION Spec
CONSTANTS
  Requests = {r1, r2}
  MaxReplies = 2
  Nobody = Nobody
INVARIANTS
  EveryRunIsIsolated
CHECK_DEADLOCK FALSE
