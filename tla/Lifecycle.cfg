SPECIFICATION FairSpec
CONSTANTS
  Lifecycles <- MCLifecycles
  Topology <- FullTopology
  LeftOvers <- MCLeftOvers
  Unasked <- MCUnasked
INVARIANTS
  PhasesInOrder
  SuccessIsComplete
PROPERTIES
  PassedIsNotRepeated
  CommandEnds
CHECK_DEADLOCK FALSE
