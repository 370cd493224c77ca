SPECIFICATION Spec
CONSTANTS
  Lifecycles <- ShippedOnly
  Topology <- FullTopology
  LeftOvers <- MCLeftOvers
  Unasked <- MCUnasked
INVARIANTS
  BlockedIsNotDeployed
CHECK_DEADLOCK FALSE
