CONSTANTS
  Width = 3
  FaultPhases <- MCFaultPhases
SPECIFICATION Spec
INVARIANTS
  HeartbeatCountsAreStored
