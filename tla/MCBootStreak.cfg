\* The thresholds of the code.  Hangs, and the pin.
CONSTANTS
  ConsecutiveThreshold = 3
  CumulativeThreshold = 10
  CountModulus = 256
  StabilityWindow = 1
  RetryInterval = 2
  Tasks = {mavlink}
  NoTask = noTask
  Resets <- HangsAndPin
  MaxResets = 4
SPECIFICATION Spec
INVARIANTS
  EveryFaultCounts
