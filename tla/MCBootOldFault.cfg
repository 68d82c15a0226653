\* The thresholds of the code.  Fault hooks, and the pin.
CONSTANTS
  ConsecutiveThreshold = 3
  CumulativeThreshold = 10
  CountModulus = 256
  StabilityWindow = 1
  RetryInterval = 2
  Tasks = {mavlink}
  NoTask = noTask
  Resets <- HooksAndPin
  MaxResets = 2
SPECIFICATION Spec
INVARIANTS
  OldFaultNotRepeated
