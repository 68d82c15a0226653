\* The thresholds of the code, three ticks to the retry, one to stability.  Only
\* hangs.
CONSTANTS
  ConsecutiveThreshold = 3
  CumulativeThreshold = 10
  CountModulus = 256
  StabilityWindow = 1
  RetryInterval = 3
  Tasks = {mavlink}
  NoTask = noTask
  Resets <- Hangs
  MaxResets = 6
SPECIFICATION Spec
PROPERTIES
  EntriesAreSpaced
