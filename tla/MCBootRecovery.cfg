\* Thresholds small enough to pass with few resets, one of which may fall
\* between a fault and its count; two ticks to the retry, one to stability.
CONSTANTS
  ConsecutiveThreshold = 2
  CumulativeThreshold = 4
  CountModulus = 256
  StabilityWindow = 1
  RetryInterval = 2
  Tasks = {mavlink}
  NoTask = noTask
  Resets <- AllResets
  MaxResets = 4
SPECIFICATION FairSpec
INVARIANTS
  TypeOK
  FaultStreakReduces
  ManyResetsReduce
  CommandReturnsToNormal
  FaultReportIsTrue
  CauseIsKnown
  RetryGetsItsChance
PROPERTIES
  LeavesReducedOnItsOwn
