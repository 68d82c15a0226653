SPECIFICATION Spec
CONSTANTS
  F = 2
  Oldest = 6
  Newest = 40
  Attempts = 2
  GroundTimes <- Offered
  Ds1307Times <- Held
  Fitted = {TRUE, FALSE}
  MaxStall = 1
  Drifts <- Lags
  MaxTicks = 4
  MaxEvents = 3
INVARIANT
  SafeFromAnyTask
