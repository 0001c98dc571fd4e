SPECIFICATION FairSpec
CONSTANTS
  s1 = s1
  Sources = {s1}
  Intervals = {30, 61}
  DegradedAt = 3
  DownAt = 10
  MaxFails = 11
INVARIANTS TypeOK BackoffFollowsHealth
PROPERTIES RecoversStepwise FullRateReturns
