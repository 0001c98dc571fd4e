SPECIFICATION FairSpec
CONSTANTS
  s1 = s1
  r1 = r1
  r2 = r2
  Sources = {s1}
  Requests = {r1, r2}
  NoSource = NoSource
  MaxCrashes = 1
  Faults = TRUE
INVARIANTS TypeOK SettledInSync
PROPERTY Resyncs
