SPECIFICATION FairSpec
CONSTANTS
  a = a
  e = e
  b = b
  u = u
  x = x
  Articles = {a, e, u}
  Feeds <- MCFeeds
  KeyOf <- MCKeyOf
  Undated = {u}
  Kept = {a, e, u}
  MaxRetries = 2
  Faults = TRUE
INVARIANTS TypeOK RepeatsNeedLapse LossesAreNamed
PROPERTIES EventuallyStored ImplementsLedger
