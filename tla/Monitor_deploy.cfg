SPECIFICATION FairSpec
CONSTANTS
  Workers = {w1, w2}
  Ttl = 3
  MaxLevel = 2
  Step = 2
  Rates <- MCRates
  ArchiveEvery = 2
  MaxMisses = 1
INVARIANTS PhantomNamed ViewFollows SnapshotGap
PROPERTY SteadyIsShown
