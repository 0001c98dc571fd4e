SPECIFICATION FairSpec
CONSTANTS
  p = p
  q = q
  r = r
  k = k
  sys = sys
  s1 = s1
  s2 = s2
  s3 = s3
  t1 = t1
  t2 = t2
  t3 = t3
  t4 = t4
  a = a
  b = b
  c = c
  None = None
  Requests = {p, q, r}
  Workloads <- MCWorkloads
  OwnSeeds = {k}
  SystemSeeds = {sys}
  SlugOfSeed <- MCSlugOfSeed
  Slugs = {s1, s2, s3}
  Tags = {t1, t2, t3, t4}
  ItemTags = {t1, t2, t3}
  Symbols = {a, b, c}
  Watched <- MCWatched
  MaxCategories <- MCMaxCategories
  MaxSources = 1
  MaxWatched = 3
  MaxTags = 2
INVARIANTS LimitsHold TagsLimited CascadesNamed TagsKept PlacesDistinct SlugClashes
PROPERTY RequestsEnd
CHECK_DEADLOCK FALSE
