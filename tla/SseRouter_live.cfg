SPECIFICATION FairSpec
CONSTANTS
  c1 = c1
  c2 = c2
  c3 = c3
  ta = ta
  tb = tb
  p1 = p1
  p2 = p2
  Clients = {c1, c2}
  Tenants <- MCTenants
  TenantOf <- MCTenantOf
  CatsOf <- MCCatsOf
  NoTenant = NoTenant
  Channels = {"finance"}
  AllChannel = "all"
  Pushers = {p1}
  Listener = listener
  Heartbeat = heartbeat
  NoTask = NoTask
  NoClient = NoClient
  Cap = 1
  MaxEvents = 1
  MaxBeats = 1
  RedisMayFail = FALSE
PROPERTY SlowReaderReleases
CHECK_DEADLOCK FALSE
