SPECIFICATION Spec
CONSTANTS
  c1 = c1
  c2 = c2
  c3 = c3
  ta = ta
  tb = tb
  p1 = p1
  p2 = p2
  Clients = {c1, c2}
  Tenants <- MCTenants
  TenantOf <- MCTenantOf
  CatsOf <- MCCatsOf
  NoTenant = NoTenant
  Channels = {"finance", "tech"}
  AllChannel = "all"
  Pushers = {p1}
  Listener = listener
  Heartbeat = heartbeat
  NoTask = NoTask
  NoClient = NoClient
  Cap = 2
  MaxEvents = 2
  MaxBeats = 0
  RedisMayFail = TRUE
INVARIANTS IndexMatchesRegistry TenantIsolation OnlySubscribedChannels CopiesBounded ListenerOrder
PROPERTY DeliveryComplete
CHECK_DEADLOCK FALSE
