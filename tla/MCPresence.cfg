SPECIFICATION FairSpec
CONSTANTS
  Conns = {c1, c2}
  NoConn = NoConn
  HeartbeatEvery = 1
  ReadTimeout = 6
  HeartbeatTimeout = 8
  Retry = 2
  Delay = 1
  LockWait = 2
  Zones <- MCZones
INVARIANTS
  HealthyStays
  GoneIsForgotten
PROPERTIES
  Returns
