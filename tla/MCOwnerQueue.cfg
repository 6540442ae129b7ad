SPECIFICATION FairSpec
CONSTANTS
  web1 = web1
  web2 = web2
  sample1 = sample1
  sample2 = sample2
  optics = optics
  telemetryKey = telemetryKey
  opticsKey = opticsKey
  k1 = k1
  k2 = k2
  NoKey = NoKey
  Nobody = Nobody
  Capacity = 2
  Clients <- MCClients
  Priority <- MCPriority
  Key <- MCKey
  Closers <- MCClosers
INVARIANTS
  NoKeyOutlivesItsWork
  NothingLeftBehind
PROPERTIES
  ShutdownCompletes
  UrgentIsServed
CHECK_DEADLOCK FALSE
