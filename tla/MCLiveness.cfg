SPECIFICATION FairSpec
CONSTANTS
  a1 = a1
  b1 = b1
  ta = ta
  tb = tb
  x1 = x1
  x2 = x2
  u1 = u1
  w1 = w1
  t1 = t1
  owner = owner
  Items = {a1, b1}
  TenantOf <- ItemTenant
  Tenants <- TenantOrder
  ScanOrder <- Listing
  Capacity = 1
  PageSize = 1
  MaxTurns = 1
  Hot = {}
  MaxLoad = 1
  MaxHostTroubles = 1
  Journal <- TwoHandoffs
  Projectors = {"handoff", "inbox", "collaboration"}
  ProjectionTurns = {u1}
  NoTurn = NoTurn
  Batch = 2
  Beside = FALSE
  MaxLapses = 1
  MaxRebuilds = 1
  MaxViewTroubles = 1
  Ingresses = {"i1"}
  KindOf <- Commands
  ConnectorWorkers = {"v1"}
  BatchLimit = 1
  MaxAttempts = 2
  KeepsReceipts = TRUE
  MaxConnectorTroubles = 2
  MaxRefusals = 1
  Requests = {"r1"}
  RecoveryWorkers = {"o1"}
  MaxPauses = 1
CHECK_DEADLOCK FALSE
PROPERTIES
  WorkGetsDone
  EverythingIsProjected
  EveryIngressEnds
  EveryRequestEnds
  AtLeastOnce
  EverythingSettles
