SPECIFICATION Spec
CONSTANTS
  a1 = a1
  a2 = a2
  b1 = b1
  d1 = d1
  ta = ta
  tb = tb
  td = td
  x1 = x1
  x2 = x2
  u1 = u1
  u2 = u2
  i1 = i1
  i2 = i2
  g1 = g1
  g2 = g2
  h1 = h1
  create = create
  update = update
  attendees = attendees
  delete = delete
  redelete = redelete
  transfer = transfer
  accept = accept
  cancel = cancel
  parent = parent
  child = child
  Writers = {w1, w2}
  Commits = {transfer, accept, cancel}
  NoCommit = none
  Streams = {parent, child}
  Partitions = {"p"}
  Keys = {"k1", "k2"}
  Digests = {"d1", "d2"}
  NoDigest = none
  KeyOf <- CommitKey
  DigestOf <- CommitDigest
  PartitionOf <- OnePartition
  Checked <- ParentChecked
  Appended <- EventsAppended
  Rank <- ParentFirst
  Focus = {"commit", "host", "projection", "recovery", "gateway", "runtime", "restart", "deletion", "tombstone", "attendance", "outside"}
  Items = {a1, a2, b1, d1}
  TenantOf <- ItemTenant
  Tenants <- TenantOrder
  ScanOrder <- Listing
  Capacity = 3
  PageSize = 2
  MaxTurns = 1
  Hot = {a1}
  MaxLoad = 0
  MaxHostTroubles = 0
  Journal <- TwoHandoffs
  Projectors = {"handoff", "inbox", "collaboration"}
  ProjectionTurns = {u1, u2}
  NoTurn = none
  Batch = 2
  Beside = FALSE
  MaxLapses = 1
  MaxRebuilds = 1
  MaxViewTroubles = 1
  Ingresses = {i1, i2}
  KindOf <- Kinds
  ConnectorWorkers = {w1, w2}
  BatchLimit = 2
  MaxAttempts = 2
  KeepsReceipts = TRUE
  MaxConnectorTroubles = 1
  MaxRefusals = 1
  Requests = {"r1"}
  RecoveryWorkers = {"v1"}
  MaxPauses = 1
  Gateways = {g1, g2}
  NoGateway = none
  RetryCount = 1
  MaxProvisions = 1
  MaxCalls <- Calls
  Handlers = {h1, h2}
  NoTask = none
  Results = {r1, r2}
  NoResult = none
  MaxStarts = 2
  MaxRunTroubles = 1
  Executions = {create, update, attendees, delete, redelete}
  OperationOf <- Operation
  EventOf <- OneEvent
  ExpectedVersion <- SeenVersion
  Inviting = {create}
  Attempts = {c1, c2}
  NoExecution = none
  MaxOutsideChanges = 1
CHECK_DEADLOCK FALSE
VIEW View
INVARIANTS
  RuntimeTypeOK NobodyWaitsInACircle TenantsTakeTurns ViewIsAPrefix SettledByHolder
  SessionsInOrder ResultsAgree AckedIsHeld ExecutedOnce AnswersAgree
PROPERTIES
  CommitsAtomically DrainSticks LateCallsAreStale
