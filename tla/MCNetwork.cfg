SPECIFICATION NetworkSpec
CONSTANTS
  Focus = {"signal", "overlap", "pages", "room", "invocation", "federation"}
  t1 = t1
  t2 = t2
  host = host
  q1 = q1
  q2 = q2
  c1 = c1
  c2 = c2
  c3 = c3
  k1 = k1
  k2 = k2
  d1 = d1
  d2 = d2
  x1 = x1
  x2 = x2
  o1 = o1
  o2 = o2
  Turns = {t1, t2}
  OwnerOf <- OneHost
  NoOwner = NoOwner
  LeaseSeconds = 1
  MaxTime = 2
  MaxTroubles = 1
  Matching = {2}
  Limit = 1
  MaxAttempts = 2
  BaseDelay = 2
  MaxDelay = 2
  MaxPosition = 2
  Capabilities = {c1, c2, c3}
  Pulls = {q1, q2}
  RecordSeconds = 2
  RenewAhead = 1
  RetainSeconds = 3
  RecordSkew = 1
  MaxPerOrigin = 2
  MaxRefreshClock = 1
  MaxPlace = 4
  MaxPage = 2
  MaxChanges = 4
  MaxClock = 4
  Invokes = {k1, k2}
  Candidates = {d1, d2}
  NoCandidate = NoCandidate
  HoldSeconds = 1
  Deadline = 3
  MaxInvokeTime = 3
  MaxInvokes = 3
  MaxInvokeTroubles = 1
  Offers = {o1, o2}
  Exchanges = {x1, x2}
  TtlSeconds = 1
  Skew = 1
  KeepSeconds = 2
  MaxRecords = 1
  MaxFederationTime = 4
SYMMETRY NetworkSymmetry
VIEW View
CHECK_DEADLOCK FALSE
INVARIANTS
  NetworkTypeOK
  NothingSkipped
  AttemptsInOrder
  WithdrawnStaysGone
  NothingPassedOver
  OneAnswer
  OneReceipt
PROPERTIES
  FencedOut
