SPECIFICATION Spec
CONSTANTS
  ann = ann
  bob = bob
  cat = cat
  h1 = h1
  h2 = h2
  h3 = h3
  p1 = p1
  p2 = p2
  k1 = k1
  NoActor = NoActor
  AnyActor = AnyActor
  NoHandoff = NoHandoff
  NoPackage = NoPackage
  UniqueKey = UniqueKey
  Actors <- TwoActors
  Handoffs = {h1}
  Packages <- LifecyclePackages
  LeaseSeconds = 1
  Handlers = {p1, p2}
  Initiators = {ann}
  Keys = {}
  SubmittedKinds = {"offer", "resolve_target", "report_target_unavailable", "claim", "renew_claim", "release_claim", "expire_claim", "accept", "decline", "expire", "cancel", "report_status", "return_result", "verify", "close", "request_rework"}
  RetriedKinds = {}
  MaxVersion = 6
  MaxFence = 2
  MaxTime = 2
SYMMETRY LifecycleSymmetry
CHECK_DEADLOCK FALSE
PROPERTIES
  ResponsibilityIsAToken
  ClaimsAreKept
INVARIANTS
  TypeOK
  StreamsReplay
  ResponsibleActor
