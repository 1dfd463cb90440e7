SPECIFICATION Spec
CONSTANTS
  ann = ann
  bob = bob
  cat = cat
  h1 = h1
  h2 = h2
  h3 = h3
  p1 = p1
  p2 = p2
  k1 = k1
  NoActor = NoActor
  AnyActor = AnyActor
  NoHandoff = NoHandoff
  NoPackage = NoPackage
  UniqueKey = UniqueKey
  Actors <- ThreeActors
  Handoffs = {h1, h2}
  Packages <- TransferPackages
  LeaseSeconds = 1
  Handlers = {p1, p2}
  Initiators = {ann}
  Keys = {}
  SubmittedKinds = {"offer", "transfer", "accept", "return_result", "request_rework"}
  RetriedKinds = {}
  MaxVersion = 4
  MaxFence = 0
  MaxTime = 0
SYMMETRY TransferSymmetry
CHECK_DEADLOCK FALSE
INVARIANT
  ReworkCanBeAccepted
