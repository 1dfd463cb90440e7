SPECIFICATION Spec
CONSTRAINT OfOneInstance
CONSTANTS
  ann = ann
  bob = bob
  cat = cat
  h1 = h1
  h2 = h2
  h3 = h3
  p1 = p1
  p2 = p2
  k1 = k1
  NoActor = NoActor
  AnyActor = AnyActor
  NoHandoff = NoHandoff
  NoPackage = NoPackage
  UniqueKey = UniqueKey
  Actors <- TwoActors
  Handoffs = {h1, h2, h3}
  Packages <- BothPackages
  LeaseSeconds = 1
  Handlers = {p1, p2}
  Initiators = {ann}
  Keys = {k1}
  SubmittedKinds = {"offer", "transfer", "accept", "cancel", "return_result"}
  RetriedKinds = {"transfer", "accept"}
  MaxVersion = 4
  MaxFence = 0
  MaxTime = 0
SYMMETRY TransferSymmetry
CHECK_DEADLOCK FALSE
INVARIANTS
  ProposalsFit
  TransferAtomic
  RetriesTakeEffectOnce
PROPERTY
  ResponsibilityIsAToken
