----------------------------- MODULE MCExchange -----------------------------
(***************************************************************************)
(* Instances of Exchange for TLC.                                          *)
(***************************************************************************)
EXTENDS ExchangeRefinement, TLC

CONSTANTS ann, bob, cat, h1, h2, h3, p1, p2, k1

Package(mode, target, redelegate, acceptBy) ==
  [mode |-> mode, target |-> target, verifier |-> ann, mayRedelegate |-> redelegate,
   acceptBy |-> acceptBy, authorityUntil |-> 3]

TwoActors == {ann, bob}
ThreeActors == {ann, bob, cat}

TransferPackages == {Package("explicit", AnyActor, TRUE, 2)}

LifecycleSymmetry == Permutations(Handlers)
TransferSymmetry == Permutations(Handlers) \cup Permutations(Handoffs)
LifecyclePackages ==
  {Package("explicit", bob, FALSE, 1), Package("eligible_pool_claim", NoActor, FALSE, 1),
   Package("external_resolution", NoActor, FALSE, 1)}
RetryPackages == {Package("explicit", bob, TRUE, 2)}
BothPackages == TransferPackages \cup RetryPackages
=============================================================================
