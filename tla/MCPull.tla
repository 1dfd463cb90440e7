------------------------------- MODULE MCPull -------------------------------
(***************************************************************************)
(* Instances of PullDelivery for TLC.                                      *)
(***************************************************************************)
EXTENDS PullDelivery, TLC

CONSTANTS w1, w2

WorkerSymmetry == Permutations(Workers)
=============================================================================
