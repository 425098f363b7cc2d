--------------------------- MODULE MCChainGateway ---------------------------
(* Instances of ChainGateway for TLC. *)
EXTENDS GatewayRefinement, OperatorTasks, TLC

\* Nothing in the gateway orders chains, targets or contracts among themselves.
Symmetry == Permutations(Chains)
=============================================================================
