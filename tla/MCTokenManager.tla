--------------------------- MODULE MCTokenManager ---------------------------
(* A token with a remote chain of coarser and one of equal decimals. *)
EXTENDS BridgeToast

MCDecimals == [c \in Chains |-> IF c = "r1" THEN 0 ELSE 1]
=============================================================================
