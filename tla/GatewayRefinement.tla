-------------------------- MODULE GatewayRefinement --------------------------
(***************************************************************************)
(* The gateways implement MessageBridge.  The abstract bridge sees only    *)
(* what transactions have committed: the Relayed events, the calls that    *)
(* stand and the flags of the replay check.  The steps inside a            *)
(* transaction, nested dispatches and rolled-back calls included, are      *)
(* stuttering steps, and the outermost dispatch() that returns is one step *)
(* that sends and delivers all that its calls did.                         *)
(***************************************************************************)
EXTENDS ChainGateway

Bridge == INSTANCE MessageBridge WITH
    sent    <- UNION {Committed(c).relayed : c \in Chains},
    effects <- [c \in Chains |-> Committed(c).calls],
    spent   <- UNION {{<<k[1], c, k[2]>> : k \in Committed(c).dispatched} : c \in Chains}

\* Relay and dispatch, with whatever the called contracts do, are an at-most-once
\* message service: what dispatch() calls and flags was in the committed log of
\* its source chain before the transaction began, is flagged in the transaction
\* that calls it and in no other, and _relay never gives out an identity twice.
ImplementsMessageBridge == Bridge!Spec
=============================================================================
