--------------------------- MODULE MCValidatorNode ---------------------------
(* Instances of ValidatorNode for TLC. *)
EXTENDS ValidatorNode

CONSTANTS A, B

\* No exceptions, and one for the first message from A to B.
NoExceptions == << >>
OneException == [m \in {[source |-> A, target |-> B, nonce |-> 1]} |->
                    [source |-> A, target |-> B, nonce |-> 0]]
=============================================================================
