------------------------ MODULE MCSignatureValidator ------------------------
(***************************************************************************)
(* Every list of recovered signers up to MaxSignatures, against every      *)
(* validator set over Addresses: the lists are grown one signer at a time, *)
(* so the reachable states are exactly the inputs of the check.            *)
(***************************************************************************)
EXTENDS SignatureValidator

CONSTANTS Addresses,        \* the addresses of the instance, positive
          MaxSignatures     \* longest list of signatures

ASSUME InstanceAssumption ==
    /\ Addresses \subseteq Nat \ {0} /\ IsFiniteSet(Addresses)
    /\ MaxSignatures \in Nat

VARIABLES validators,       \* EnumerableSet.AddressSet self
          signers           \* recover() of each element of signatures

vars == <<validators, signers>>

Init == /\ validators \in SUBSET Addresses
        /\ signers = <<>>

\* One more signature: of any address, or one that recover() rejects.
AddSignature(a) ==
    /\ Len(signers) < MaxSignatures
    /\ signers' = Append(signers, a)
    /\ UNCHANGED validators

Next == \E a \in Addresses \cup {0} : AddSignature(a)

Spec == Init /\ [][Next]_vars

Quorums == {S \in SUBSET validators : Cardinality(S) * 3 > 2 * Cardinality(validators)}

\* A list passes validateSignaturesWithSupermajority exactly when it is the
\* ascending enumeration of a set of more than two thirds of the validators:
\* comparing neighbours and counting the list never lets a repeated, unknown
\* or unrecoverable signature stand for a vote, and never refuses a quorum.
AcceptsExactlyTheQuorums ==
    Accepts(validators, signers) <=>
        \E S \in Quorums : Signers(signers) = S
                           /\ Len(signers) = Cardinality(S)
                           /\ Ascending(signers)

\* What the Rust validator submits is what the contract takes: for any map of
\* collected signatures, into_ordered_signatures passes the contract's check
\* exactly when the map holds a supermajority of current validators.
OrderedSignaturesAccepted ==
    LET collected == Signers(signers) \ {0}
    IN  Accepts(validators, into_ordered_signatures(collected)) <=>
            collected \in Quorums

\* Whatever list the contract accepts overlaps every quorum in more than a
\* third of the validators.
QuorumsOverlap ==
    Accepts(validators, signers) =>
        \A T \in Quorums :
            3 * Cardinality(T \cap Signers(signers)) > Cardinality(validators)
=============================================================================
