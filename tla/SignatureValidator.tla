------------------------- MODULE SignatureValidator -------------------------
(***************************************************************************)
(* The signature check of the bridge: core/SignatureValidator.sol, and the *)
(* validator's side of the same contract, signature.rs, which orders the   *)
(* signatures it submits.                                                  *)
(*                                                                         *)
(* A signature is represented by the address that recover() yields for it  *)
(* and the message hash under check.  Addresses are natural numbers with   *)
(* their uint160 order; 0 is address(0), which no key has: it stands for a *)
(* signature recover() rejects.                                            *)
(***************************************************************************)
EXTENDS Integers, Sequences, FiniteSets

\* Mutant: half of the set is enough.
isSupermajorityMutant(V, count) == count * 2 >= Cardinality(V)

\* isSupermajority: strictly more than two thirds of the validator set.
isSupermajority(V, count) == count * 3 > Cardinality(V) * 2

\* lastSigner when the loop reaches index i.
lastSigner(signers, i) == IF i = 1 THEN 0 ELSE signers[i - 1]

\* Mutant: the loop compares with < and lets a repeated signer through.
checkSignerMutant(V, signers, i) ==
    IF signers[i] = 0 THEN "ECDSAInvalidSignature"
    ELSE IF signers[i] < lastSigner(signers, i)
         THEN "NonUniqueOrUnorderedSignatures"
    ELSE IF signers[i] \notin V THEN "InvalidValidatorOrSignatures"
    ELSE "ok"

\* Why the loop reverts at index i, if it does; recover() comes first, then
\* the order, then membership.
checkSigner(V, signers, i) ==
    IF signers[i] = 0 THEN "ECDSAInvalidSignature"
    ELSE IF signers[i] <= lastSigner(signers, i)
         THEN "NonUniqueOrUnorderedSignatures"
    ELSE IF signers[i] \notin V THEN "InvalidValidatorOrSignatures"
    ELSE "ok"

Rejected(V, signers) ==
    {i \in 1 .. Len(signers) : checkSigner(V, signers, i) # "ok"}

\* The result of the whole function: the error of the first index rejected,
\* and only after the loop the count.
validateSignaturesWithSupermajority(V, signers) ==
    IF Rejected(V, signers) # {}
    THEN checkSigner(V, signers,
             CHOOSE i \in Rejected(V, signers) :
                 \A j \in Rejected(V, signers) : i <= j)
    ELSE IF ~isSupermajority(V, Len(signers)) THEN "NoSupermajority"
    ELSE "ok"

Accepts(V, signers) == validateSignaturesWithSupermajority(V, signers) = "ok"

Signers(signers) == {signers[i] : i \in 1 .. Len(signers)}

Ascending(s) == \A i, j \in 1 .. Len(s) : i < j => s[i] < s[j]

\* Mutant: sorted the other way round.
into_ordered_signaturesMutant(S) ==
    CHOOSE s \in [1 .. Cardinality(S) -> S] :
        \A i, j \in 1 .. Len(s) : i < j => s[i] > s[j]

\* The validator's HashMap of signatures, keyed by address, sorted by address.
into_ordered_signatures(S) ==
    CHOOSE s \in [1 .. Cardinality(S) -> S] : Ascending(s)
=============================================================================
