------------------------ MODULE SignatureCheckProofs ------------------------
(***************************************************************************)
(* The contract's check accepts exactly the quorums, and the list that the *)
(* Rust validator submits passes it exactly when it is one, for all        *)
(* validator sets and lists of signatures.                                 *)
(***************************************************************************)
EXTENDS MCSignatureValidator, SignatureValidatorProofs, SequenceTheorems

\* A list that enumerates a quorum in ascending order is accepted.
LEMMA QuorumIsAccepted ==
    ASSUME NEW V \in SUBSET (Nat \ {0}), IsFiniteSet(V), NEW s \in Seq(Nat),
           Signers(s) \subseteq V, Ascending(s), Len(s) * 3 > 2 * Cardinality(V)
    PROVE  Accepts(V, s)
<1>1. Len(s) \in Nat /\ Cardinality(V) \in Nat
  BY FS_CardinalityType
<1>2. ASSUME NEW i \in 1 .. Len(s) PROVE checkSigner(V, s, i) = "ok"
  <2>1. s[i] \in V /\ s[i] \in Nat /\ s[i] # 0
    BY DEF Signers
  <2>2. ~(s[i] <= lastSigner(s, i))
    <3>1. CASE i = 1
      BY <2>1, <3>1 DEF lastSigner
    <3>2. CASE i # 1
      <4>1. i - 1 \in 1 .. Len(s) /\ i - 1 < i
        BY <1>1, <3>2
      <4>2. s[i - 1] < s[i] /\ s[i - 1] \in Nat
        BY <4>1 DEF Ascending
      <4> QED BY <2>1, <3>2, <4>2 DEF lastSigner
    <3> QED BY <3>1, <3>2
  <2> QED BY <2>1, <2>2 DEF checkSigner
<1>3. Rejected(V, s) = {}
  BY <1>2 DEF Rejected
<1>4. isSupermajority(V, Len(s))
  BY <1>1 DEF isSupermajority
<1> QED BY <1>3, <1>4 DEF Accepts, validateSignaturesWithSupermajority

\* A finite set of addresses can be listed in ascending order.
LEMMA AscendingListExists ==
    \A n \in Nat : \A S \in SUBSET Nat :
        IsFiniteSet(S) /\ Cardinality(S) = n => \E s \in [1 .. n -> S] : Ascending(s)
<1> DEFINE Listed(n) == \A S \in SUBSET Nat :
               IsFiniteSet(S) /\ Cardinality(S) = n => \E s \in [1 .. n -> S] : Ascending(s)
           D == {n \in Nat : ~Listed(n)}
<1>1. SUFFICES ASSUME D # {} PROVE FALSE
  OBVIOUS
<1>2. PICK n \in D : \A k \in D : n <= k
  <2>1. D \in SUBSET Nat
    OBVIOUS
  <2> HIDE DEF D
  <2> QED BY <1>1, <2>1, LeastNatural
<1>3. PICK S \in SUBSET Nat : /\ IsFiniteSet(S) /\ Cardinality(S) = n
                              /\ ~\E s \in [1 .. n -> S] : Ascending(s)
  OBVIOUS
<1>4. n # 0
  <2>1. SUFFICES ASSUME n = 0 PROVE FALSE
    OBVIOUS
  <2>2. <<>> \in [1 .. 0 -> S] /\ Ascending(<<>>)
    BY DEF Ascending
  <2> QED BY <1>3, <2>1, <2>2
<1>5. n \in Nat /\ n - 1 \in Nat /\ S # {}
  BY <1>3, <1>4, FS_EmptySet
<1>6. PICK x \in S : \A y \in S : x <= y
  BY <1>5, LeastNatural
<1>7. IsFiniteSet(S \ {x}) /\ Cardinality(S \ {x}) = n - 1
  BY <1>3, FS_RemoveElement
<1>8. PICK t \in [1 .. n - 1 -> S \ {x}] : Ascending(t)
  <2>1. n - 1 \notin D
    <3>1. ~(n <= n - 1)
      BY <1>5
    <3> HIDE DEF D
    <3> QED BY <1>2, <3>1
  <2>2. Listed(n - 1)
    BY <1>5, <2>1
  <2>3. S \ {x} \in SUBSET Nat
    OBVIOUS
  <2> HIDE DEF D
  <2> QED BY <1>7, <2>2, <2>3
<1>9. PICK s : s = [i \in 1 .. n |-> IF i = 1 THEN x ELSE t[i - 1]]
  OBVIOUS
<1> HIDE DEF D, Listed
<1>10. \A i \in 1 .. n : i # 1 => i - 1 \in 1 .. n - 1 /\ s[i] = t[i - 1] /\ t[i - 1] \in S \ {x}
  BY <1>5, <1>8, <1>9
<1>11. s \in [1 .. n -> S]
  BY <1>6, <1>9, <1>10
<1>12. Ascending(s)
  <2>1. Len(s) = n /\ Len(t) = n - 1
    <3>1. s \in Seq(S) /\ t \in Seq(S \ {x})
      BY <1>5, <1>8, <1>11, SeqDef
    <3> QED BY <1>5, <1>8, <1>11, <3>1
  <2>2. SUFFICES ASSUME NEW i \in 1 .. n, NEW j \in 1 .. n, i < j PROVE s[i] < s[j]
    BY <2>1 DEF Ascending
  <2>3. j # 1 /\ j - 1 \in 1 .. n - 1 /\ s[j] = t[j - 1] /\ t[j - 1] \in S \ {x}
    BY <1>5, <1>10, <2>2
  <2>4. CASE i = 1
    <3>1. s[i] = x /\ x \in Nat /\ s[j] \in Nat /\ x <= s[j] /\ x # s[j]
      BY <1>6, <1>9, <2>3, <2>4
    <3> QED BY <3>1
  <2>5. CASE i # 1
    <3>1. i - 1 \in 1 .. n - 1 /\ s[i] = t[i - 1] /\ i - 1 < j - 1
      BY <1>5, <1>10, <2>2, <2>5
    <3>2. t[i - 1] < t[j - 1]
      BY <1>8, <2>1, <2>3, <3>1 DEF Ascending
    <3> QED BY <2>3, <3>1, <3>2
  <2> QED BY <2>4, <2>5
<1> QED BY <1>3, <1>11, <1>12

\* into_ordered_signatures lists exactly the collected signers, in ascending
\* order.
LEMMA OrderedSignatures ==
    ASSUME NEW S \in SUBSET Nat, IsFiniteSet(S)
    PROVE  LET s == into_ordered_signatures(S)
           IN  /\ s \in Seq(Nat) /\ Len(s) = Cardinality(S)
               /\ Ascending(s) /\ Signers(s) = S
<1>1. PICK n \in Nat : n = Cardinality(S)
  BY FS_CardinalityType
<1>2. PICK s : s = into_ordered_signatures(S)
  OBVIOUS
<1>3. s \in [1 .. n -> S] /\ Ascending(s)
  <2>1. \E t \in [1 .. n -> S] : Ascending(t)
    BY <1>1, AscendingListExists
  <2> QED BY <1>1, <1>2, <2>1 DEF into_ordered_signatures
<1>4. s \in Seq(S) /\ s \in Seq(Nat) /\ Len(s) = n
  <2>0. s \in [1 .. n -> Nat]
    BY <1>3
  <2>1. s \in Seq(S) /\ s \in Seq(Nat)
    BY <1>3, <2>0, SeqDef
  <2> QED BY <1>3, <2>1
<1>5. s \in Injection(1 .. n, S)
  <2>1. \A i, j \in 1 .. n : i # j => s[i] # s[j]
    <3>1. \A i \in 1 .. n : s[i] \in Nat
      BY <1>3
    <3> QED BY <1>3, <1>4, <3>1 DEF Ascending
  <2> QED BY <1>3, <2>1 DEF Injection, IsInjective
<1>6. Cardinality(1 .. n) = n
  <2>1. 1 \in Int /\ n \in Int /\ (n - 1) + 1 = n
    OBVIOUS
  <2> QED BY <2>1, FS_Interval
<1>7. s \in Surjection(1 .. n, S)
  BY <1>1, <1>5, <1>6, FS_Injection
<1>8. Signers(s) = S
  BY <1>3, <1>4, <1>7 DEF Signers, Surjection
<1> QED BY <1>1, <1>2, <1>3, <1>4, <1>8

-----------------------------------------------------------------------------
(* The inputs of the check *)

InputsOk == validators \in SUBSET Addresses /\ signers \in Seq(Addresses \cup {0})

\* The inputs are sets of addresses and lists of recovered signers.
LEMMA InputsInvariant == Spec => []InputsOk
<1>1. Init => InputsOk
  BY DEF Init, InputsOk
<1>2. InputsOk /\ [Next]_vars => InputsOk'
  BY DEF InputsOk, Next, AddSignature, vars
<1> QED BY <1>1, <1>2, PTL DEF Spec

\* What the inputs are.
LEMMA InputTypes ==
    ASSUME InputsOk
    PROVE  /\ validators \in SUBSET (Nat \ {0}) /\ IsFiniteSet(validators)
           /\ signers \in Seq(Nat) /\ Len(signers) \in Nat
           /\ Cardinality(validators) \in Nat
           /\ \A S \in SUBSET validators : IsFiniteSet(S) /\ Cardinality(S) \in Nat
           /\ Signers(signers) \ {0} \in SUBSET Addresses /\ Addresses \subseteq Nat
           /\ IsFiniteSet(Addresses)
<1>1. Addresses \subseteq Nat \ {0} /\ IsFiniteSet(Addresses)
  BY InstanceAssumption
<1>2. validators \in SUBSET (Nat \ {0}) /\ IsFiniteSet(validators)
  BY <1>1, FS_Subset DEF InputsOk
<1>3. signers \in Seq(Nat) /\ Len(signers) \in Nat
  <2>1. signers \in Seq(Addresses \cup {0}) /\ Addresses \cup {0} \subseteq Nat
    BY <1>1 DEF InputsOk
  <2>2. PICK n \in Nat : signers \in [1 .. n -> Addresses \cup {0}]
    BY <2>1, SeqDef
  <2>3. signers \in [1 .. n -> Nat]
    BY <2>1, <2>2
  <2>4. signers \in Seq(Nat)
    BY <2>3, SeqDef
  <2> QED BY <2>4
<1>4. Signers(signers) \ {0} \in SUBSET Addresses
  BY DEF Signers, InputsOk
<1>5. \A S \in SUBSET validators : IsFiniteSet(S) /\ Cardinality(S) \in Nat
  BY <1>2, FS_Subset, FS_CardinalityType
<1> QED BY <1>1, <1>2, <1>3, <1>4, <1>5

\* validateSignaturesWithSupermajority accepts the ascending enumerations of
\* quorums, and nothing else.
THEOREM ExactlyTheQuorums == Spec => []AcceptsExactlyTheQuorums
<1>1. InputsOk => AcceptsExactlyTheQuorums
  <2> SUFFICES ASSUME InputsOk PROVE AcceptsExactlyTheQuorums
    OBVIOUS
  <2>1. ASSUME Accepts(validators, signers)
        PROVE  \E S \in Quorums : /\ Signers(signers) = S
                                  /\ Len(signers) = Cardinality(S) /\ Ascending(signers)
    <3>1. /\ Signers(signers) \subseteq validators
          /\ Cardinality(Signers(signers)) = Len(signers)
          /\ Cardinality(Signers(signers)) * 3 > Cardinality(validators) * 2
          /\ Ascending(signers)
      BY <2>1, InputTypes, AcceptedList, AcceptedSignersAreAQuorum
    <3>2. Signers(signers) \in Quorums
      BY <3>1, InputTypes DEF Quorums
    <3> QED BY <3>1, <3>2
  <2>2. ASSUME NEW S \in Quorums, Signers(signers) = S, Len(signers) = Cardinality(S),
               Ascending(signers)
        PROVE  Accepts(validators, signers)
    <3>1. S \subseteq validators /\ Cardinality(S) * 3 > 2 * Cardinality(validators)
      BY DEF Quorums
    <3> QED BY <2>2, <3>1, InputTypes, QuorumIsAccepted
  <2> QED BY <2>1, <2>2 DEF AcceptsExactlyTheQuorums
<1> QED BY <1>1, InputsInvariant, PTL

\* into_ordered_signatures of a map of signatures passes the contract's check
\* exactly when the map holds a supermajority.
THEOREM OrderedIsAccepted == Spec => []OrderedSignaturesAccepted
<1>1. InputsOk => OrderedSignaturesAccepted
  <2> SUFFICES ASSUME InputsOk PROVE OrderedSignaturesAccepted
    OBVIOUS
  <2>1. PICK C : C = Signers(signers) \ {0}
    OBVIOUS
  <2>2. C \in SUBSET Nat /\ IsFiniteSet(C) /\ Cardinality(C) \in Nat
    BY <2>1, InputTypes, FS_Subset, FS_CardinalityType
  <2>3. PICK s : s = into_ordered_signatures(C)
    OBVIOUS
  <2>4. s \in Seq(Nat) /\ Len(s) = Cardinality(C) /\ Ascending(s) /\ Signers(s) = C
    BY <2>2, <2>3, OrderedSignatures
  <2>5. ASSUME Accepts(validators, s) PROVE C \in Quorums
    <3>1. C \subseteq validators /\ Cardinality(C) * 3 > Cardinality(validators) * 2
      BY <2>4, <2>5, InputTypes, AcceptedSignersAreAQuorum
    <3> QED BY <2>2, <3>1, InputTypes DEF Quorums
  <2>6. ASSUME C \in Quorums PROVE Accepts(validators, s)
    <3>1. C \subseteq validators /\ Cardinality(C) * 3 > 2 * Cardinality(validators)
      BY <2>6 DEF Quorums
    <3> QED BY <2>4, <3>1, InputTypes, QuorumIsAccepted
  <2> QED BY <2>1, <2>3, <2>5, <2>6 DEF OrderedSignaturesAccepted
<1> QED BY <1>1, InputsInvariant, PTL

\* An accepted list and any quorum share more than a third of the validators.
THEOREM AcceptedOverlapsQuorums == Spec => []QuorumsOverlap
<1>1. InputsOk => QuorumsOverlap
  <2> SUFFICES ASSUME InputsOk, Accepts(validators, signers), NEW T \in Quorums
               PROVE  3 * Cardinality(T \cap Signers(signers)) > Cardinality(validators)
    BY DEF QuorumsOverlap
  <2>1. PICK S : S = Signers(signers)
    OBVIOUS
  <2>2. /\ S \subseteq validators /\ Cardinality(S) * 3 > Cardinality(validators) * 2
        /\ T \subseteq validators /\ Cardinality(T) * 3 > 2 * Cardinality(validators)
    BY <2>1, InputTypes, AcceptedSignersAreAQuorum DEF Quorums
  <2>3. /\ IsFiniteSet(S) /\ IsFiniteSet(T)
        /\ Cardinality(S) \in Nat /\ Cardinality(T) \in Nat /\ Cardinality(validators) \in Nat
        /\ Cardinality(S \cup T) \in Nat /\ Cardinality(S \cap T) \in Nat
    <3>1. S \cup T \in SUBSET validators /\ S \cap T \in SUBSET validators
      BY <2>2
    <3> QED BY <2>2, <3>1, InputTypes
  <2>4. Cardinality(S \cup T) = Cardinality(S) + Cardinality(T) - Cardinality(S \cap T)
    BY <2>3, FS_Union
  <2>5. Cardinality(S \cup T) <= Cardinality(validators)
    BY <2>2, InputTypes, FS_Subset
  <2>6. 3 * Cardinality(S \cap T) > Cardinality(validators)
    BY <2>2, <2>3, <2>4, <2>5
  <2>7. T \cap Signers(signers) = S \cap T
    BY <2>1
  <2> QED BY <2>6, <2>7
<1> QED BY <1>1, InputsInvariant, PTL
=============================================================================
