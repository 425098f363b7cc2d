---------------------- MODULE SignatureValidatorProofs ----------------------
(***************************************************************************)
(* What an accepted list of signatures proves about the validator set, for *)
(* every validator set and every list.                                     *)
(***************************************************************************)
EXTENDS SignatureValidator, FiniteSetTheorems, FunctionTheorems,
        WellFoundedInduction, TLAPS

\* Every non-empty set of naturals has a least element.
LEMMA LeastNatural ==
    ASSUME NEW T \in SUBSET Nat, T # {}
    PROVE  \E n \in T : \A m \in T : n <= m
<1> DEFINE R == OpToRel(<, Nat)
<1>1. IsWellFoundedOn(R, Nat)
  BY NatLessThanWellFounded
<1>2. PICK n \in T : \A m \in T : <<m, n>> \notin R
  <2> HIDE DEF R
  <2> QED BY <1>1, WFMin
<1>3. \A m \in T : ~(m < n)
  BY <1>2 DEF OpToRel
<1> QED BY <1>3

\* The loop of validateSignaturesWithSupermajority compares neighbours only;
\* that already orders the whole list.
LEMMA NeighboursOrderTheList ==
    ASSUME NEW s \in Seq(Nat),
           \A i \in 1 .. Len(s) : i # 1 => s[i - 1] < s[i]
    PROVE  Ascending(s)
<1> DEFINE D == {j \in 1 .. Len(s) : \E i \in 1 .. Len(s) : i < j /\ ~(s[i] < s[j])}
<1>0. \A k \in 1 .. Len(s) : s[k] \in Nat
  OBVIOUS
<1>1. SUFFICES ASSUME D # {} PROVE FALSE
  BY DEF Ascending
<1>2. D \in SUBSET Nat
  OBVIOUS
<1>3. PICK j \in D : \A k \in D : j <= k
  <2> HIDE DEF D
  <2> QED BY <1>1, <1>2, LeastNatural
<1>4. PICK i \in 1 .. Len(s) : i < j /\ ~(s[i] < s[j])
  BY <1>3
<1>5. j \in 1 .. Len(s) /\ j # 1 /\ j - 1 \in 1 .. Len(s) /\ s[j - 1] < s[j]
  BY <1>3, <1>4
<1>6. CASE i = j - 1
  BY <1>4, <1>5, <1>6
<1>7. CASE i # j - 1
  <2>1. i < j - 1
    BY <1>4, <1>5, <1>7
  <2>2. s[i] < s[j - 1]
    <3>1. j - 1 \notin D
      <4>1. ~(j <= j - 1)
        BY <1>5
      <4> HIDE DEF D
      <4> QED BY <4>1, <1>3
    <3> QED BY <3>1, <2>1, <1>5, <1>4
  <2>3. s[i] \in Nat /\ s[j - 1] \in Nat /\ s[j] \in Nat
    BY <1>0, <1>4, <1>5
  <2> QED BY <2>2, <2>3, <1>4, <1>5
<1> QED BY <1>6, <1>7

\* The loop accepts every index exactly when the list is strictly ascending,
\* has no address(0) and only members of V.
LEMMA AcceptedList ==
    ASSUME NEW V, NEW s \in Seq(Nat), Accepts(V, s)
    PROVE  /\ isSupermajority(V, Len(s))
           /\ Ascending(s)
           /\ \A i \in 1 .. Len(s) : s[i] \in V
<1>1. Rejected(V, s) = {} /\ isSupermajority(V, Len(s))
  <2>1. CASE Rejected(V, s) # {}
    <3>1. Rejected(V, s) \in SUBSET Nat
      BY DEF Rejected
    <3>2. \E i \in Rejected(V, s) : \A j \in Rejected(V, s) : i <= j
      BY <2>1, <3>1, LeastNatural
    <3> DEFINE k == CHOOSE i \in Rejected(V, s) : \A j \in Rejected(V, s) : i <= j
    <3>3. k \in Rejected(V, s)
      BY <3>2
    <3>4. checkSigner(V, s, k) # "ok"
      BY <3>3 DEF Rejected
    <3> QED BY <2>1, <3>4 DEF Accepts, validateSignaturesWithSupermajority
  <2>2. CASE Rejected(V, s) = {}
    BY <2>2 DEF Accepts, validateSignaturesWithSupermajority
  <2> QED BY <2>1, <2>2
<1>2. \A i \in 1 .. Len(s) : checkSigner(V, s, i) = "ok"
  BY <1>1 DEF Rejected
<1>3. \A i \in 1 .. Len(s) : s[i] \in Nat
  OBVIOUS
<1>4. \A i \in 1 .. Len(s) : s[i] \in V /\ ~(s[i] <= lastSigner(s, i))
  BY <1>2 DEF checkSigner
<1>5. \A i \in 1 .. Len(s) : i # 1 => s[i - 1] < s[i]
  BY <1>3, <1>4 DEF lastSigner
<1> QED BY <1>1, <1>4, <1>5, NeighboursOrderTheList

\* An accepted list counts every signer once: its length, which is what the
\* contract compares with the validator set, is the number of signers.
THEOREM AcceptedSignersAreAQuorum ==
    ASSUME NEW V, IsFiniteSet(V), NEW s \in Seq(Nat), Accepts(V, s)
    PROVE  /\ Signers(s) \subseteq V
           /\ Cardinality(Signers(s)) = Len(s)
           /\ Cardinality(Signers(s)) * 3 > Cardinality(V) * 2
<1> DEFINE S == Signers(s)
           n == Len(s)
<1>1. isSupermajority(V, n) /\ Ascending(s) /\ \A i \in 1 .. n : s[i] \in V
  BY AcceptedList
<1>2. S \subseteq V
  BY <1>1 DEF Signers
<1>3. IsFiniteSet(S)
  BY <1>2, FS_Subset
<1>4. n \in Nat /\ s \in [1 .. n -> S]
  <2>1. n \in Nat /\ DOMAIN s = 1 .. n /\ s = [i \in DOMAIN s |-> s[i]]
    OBVIOUS
  <2>2. \A i \in 1 .. n : s[i] \in S
    BY DEF Signers
  <2> QED BY <2>1, <2>2
<1>5. s \in Bijection(1 .. n, S)
  <2>1. \A i, j \in 1 .. n : i # j => s[i] # s[j]
    <3>1. \A i \in 1 .. n : s[i] \in Nat
      OBVIOUS
    <3> QED BY <1>1, <1>4, <3>1 DEF Ascending
  <2>2. s \in Injection(1 .. n, S)
    BY <1>4, <2>1 DEF Injection, IsInjective
  <2>3. s \in Surjection(1 .. n, S)
    BY <1>4 DEF Surjection, Signers
  <2> QED BY <2>2, <2>3 DEF Bijection
<1>6. Cardinality(1 .. n) = n /\ IsFiniteSet(1 .. n)
  <2>1. n - 1 + 1 = n /\ 1 \in Int /\ n \in Int
    BY <1>4
  <2> QED BY <2>1, <1>4, FS_Interval
<1>7. Cardinality(S) = n
  BY <1>5, <1>6, FS_Bijection, Fun_ExistsBij DEF ExistsBijection
<1> QED BY <1>1, <1>2, <1>7 DEF isSupermajority

\* Any two accepted lists share more than a third of the validator set: two
\* conflicting messages can only both be accepted if that many signed both.
THEOREM QuorumsIntersect ==
    ASSUME NEW V, IsFiniteSet(V),
           NEW s \in Seq(Nat), Accepts(V, s),
           NEW t \in Seq(Nat), Accepts(V, t)
    PROVE  Cardinality(Signers(s) \cap Signers(t)) * 3 > Cardinality(V)
<1> DEFINE S == Signers(s)
           T == Signers(t)
<1>1. /\ S \subseteq V /\ Cardinality(S) * 3 > Cardinality(V) * 2
      /\ T \subseteq V /\ Cardinality(T) * 3 > Cardinality(V) * 2
  BY AcceptedSignersAreAQuorum
<1> HIDE DEF S, T
<1>2. IsFiniteSet(S) /\ IsFiniteSet(T)
  BY <1>1, FS_Subset
<1>3. Cardinality(S \cup T) = Cardinality(S) + Cardinality(T) - Cardinality(S \cap T)
  BY <1>2, FS_Union
<1>4. Cardinality(S \cup T) <= Cardinality(V)
  BY <1>1, FS_Subset
<1>5. IsFiniteSet(S \cap T) /\ IsFiniteSet(S \cup T)
  BY <1>2, FS_Intersection, FS_Union
<1>6. /\ Cardinality(S) \in Nat /\ Cardinality(T) \in Nat /\ Cardinality(V) \in Nat
      /\ Cardinality(S \cap T) \in Nat /\ Cardinality(S \cup T) \in Nat
  BY <1>2, <1>5, FS_CardinalityType
<1>7. Cardinality(S \cap T) * 3 > Cardinality(V)
  BY <1>1, <1>3, <1>4, <1>6
<1> QED BY <1>7 DEF S, T

\* A set of validators too small to be a supermajority cannot fill an accepted
\* list: some signer is outside it.
THEOREM AcceptedNeedsOutsider ==
    ASSUME NEW V, IsFiniteSet(V), NEW s \in Seq(Nat), Accepts(V, s),
           NEW F \in SUBSET V, ~(Cardinality(F) * 3 > Cardinality(V) * 2)
    PROVE  \E i \in 1 .. Len(s) : s[i] \notin F
<1>1. SUFFICES ASSUME \A i \in 1 .. Len(s) : s[i] \in F PROVE FALSE
  OBVIOUS
<1>2. Cardinality(Signers(s)) * 3 > Cardinality(V) * 2
  BY AcceptedSignersAreAQuorum
<1>3. Signers(s) \subseteq F
  BY <1>1 DEF Signers
<1>4. IsFiniteSet(F)
  BY FS_Subset
<1>5. Cardinality(Signers(s)) <= Cardinality(F) /\ IsFiniteSet(Signers(s))
  BY <1>3, <1>4, FS_Subset
<1>6. /\ Cardinality(Signers(s)) \in Nat
      /\ Cardinality(F) \in Nat /\ Cardinality(V) \in Nat
  BY <1>4, <1>5, FS_CardinalityType
<1> QED BY <1>2, <1>5, <1>6
=============================================================================
