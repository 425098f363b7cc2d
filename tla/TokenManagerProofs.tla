------------------------ MODULE TokenManagerProofs ------------------------
(***************************************************************************)
(* The token managers keep every bridged token backed and pay every        *)
(* transfer, for any number of chains, decimals and amounts, and any       *)
(* sequence of messages and operations of the owner; the page that reports *)
(* on a transfer misses no dispatch it listens for.                        *)
(***************************************************************************)
EXTENDS BridgeToast, FiniteSetTheorems, WellFoundedInduction, TLAPS

-----------------------------------------------------------------------------
(* Induction, for sets of naturals *)

\* Every non-empty set of naturals has a least element.
LEMMA LeastOfNaturals ==
    ASSUME NEW T \in SUBSET Nat, T # {}
    PROVE  \E n \in T : \A k \in T : n <= k
<1> DEFINE R == OpToRel(<, Nat)
<1>1. IsWellFoundedOn(R, Nat)
  BY NatLessThanWellFounded
<1>2. PICK n \in T : \A k \in T : <<k, n>> \notin R
  <2> HIDE DEF R
  <2> QED BY <1>1, WFMin
<1>3. \A k \in T : ~(k < n)
  BY <1>2 DEF OpToRel
<1> QED BY <1>3

\* A set that holds 0 and the successor of each of its members is Nat.
LEMMA SetInduction ==
    ASSUME NEW T \in SUBSET Nat, 0 \in T, \A n \in T : n + 1 \in T
    PROVE  T = Nat
<1>1. SUFFICES ASSUME Nat \ T # {} PROVE FALSE
  OBVIOUS
<1>2. PICK n \in Nat \ T : \A k \in Nat \ T : n <= k
  BY <1>1, LeastOfNaturals
<1>3. n # 0 /\ n - 1 \in Nat
  BY <1>2
<1>4. n - 1 \in T
  BY <1>2, <1>3
<1>5. (n - 1) + 1 \in T
  BY <1>4
<1> QED BY <1>2, <1>3, <1>5

-----------------------------------------------------------------------------
(* Powers *)

IsPower(p, k) ==
    /\ p \in [0 .. k -> Nat]
    /\ p[0] = 1
    /\ \A i \in 1 .. k : p[i] = Base * p[i - 1]

\* There are powers of the base, up to any exponent.
LEMMA PowersExist == \A k \in Nat : \E p : IsPower(p, k)
<1> DEFINE T == {k \in Nat : \E p : IsPower(p, k)}
<1>1. 0 \in T
  <2>1. PICK p : p = [i \in 0 .. 0 |-> 1]
    OBVIOUS
  <2>2. IsPower(p, 0)
    BY <2>1 DEF IsPower
  <2> QED BY <2>2
<1>2. ASSUME NEW k \in T PROVE k + 1 \in T
  <2>1. PICK p : IsPower(p, k)
    OBVIOUS
  <2>2. PICK q : q = [i \in 0 .. k + 1 |-> IF i = k + 1 THEN Base * p[k] ELSE p[i]]
    OBVIOUS
  <2>3. k \in Nat /\ Base \in Nat /\ p \in [0 .. k -> Nat] /\ k \in 0 .. k
    BY <2>1, TokenManagerAssumption DEF IsPower
  <2>4. Base * p[k] \in Nat
    BY <2>3
  <2>5. q \in [0 .. k + 1 -> Nat]
    <3>1. \A i \in 0 .. k + 1 : i # k + 1 => i \in 0 .. k
      BY <2>3
    <3> QED BY <2>2, <2>3, <2>4, <3>1
  <2>6. q[0] = 1
    BY <2>1, <2>2, <2>3 DEF IsPower
  <2>7. \A i \in 1 .. k + 1 : q[i] = Base * q[i - 1]
    <3>1. SUFFICES ASSUME NEW i \in 1 .. k + 1 PROVE q[i] = Base * q[i - 1]
      OBVIOUS
    <3>2. i \in 0 .. k + 1 /\ i - 1 \in 0 .. k + 1 /\ i - 1 # k + 1 /\ i \in Int
      BY <2>3
    <3>3. q[i - 1] = p[i - 1]
      BY <2>2, <3>2
    <3>4. CASE i = k + 1
      BY <2>2, <2>3, <3>2, <3>3, <3>4
    <3>5. CASE i # k + 1
      <4>1. i \in 1 .. k
        BY <2>3, <3>5
      <4>2. q[i] = p[i]
        BY <2>2, <3>2, <3>5
      <4> QED BY <2>1, <3>3, <4>1, <4>2 DEF IsPower
    <3> QED BY <3>4, <3>5
  <2>8. IsPower(q, k + 1)
    BY <2>5, <2>6, <2>7 DEF IsPower
  <2> QED BY <2>3, <2>8
<1>3. T = Nat
  <2> HIDE DEF T
  <2>1. T \subseteq Nat
    BY DEF T
  <2> QED BY <1>1, <1>2, <2>1, SetInduction
<1> QED BY <1>3

\* What power computes.
LEMMA PowerValues ==
    /\ power[0] = 1
    /\ \A n \in 0 .. MaxDecimals : power[n] \in Nat
    /\ \A n \in 1 .. MaxDecimals : power[n] = Base * power[n - 1]
<1> DEFINE F(p) == [n \in 0 .. MaxDecimals |-> IF n = 0 THEN 1 ELSE Base * p[n - 1]]
<1>0. MaxDecimals \in Nat
  BY DEF MaxDecimals
<1>1. PICK p : IsPower(p, MaxDecimals)
  BY <1>0, PowersExist
<1>2. p = F(p)
  <2>1. \A n \in 0 .. MaxDecimals : p[n] = F(p)[n]
    <3>1. SUFFICES ASSUME NEW n \in 0 .. MaxDecimals PROVE p[n] = F(p)[n]
      OBVIOUS
    <3>2. CASE n = 0
      BY <1>1, <3>2 DEF IsPower
    <3>3. CASE n # 0
      <4>1. n \in 1 .. MaxDecimals
        BY <1>0, <3>3
      <4> QED BY <1>1, <3>3, <4>1 DEF IsPower
    <3> QED BY <3>2, <3>3
  <2> QED BY <1>1, <2>1 DEF IsPower
<1>3. power = CHOOSE q : q = F(q)
  BY DEF power
<1>4. power = F(power)
  <2> HIDE DEF F
  <2> QED BY <1>2, <1>3
<1>5. power[0] = 1
  BY <1>0, <1>4
<1>6. \A n \in 1 .. MaxDecimals : power[n] = Base * power[n - 1]
  <2>1. SUFFICES ASSUME NEW n \in 1 .. MaxDecimals PROVE power[n] = Base * power[n - 1]
    OBVIOUS
  <2>2. n \in 0 .. MaxDecimals /\ n # 0
    BY <1>0
  <2> QED BY <1>4, <2>2
<1>7. \A n \in 0 .. MaxDecimals : power[n] \in Nat
  <2> DEFINE T == {n \in Nat : n <= MaxDecimals => power[n] \in Nat}
  <2>1. 0 \in T
    BY <1>5
  <2>2. ASSUME NEW n \in T PROVE n + 1 \in T
    <3>1. SUFFICES ASSUME n + 1 <= MaxDecimals PROVE power[n + 1] \in Nat
      OBVIOUS
    <3>2. n \in Nat /\ n + 1 \in 1 .. MaxDecimals /\ (n + 1) - 1 = n /\ n <= MaxDecimals
      BY <1>0, <3>1
    <3>3. power[n] \in Nat /\ Base \in Nat
      BY <3>2, TokenManagerAssumption
    <3>4. power[n + 1] = Base * power[n]
      BY <1>6, <3>2
    <3> QED BY <3>3, <3>4
  <2>3. T = Nat
    <3> HIDE DEF T
    <3>1. T \subseteq Nat
      BY DEF T
    <3> QED BY <2>1, <2>2, <3>1, SetInduction
  <2> QED BY <1>0, <2>3
<1> QED BY <1>5, <1>6, <1>7

\* A product of positive naturals is one.
LEMMA PositiveProduct ==
    ASSUME NEW a \in Nat \ {0}, NEW b \in Nat \ {0}
    PROVE  a * b \in Nat \ {0}
OBVIOUS

\* Powers are positive.
LEMMA PowerPositive == \A n \in 0 .. MaxDecimals : power[n] \in Nat \ {0}
<1> DEFINE T == {n \in Nat : n <= MaxDecimals => power[n] \in Nat \ {0}}
<1>0. MaxDecimals \in Nat /\ Base \in Nat \ {0}
  BY TokenManagerAssumption DEF MaxDecimals
<1>1. 0 \in T
  BY PowerValues
<1>2. ASSUME NEW n \in T PROVE n + 1 \in T
  <2>1. SUFFICES ASSUME n + 1 <= MaxDecimals PROVE power[n + 1] \in Nat \ {0}
    OBVIOUS
  <2>2. n \in Nat /\ n + 1 \in 1 .. MaxDecimals /\ (n + 1) - 1 = n /\ n <= MaxDecimals
    BY <1>0, <2>1
  <2>3. power[n] \in Nat \ {0}
    BY <2>2
  <2>4. power[n + 1] = Base * power[n]
    BY <2>2, PowerValues
  <2> QED BY <1>0, <2>3, <2>4, PositiveProduct
<1>3. T = Nat
  <2> HIDE DEF T
  <2>1. T \subseteq Nat
    BY DEF T
  <2> QED BY <1>1, <1>2, <2>1, SetInduction
<1> QED BY <1>0, <1>3

\* The powers of a sum.
LEMMA PowerAdds ==
    ASSUME NEW m \in Nat
    PROVE  \A n \in Nat : m + n <= MaxDecimals => power[m + n] = power[m] * power[n]
<1> DEFINE T == {n \in Nat : m + n <= MaxDecimals => power[m + n] = power[m] * power[n]}
<1>0. MaxDecimals \in Nat /\ Base \in Nat
  BY TokenManagerAssumption DEF MaxDecimals
<1>1. 0 \in T
  <2>1. SUFFICES ASSUME m <= MaxDecimals PROVE power[m + 0] = power[m] * power[0]
    BY <1>0
  <2>2. power[m] \in Nat /\ power[0] = 1 /\ m + 0 = m
    BY <1>0, <2>1, PowerValues
  <2> QED BY <2>2
<1>2. ASSUME NEW n \in T PROVE n + 1 \in T
  <2>1. SUFFICES ASSUME m + (n + 1) <= MaxDecimals PROVE power[m + (n + 1)] = power[m] * power[n + 1]
    OBVIOUS
  <2>2. /\ n \in Nat /\ m + n <= MaxDecimals /\ m \in 0 .. MaxDecimals /\ n \in 0 .. MaxDecimals
        /\ n + 1 \in 1 .. MaxDecimals /\ (n + 1) - 1 = n
        /\ m + (n + 1) \in 1 .. MaxDecimals /\ (m + (n + 1)) - 1 = m + n
    BY <1>0, <2>1
  <2>3. power[m + (n + 1)] = Base * power[m + n] /\ power[n + 1] = Base * power[n]
    BY <2>2, PowerValues
  <2>4. power[m + n] = power[m] * power[n]
    BY <2>2
  <2>5. power[m] \in Nat /\ power[n] \in Nat
    BY <2>2, PowerValues
  <2>6. \A a, b, x \in Nat : x * (a * b) = a * (x * b)
    OBVIOUS
  <2> QED BY <1>0, <2>3, <2>4, <2>5, <2>6
<1>3. T = Nat
  <2> HIDE DEF T
  <2>1. T \subseteq Nat
    BY DEF T
  <2> QED BY <1>1, <1>2, <2>1, SetInduction
<1> QED BY <1>3

-----------------------------------------------------------------------------
(* The worth of an amount *)

unit(c) == power[Finest - Decimals[c]]

\* The decimals of the chains.
LEMMA DecimalsTypes ==
    /\ MaxDecimals \in Nat
    /\ \A c \in Chains : Decimals[c] \in Nat /\ Decimals[c] <= MaxDecimals
    /\ Home \in Chains /\ Remotes \subseteq Chains
BY TokenManagerAssumption DEF MaxDecimals, Chains

\* No token has more decimals than the finest.
LEMMA FinestIsMax ==
    /\ Finest \in Nat /\ Finest <= MaxDecimals
    /\ \A c \in Chains : Decimals[c] <= Finest
<1> DEFINE D == {Decimals[d] : d \in Chains}
           T == {MaxDecimals - d : d \in D}
<1>1. D \in SUBSET Nat /\ D # {} /\ \A d \in D : d <= MaxDecimals
  BY DecimalsTypes
<1>2. T \in SUBSET Nat /\ T # {}
  BY <1>1, DecimalsTypes
<1>3. PICK n \in T : \A k \in T : n <= k
  <2> HIDE DEF T
  <2> QED BY <1>2, LeastOfNaturals
<1>4. PICK x \in D : n = MaxDecimals - x
  OBVIOUS
<1>5. \A y \in D : x >= y
  <2>1. SUFFICES ASSUME NEW y \in D PROVE x >= y
    OBVIOUS
  <2>2. MaxDecimals - x <= MaxDecimals - y
    BY <1>3, <1>4
  <2> HIDE DEF D
  <2>3. x \in Nat /\ y \in Nat
    BY <1>1
  <2> QED BY <2>2, <2>3, DecimalsTypes
<1>6. Max(D) \in D /\ \A y \in D : Max(D) >= y
  <2> HIDE DEF D
  <2> QED BY <1>5 DEF Max
<1>7. Finest \in Nat /\ Finest <= MaxDecimals
  BY <1>1, <1>6 DEF Finest
<1>8. \A c \in Chains : Decimals[c] <= Finest
  <2>1. SUFFICES ASSUME NEW c \in Chains PROVE Decimals[c] <= Finest
    OBVIOUS
  <2>2. Finest >= Decimals[c]
    BY <1>6 DEF Finest
  <2> QED BY <1>7, <2>2, DecimalsTypes
<1> QED BY <1>7, <1>8

\* A unit of a coarser token is worth a power of units of a finer one.
LEMMA Units ==
    /\ \A c \in Chains : /\ unit(c) \in Nat \ {0}
                         /\ power[Decimals[c]] \in Nat \ {0}
                         /\ unit(c) * power[Decimals[c]] = power[Finest]
    /\ \A c, t \in Chains : Decimals[c] <= Decimals[t] =>
          /\ power[Decimals[t] - Decimals[c]] \in Nat \ {0}
          /\ unit(c) = power[Decimals[t] - Decimals[c]] * unit(t)
    /\ power[Finest] \in Nat \ {0}
<1>0. Finest \in 0 .. MaxDecimals
  BY FinestIsMax, DecimalsTypes
<1>1. ASSUME NEW c \in Chains
      PROVE  /\ unit(c) \in Nat \ {0}
             /\ power[Decimals[c]] \in Nat \ {0}
             /\ unit(c) * power[Decimals[c]] = power[Finest]
  <2>1. Decimals[c] \in Nat /\ Decimals[c] <= Finest /\ Finest \in Nat /\ Finest <= MaxDecimals /\ MaxDecimals \in Nat
    BY FinestIsMax, DecimalsTypes
  <2>2. /\ Finest - Decimals[c] \in 0 .. MaxDecimals /\ Decimals[c] \in 0 .. MaxDecimals
        /\ Finest - Decimals[c] \in Nat /\ (Finest - Decimals[c]) + Decimals[c] = Finest
    BY <2>1
  <2> QED BY <2>1, <2>2, PowerPositive, PowerAdds DEF unit
<1>2. ASSUME NEW c \in Chains, NEW t \in Chains, Decimals[c] <= Decimals[t]
      PROVE  /\ power[Decimals[t] - Decimals[c]] \in Nat \ {0}
             /\ unit(c) = power[Decimals[t] - Decimals[c]] * unit(t)
  <2>1. /\ Decimals[c] \in Nat /\ Decimals[c] <= Finest /\ Finest \in Nat /\ Finest <= MaxDecimals /\ MaxDecimals \in Nat
        /\ Decimals[t] \in Nat /\ Decimals[t] <= Finest
    BY FinestIsMax, DecimalsTypes
  <2>2. PICK a \in Nat : a = Decimals[t] - Decimals[c]
    BY <1>2, <2>1
  <2>3. PICK b \in Nat : b = Finest - Decimals[t]
    BY <2>1
  <2>4. a + b = Finest - Decimals[c] /\ a + b <= MaxDecimals /\ a \in 0 .. MaxDecimals
    BY <2>1, <2>2, <2>3
  <2>5. power[a + b] = power[a] * power[b]
    BY <2>4, PowerAdds
  <2> QED BY <2>2, <2>3, <2>4, <2>5, PowerPositive DEF unit
<1> QED BY <1>0, <1>1, <1>2, PowerPositive

-----------------------------------------------------------------------------
(* Sums *)

\* A family of subsets of a finite set that holds the empty set, and each set
\* it holds whenever one element is left out, holds them all.
LEMMA SubsetInduction ==
    ASSUME NEW S, IsFiniteSet(S), NEW G \in SUBSET (SUBSET S), {} \in G,
           \A s \in SUBSET S : s # {} /\ (\A x \in s : s \ {x} \in G) => s \in G
    PROVE  G = SUBSET S
<1> DEFINE T == {n \in Nat : \A s \in SUBSET S : Cardinality(s) = n => s \in G}
<1>1. \A s \in SUBSET S : IsFiniteSet(s) /\ Cardinality(s) \in Nat
  BY FS_Subset, FS_CardinalityType
<1>2. 0 \in T
  BY <1>1, FS_EmptySet
<1>3. ASSUME NEW n \in T PROVE n + 1 \in T
  <2>1. SUFFICES ASSUME NEW s \in SUBSET S, Cardinality(s) = n + 1 PROVE s \in G
    OBVIOUS
  <2>2. s # {}
    <3>1. n + 1 # 0
      OBVIOUS
    <3> QED BY <2>1, <3>1, FS_EmptySet
  <2>3. ASSUME NEW x \in s PROVE Cardinality(s \ {x}) = n
    <3>1. Cardinality(s \ {x}) = Cardinality(s) - 1
      BY <1>1, FS_RemoveElement
    <3> QED BY <2>1, <3>1
  <2>4. \A x \in s : s \ {x} \in G
    BY <2>3
  <2> QED BY <2>2, <2>4
<1>4. T = Nat
  <2> HIDE DEF T
  <2>1. T \subseteq Nat
    BY DEF T
  <2> QED BY <1>2, <1>3, <2>1, SetInduction
<1>5. \A s \in SUBSET S : s \in G
  BY <1>1, <1>4
<1> QED BY <1>5

\* h gives the sum of f over each subset of S, whatever the order.
IsTotal(h, f, S) ==
    /\ h \in [SUBSET S -> Int]
    /\ h[{}] = 0
    /\ \A s \in SUBSET S : \A x \in s : h[s] = f[x] + h[s \ {x}]

\* Finitely many integers have sums.
LEMMA TotalsExist ==
    ASSUME NEW S, IsFiniteSet(S), NEW f, \A x \in S : f[x] \in Int
    PROVE  \E h : IsTotal(h, f, S)
<1> DEFINE G == {s \in SUBSET S : \E h : IsTotal(h, f, s)}
<1>1. {} \in G
  <2>1. PICK h : h = [s \in SUBSET {} |-> 0]
    OBVIOUS
  <2>2. IsTotal(h, f, {})
    BY <2>1 DEF IsTotal
  <2> QED BY <2>2
<1>2. ASSUME NEW s \in SUBSET S, NEW x \in s, s \ {x} \in G PROVE s \in G
  <2>1. PICK g : IsTotal(g, f, s \ {x})
    BY <1>2
  <2>2. PICK h : h = [u \in SUBSET s |-> IF x \in u THEN f[x] + g[u \ {x}] ELSE g[u]]
    OBVIOUS
  <2>3. \A u \in SUBSET s : /\ u \ {x} \in SUBSET (s \ {x})
                            /\ x \notin u => u \in SUBSET (s \ {x})
    OBVIOUS
  <2>4. \A u \in SUBSET (s \ {x}) : g[u] \in Int
    BY <2>1 DEF IsTotal
  <2>5. f[x] \in Int
    OBVIOUS
  <2>6. \A u \in SUBSET s : h[u] \in Int
    <3>1. SUFFICES ASSUME NEW u \in SUBSET s PROVE h[u] \in Int
      OBVIOUS
    <3>2. g[u \ {x}] \in Int /\ (x \notin u => g[u] \in Int)
      BY <2>3, <2>4
    <3> QED BY <2>2, <2>5, <3>2
  <2>7. h \in [SUBSET s -> Int]
    BY <2>2, <2>6
  <2>8. h[{}] = 0
    <3>1. {} \in SUBSET s /\ x \notin {}
      OBVIOUS
    <3>2. h[{}] = g[{}]
      BY <2>2, <3>1
    <3> QED BY <2>1, <3>2 DEF IsTotal
  <2>9. ASSUME NEW u \in SUBSET s, NEW y \in u PROVE h[u] = f[y] + h[u \ {y}]
    <3>1. u \ {y} \in SUBSET s /\ f[y] \in Int
      OBVIOUS
    <3>2. CASE x \notin u
      <4>1. h[u] = g[u] /\ h[u \ {y}] = g[u \ {y}]
        BY <2>2, <3>1, <3>2
      <4>2. g[u] = f[y] + g[u \ {y}]
        BY <2>1, <2>3, <3>2 DEF IsTotal
      <4> QED BY <4>1, <4>2
    <3>3. CASE x \in u /\ y = x
      <4>1. h[u] = f[x] + g[u \ {x}] /\ h[u \ {x}] = g[u \ {x}]
        BY <2>2, <3>1, <3>3
      <4> QED BY <3>3, <4>1
    <3>4. CASE x \in u /\ y # x
      <4>1. PICK w : w = (u \ {x}) \ {y}
        OBVIOUS
      <4>2. w = (u \ {y}) \ {x} /\ x \in u \ {y}
        BY <3>4, <4>1
      <4>3. h[u] = f[x] + g[u \ {x}] /\ h[u \ {y}] = f[x] + g[w]
        BY <2>2, <3>1, <3>4, <4>2
      <4>4. g[u \ {x}] = f[y] + g[w]
        <5>1. u \ {x} \in SUBSET (s \ {x}) /\ y \in u \ {x}
          BY <2>3, <3>4
        <5> QED BY <2>1, <4>1, <5>1 DEF IsTotal
      <4>5. g[w] \in Int
        <5>1. w \in SUBSET (s \ {x})
          BY <4>1
        <5> QED BY <2>4, <5>1
      <4> QED BY <2>5, <3>1, <4>3, <4>4, <4>5
    <3> QED BY <3>2, <3>3, <3>4
  <2>10. IsTotal(h, f, s)
    BY <2>7, <2>8, <2>9 DEF IsTotal
  <2> QED BY <2>10
<1>3. G = SUBSET S
  <2> HIDE DEF G
  <2>1. G \in SUBSET (SUBSET S)
    BY DEF G
  <2>2. \A s \in SUBSET S : s # {} /\ (\A x \in s : s \ {x} \in G) => s \in G
    BY <1>2
  <2> QED BY <1>1, <2>1, <2>2, SubsetInduction
<1>4. S \in G
  BY <1>3
<1> QED BY <1>4

\* The fold of the library computes the sum.
LEMMA SumIsTotal ==
    ASSUME NEW f, IsFiniteSet(DOMAIN f), \A x \in DOMAIN f : f[x] \in Int,
           NEW h, IsTotal(h, f, DOMAIN f)
    PROVE  SumFunction(f) = h[DOMAIN f]
<1> DEFINE S == DOMAIN f
           F(i) == [s \in SUBSET S |-> IF s = {} THEN 0
                       ELSE f[CHOOSE x \in s : TRUE] + i[s \ {CHOOSE x \in s : TRUE}]]
<1>1. h = F(h)
  <2>1. \A s \in SUBSET S : h[s] = F(h)[s]
    <3>1. SUFFICES ASSUME NEW s \in SUBSET S PROVE h[s] = F(h)[s]
      OBVIOUS
    <3>2. CASE s = {}
      BY <3>2 DEF IsTotal
    <3>3. CASE s # {}
      <4>1. PICK x : x = CHOOSE y \in s : TRUE
        OBVIOUS
      <4>2. x \in s
        BY <3>3, <4>1
      <4>3. h[s] = f[x] + h[s \ {x}]
        BY <4>2 DEF IsTotal
      <4> QED BY <3>3, <4>1, <4>3
    <3> QED BY <3>2, <3>3
  <2>2. h \in [SUBSET S -> Int]
    BY DEF IsTotal
  <2> QED BY <2>1, <2>2
<1>2. PICK iter : iter = CHOOSE i : i = F(i)
  OBVIOUS
<1>3. iter = F(iter)
  <2> HIDE DEF F
  <2> QED BY <1>1, <1>2
<1>4. SumFunction(f) = iter[S]
  BY <1>2 DEF SumFunction, SumFunctionOnSet, FoldFunctionOnSet, MapThenFoldSet
<1> DEFINE G == {s \in SUBSET S : iter[s] = h[s]}
<1>5. {} \in G
  BY <1>3 DEF IsTotal
<1>6. \A s \in SUBSET S : s # {} /\ (\A x \in s : s \ {x} \in G) => s \in G
  <2>1. SUFFICES ASSUME NEW s \in SUBSET S, s # {}, \A x \in s : s \ {x} \in G
                 PROVE  iter[s] = h[s]
    OBVIOUS
  <2>2. PICK x : x = CHOOSE y \in s : TRUE
    OBVIOUS
  <2>3. x \in s
    BY <2>1, <2>2
  <2>4. h[s] = f[x] + h[s \ {x}]
    BY <2>3 DEF IsTotal
  <2>5. iter[s] = f[x] + iter[s \ {x}]
    BY <1>3, <2>1, <2>2
  <2>6. iter[s \ {x}] = h[s \ {x}]
    BY <2>1, <2>3
  <2> QED BY <2>4, <2>5, <2>6
<1>7. S \in G
  <2> HIDE DEF G
  <2>1. G \in SUBSET (SUBSET S)
    BY DEF G
  <2>2. G = SUBSET S
    <3> HIDE DEF S
    <3>1. IsFiniteSet(S)
      BY DEF S
    <3> QED BY <1>5, <1>6, <2>1, <3>1, SubsetInduction
  <2> QED BY <2>2
<1> QED BY <1>4, <1>7

\* The sum of integers, and of naturals.
LEMMA SumType ==
    ASSUME NEW S, IsFiniteSet(S), NEW f \in [S -> Int]
    PROVE  /\ SumFunction(f) \in Int
           /\ (\A x \in S : f[x] >= 0) => SumFunction(f) >= 0
<1>1. PICK h : IsTotal(h, f, S)
  BY TotalsExist
<1>2. SumFunction(f) = h[S] /\ h[S] \in Int
  BY <1>1, SumIsTotal DEF IsTotal
<1>3. ASSUME \A x \in S : f[x] >= 0 PROVE h[S] >= 0
  <2> DEFINE G == {s \in SUBSET S : h[s] >= 0}
  <2>1. {} \in G
    BY <1>1 DEF IsTotal
  <2>2. ASSUME NEW s \in SUBSET S, s # {}, \A x \in s : s \ {x} \in G PROVE s \in G
    <3>1. PICK x \in s : TRUE
      BY <2>2
    <3>2. h[s] = f[x] + h[s \ {x}] /\ h[s \ {x}] \in Int
      BY <1>1 DEF IsTotal
    <3>3. h[s \ {x}] >= 0 /\ f[x] >= 0 /\ f[x] \in Int
      BY <1>3, <2>2
    <3>4. h[s] >= 0
      BY <3>2, <3>3
    <3> QED BY <3>4
  <2>3. G = SUBSET S
    <3> HIDE DEF G
    <3>1. G \in SUBSET (SUBSET S)
      BY DEF G
    <3> QED BY <2>1, <2>2, <3>1, SubsetInduction
  <2> QED BY <2>3
<1> QED BY <1>2, <1>3

\* Nothing sums to 0.
LEMMA SumEmpty ==
    ASSUME NEW f, DOMAIN f = {}
    PROVE  SumFunction(f) = 0
<1>1. IsFiniteSet(DOMAIN f)
  BY FS_EmptySet
<1>2. PICK h : IsTotal(h, f, DOMAIN f)
  BY <1>1, TotalsExist
<1>3. SumFunction(f) = h[DOMAIN f]
  BY <1>1, <1>2, SumIsTotal
<1> QED BY <1>2, <1>3 DEF IsTotal

\* One summand taken out.
LEMMA SumWithout ==
    ASSUME NEW S, IsFiniteSet(S), NEW f \in [S -> Int], NEW x \in S,
           NEW g \in [S \ {x} -> Int], \A y \in S \ {x} : g[y] = f[y]
    PROVE  SumFunction(f) = f[x] + SumFunction(g)
<1>1. PICK h : IsTotal(h, f, S)
  BY TotalsExist
<1>2. SumFunction(f) = h[S]
  BY <1>1, SumIsTotal
<1>3. PICK k : k = [s \in SUBSET (S \ {x}) |-> h[s]]
  OBVIOUS
<1>4. IsTotal(k, g, S \ {x})
  <2>1. k \in [SUBSET (S \ {x}) -> Int]
    BY <1>1, <1>3 DEF IsTotal
  <2>2. k[{}] = 0
    BY <1>1, <1>3 DEF IsTotal
  <2>3. ASSUME NEW s \in SUBSET (S \ {x}), NEW y \in s PROVE k[s] = g[y] + k[s \ {y}]
    <3>1. k[s] = h[s] /\ k[s \ {y}] = h[s \ {y}] /\ g[y] = f[y]
      BY <1>3
    <3>2. s \in SUBSET S
      OBVIOUS
    <3>3. h[s] = f[y] + h[s \ {y}]
      BY <1>1, <3>2 DEF IsTotal
    <3> QED BY <3>1, <3>3
  <2> QED BY <2>1, <2>2, <2>3 DEF IsTotal
<1>5. SumFunction(g) = k[S \ {x}]
  <2>1. IsFiniteSet(S \ {x})
    BY FS_RemoveElement
  <2>2. DOMAIN g = S \ {x}
    OBVIOUS
  <2> QED BY <1>4, <2>1, <2>2, SumIsTotal
<1>6. k[S \ {x}] = h[S \ {x}]
  BY <1>3
<1>7. h[S] = f[x] + h[S \ {x}]
  BY <1>1 DEF IsTotal
<1> QED BY <1>2, <1>5, <1>6, <1>7

\* One summand changed.
LEMMA SumChange ==
    ASSUME NEW S, IsFiniteSet(S), NEW f \in [S -> Int], NEW g \in [S -> Int],
           NEW x \in S, \A y \in S \ {x} : g[y] = f[y]
    PROVE  SumFunction(g) = SumFunction(f) - f[x] + g[x]
<1>1. PICK k : k = [y \in S \ {x} |-> f[y]]
  OBVIOUS
<1>2. k \in [S \ {x} -> Int]
  BY <1>1
<1>3. SumFunction(f) = f[x] + SumFunction(k) /\ SumFunction(g) = g[x] + SumFunction(k)
  BY <1>1, <1>2, SumWithout
<1>4. SumFunction(k) \in Int
  <2>1. IsFiniteSet(S \ {x})
    BY FS_RemoveElement
  <2> QED BY <1>2, <2>1, SumType
<1> QED BY <1>3, <1>4

\* A summand is at most the sum of naturals.
LEMMA SummandBound ==
    ASSUME NEW S, IsFiniteSet(S), NEW f \in [S -> Int], \A y \in S : f[y] >= 0, NEW x \in S
    PROVE  f[x] <= SumFunction(f)
<1>1. PICK k : k = [y \in S \ {x} |-> f[y]]
  OBVIOUS
<1>2. k \in [S \ {x} -> Int] /\ \A y \in S \ {x} : k[y] >= 0
  BY <1>1
<1>3. SumFunction(f) = f[x] + SumFunction(k)
  BY <1>1, <1>2, SumWithout
<1>4. SumFunction(k) \in Int /\ SumFunction(k) >= 0
  <2>1. IsFiniteSet(S \ {x})
    BY FS_RemoveElement
  <2> QED BY <1>2, <2>1, SumType
<1> QED BY <1>3, <1>4

-----------------------------------------------------------------------------
(* Scaling *)

\* worth counts in units.
LEMMA WorthIsUnits == \A c, a : worth(c, a) = a * unit(c)
BY DEF worth, unit, Finest

\* An amount that transfer() takes is worth the same on the other chain.
LEMMA ScaledIsWorthTheSame ==
    ASSUME NEW c \in Chains, NEW t \in Chains, NEW a \in Nat,
           scalesExactly(a, scaleFor(c, t))
    PROVE  /\ adjusted(a, scaleFor(c, t)) \in 0 .. MaxUint
           /\ adjusted(a, scaleFor(c, t)) * unit(t) = a * unit(c)
<1>1. /\ Decimals[c] \in Nat /\ Decimals[t] \in Nat
      /\ unit(c) \in Nat /\ unit(t) \in Nat /\ MaxUint \in Nat
  BY DecimalsTypes, Units, TokenManagerAssumption
<1>2. CASE scaleFor(c, t) < 0
  <2>1. Decimals[t] <= Decimals[c] /\ -scaleFor(c, t) = Decimals[c] - Decimals[t]
    BY <1>1, <1>2 DEF scaleFor
  <2>2. PICK k \in Nat \ {0} : k = power[-scaleFor(c, t)]
    BY <2>1, Units
  <2>3. unit(t) = k * unit(c)
    BY <2>1, <2>2, Units
  <2>4. PICK q \in Nat : q = adjusted(a, scaleFor(c, t))
    BY <1>2, <2>2 DEF adjusted
  <2>5. q * k = a /\ q <= MaxUint
    BY <1>2, <2>2, <2>4 DEF scalesExactly, reconstructed
  <2>6. \A x, y, z \in Nat : x * (y * z) = (x * y) * z
    OBVIOUS
  <2> QED BY <1>1, <2>3, <2>4, <2>5, <2>6
<1>3. CASE ~(scaleFor(c, t) < 0)
  <2>1. Decimals[c] <= Decimals[t] /\ scaleFor(c, t) = Decimals[t] - Decimals[c]
    BY <1>1, <1>3 DEF scaleFor
  <2>2. PICK k \in Nat \ {0} : k = power[scaleFor(c, t)]
    BY <2>1, Units
  <2>3. unit(c) = k * unit(t)
    BY <2>1, <2>2, Units
  <2>4. adjusted(a, scaleFor(c, t)) = a * k /\ a * k \in Nat /\ a * k <= MaxUint
    BY <1>3, <2>2 DEF scalesExactly, adjusted
  <2>6. \A x, y, z \in Nat : x * (y * z) = (x * y) * z
    OBVIOUS
  <2> QED BY <1>1, <2>3, <2>4, <2>6
<1> QED BY <1>2, <1>3

-----------------------------------------------------------------------------
(* The invariant of the managers *)

\* The transfers on their way to chain c, or arrived there.
Addressed(c) == {m \in relayed : m.sender = Manager /\ m.target = c}

\* Those that came from it.
SentFrom(c) == {m \in relayed : m.sender = Manager /\ m.source = c}

\* Nobody has sent the token to chain r, and nobody can.
Untouched(r) == scales[<<Home, r>>] = NoRoute /\ minted[r] = 0 /\ Addressed(r) = {}

\* The relayed messages go along the pairs, and no two are the same.
MessagesOk ==
    /\ IsFiniteSet(relayed)
    /\ \A m \in relayed : /\ <<m.source, m.target>> \in Pairs
                          /\ m.nonce <= nonceOf(m.source, m.target)

\* Scales are right wherever tokens can pass, and each transfer has the way it
\* needs unless the owner has taken it away.
RouteOk(r) ==
    /\ scales[<<Home, r>>] \in {NoRoute, scaleFor(Home, r)}
    /\ scales[<<r, Home>>] \notin {NoRoute, scaleFor(r, Home)} => Untouched(r)
    /\ r \notin ownsToken /\ <<r, Home>> \notin withdrawn
          => Untouched(r) /\ scales[<<r, Home>>] = NoRoute
    /\ (minted[r] > 0 \/ Addressed(r) # {} \/ SentFrom(r) # {})
          => (scales[<<Home, r>>] # NoRoute \/ <<Home, r>> \in withdrawn)
    /\ (scales[<<Home, r>>] # NoRoute \/ Addressed(r) # {})
          => (scales[<<r, Home>>] # NoRoute \/ <<r, Home>> \in withdrawn)
    /\ scales[<<r, Home>>] # NoRoute
          => (r \in ownsToken \/ <<r, Home>> \in withdrawn)

RoutesOk == \A r \in Remotes : RouteOk(r)

LedgerOk == TypeOK /\ locked <= Supply

ManagerInv ==
    LedgerOk /\ MessagesOk /\ RoutesOk /\ SupplyIsBacked /\ NoTransferLost

\* What the constants are.
LEMMA ConstantTypes ==
    /\ Home \notin Remotes /\ IsFiniteSet(Remotes) /\ Manager # Other
    /\ NoRoute \notin Int /\ MaxUint \in Nat /\ Supply \in Nat
    /\ MaxMessages \in Nat /\ MaxOwner \in Nat
    /\ Supply <= MaxUint
    /\ \A r \in Remotes : <<Home, r>> \in Pairs /\ <<r, Home>> \in Pairs /\ r # Home
    /\ \A p \in Pairs : /\ p = <<p[1], p[2]>> /\ p[1] \in Chains /\ p[2] \in Chains
                        /\ \/ p[1] = Home /\ p[2] \in Remotes
                           \/ p[2] = Home /\ p[1] \in Remotes
<1>1. Supply <= MaxUint
  <2>1. Home \in Chains
    BY DEF Chains
  <2>2. PICK k \in Nat \ {0} : k = power[Decimals[Home]]
    BY <2>1, Units
  <2>3. Supply * k <= MaxUint * k
    BY <2>1, <2>2, TokenManagerAssumption
  <2>4. \A a, b \in Nat : a > b => a * k > b * k
    BY <2>2
  <2> QED BY <2>3, <2>4, TokenManagerAssumption
<1>2. \A p \in Pairs : /\ p = <<p[1], p[2]>> /\ p[1] \in Chains /\ p[2] \in Chains
                       /\ \/ p[1] = Home /\ p[2] \in Remotes
                          \/ p[2] = Home /\ p[1] \in Remotes
  BY DEF Pairs, Chains
<1>3. \A r \in Remotes : <<Home, r>> \in Pairs /\ <<r, Home>> \in Pairs /\ r # Home
  BY TokenManagerAssumption DEF Pairs
<1> QED BY <1>1, <1>2, <1>3, TokenManagerAssumption

\* The differences of decimals are numbers.
LEMMA ScaleTypes == \A c, t \in Chains : scaleFor(c, t) \in Int
BY DecimalsTypes DEF scaleFor

-----------------------------------------------------------------------------
(* The two sums of SupplyIsBacked *)

mintWorth(f) == SumFunction([r \in Remotes |-> worth(r, f[r])])

messageWorth(U) == SumFunction([m \in U |-> worth(m.target, m.amount)])

\* The backing, in units.
LEMMA BackingInUnits ==
    SupplyIsBacked <=> locked * unit(Home) = mintWorth(minted) + messageWorth(Unpaid)
BY WorthIsUnits DEF SupplyIsBacked, mintWorth, messageWorth

\* A natural amount is worth a natural.
LEMMA WorthType == \A c \in Chains, a \in Nat : worth(c, a) \in Nat
<1>1. \A x, y \in Nat : x * y \in Nat
  OBVIOUS
<1> QED BY <1>1, WorthIsUnits, Units

\* The worth of the minted tokens, and of a change of them.
LEMMA MintWorth ==
    ASSUME NEW f \in [Remotes -> Nat]
    PROVE  /\ mintWorth(f) \in Nat
           /\ \A r \in Remotes : /\ f[r] * unit(r) <= mintWorth(f)
                                 /\ \A v \in Nat : mintWorth([f EXCEPT ![r] = v])
                                      = mintWorth(f) - f[r] * unit(r) + v * unit(r)
<1>1. PICK w : w = [r \in Remotes |-> worth(r, f[r])]
  OBVIOUS
<1>2. \A r \in Remotes : worth(r, f[r]) \in Nat
  BY WorthType DEF Chains
<1>3. w \in [Remotes -> Int] /\ \A r \in Remotes : w[r] >= 0
  BY <1>1, <1>2
<1>4. mintWorth(f) = SumFunction(w)
  BY <1>1 DEF mintWorth
<1>5. mintWorth(f) \in Nat
  BY <1>3, <1>4, ConstantTypes, SumType
<1>6. ASSUME NEW r \in Remotes PROVE f[r] * unit(r) <= mintWorth(f)
  BY <1>1, <1>3, <1>4, ConstantTypes, SummandBound, WorthIsUnits
<1>7. ASSUME NEW r \in Remotes, NEW v \in Nat
      PROVE  mintWorth([f EXCEPT ![r] = v]) = mintWorth(f) - f[r] * unit(r) + v * unit(r)
  <2>1. PICK g : g = [f EXCEPT ![r] = v]
    OBVIOUS
  <2>2. PICK u : u = [q \in Remotes |-> worth(q, g[q])]
    OBVIOUS
  <2>3. g \in [Remotes -> Nat]
    BY <2>1
  <2>4. \A q \in Remotes : worth(q, g[q]) \in Nat
    BY <2>3, WorthType DEF Chains
  <2>5. u \in [Remotes -> Int]
    BY <2>2, <2>4
  <2>6. \A q \in Remotes \ {r} : u[q] = w[q]
    BY <1>1, <2>1, <2>2
  <2>7. SumFunction(u) = SumFunction(w) - w[r] + u[r]
    BY <1>3, <2>5, <2>6, ConstantTypes, SumChange
  <2>8. w[r] = f[r] * unit(r) /\ u[r] = v * unit(r)
    BY <1>1, <2>1, <2>2, WorthIsUnits
  <2>9. mintWorth(g) = SumFunction(u)
    BY <2>2 DEF mintWorth
  <2> QED BY <1>4, <2>1, <2>7, <2>8, <2>9
<1> QED BY <1>5, <1>6, <1>7

\* The worth of a finite set of messages, and of one more.
LEMMA MessageWorth ==
    ASSUME NEW U \in SUBSET Messages, IsFiniteSet(U)
    PROVE  /\ messageWorth(U) \in Nat
           /\ \A m \in U : m.amount * unit(m.target) <= messageWorth(U)
           /\ \A m \in U : messageWorth(U)
                             = m.amount * unit(m.target) + messageWorth(U \ {m})
<1>1. PICK w : w = [m \in U |-> worth(m.target, m.amount)]
  OBVIOUS
<1>2. \A m \in U : m.target \in Chains /\ m.amount \in Nat
  BY ConstantTypes DEF Messages
<1>3. \A m \in U : worth(m.target, m.amount) \in Nat
  BY <1>2, WorthType
<1>4. w \in [U -> Int] /\ \A m \in U : w[m] >= 0 /\ w[m] = m.amount * unit(m.target)
  BY <1>1, <1>3, WorthIsUnits
<1>5. messageWorth(U) = SumFunction(w)
  BY <1>1 DEF messageWorth
<1>6. messageWorth(U) \in Nat
  BY <1>4, <1>5, SumType
<1>7. ASSUME NEW m \in U PROVE m.amount * unit(m.target) <= messageWorth(U)
  BY <1>4, <1>5, SummandBound
<1>8. ASSUME NEW m \in U
      PROVE  messageWorth(U) = m.amount * unit(m.target) + messageWorth(U \ {m})
  <2>1. PICK v : v = [n \in U \ {m} |-> worth(n.target, n.amount)]
    OBVIOUS
  <2>2. v \in [U \ {m} -> Int] /\ \A n \in U \ {m} : v[n] = w[n]
    BY <1>1, <1>3, <2>1
  <2>3. SumFunction(w) = w[m] + SumFunction(v)
    <3>1. w \in [U -> Int]
      BY <1>4
    <3> QED BY <2>2, <3>1, SumWithout
  <2>4. messageWorth(U \ {m}) = SumFunction(v)
    BY <2>1 DEF messageWorth
  <2> QED BY <1>4, <1>5, <2>3, <2>4
<1> QED BY <1>6, <1>7, <1>8

-----------------------------------------------------------------------------
(* The first state *)

\* A token as first deployed.
LEMMA ManagerInit == Init => ManagerInv
<1> SUFFICES ASSUME Init PROVE ManagerInv
  OBVIOUS
<1> USE DEF Init
<1>1. relayed = {} /\ Unpaid = {}
  BY DEF relayed, Unpaid
<1>2. ownsToken \subseteq Remotes
  BY TokenManagerAssumption
<1>3. scales \in [Pairs -> Int \cup {NoRoute}]
  BY ConstantTypes, ScaleTypes
<1>4. minted \in [Remotes -> 0 .. MaxUint] /\ locked \in 0 .. MaxUint
  BY ConstantTypes
<1>5. LedgerOk
  BY <1>1, <1>2, <1>3, <1>4, ConstantTypes DEF LedgerOk, TypeOK
<1>6. MessagesOk
  BY <1>1, FS_EmptySet DEF MessagesOk
<1>7. RoutesOk
  <2>1. SUFFICES ASSUME NEW r \in Remotes PROVE RouteOk(r)
    BY DEF RoutesOk
  <2>2. <<Home, r>> \in Pairs /\ <<r, Home>> \in Pairs /\ r # Home /\ Home \notin ownsToken
    BY <1>2, ConstantTypes
  <2>3. Addressed(r) = {} /\ SentFrom(r) = {}
    BY <1>1 DEF Addressed, SentFrom
  <2>4. minted[r] = 0
    OBVIOUS
  <2>5. /\ scales[<<Home, r>>] = IF r \in ownsToken THEN scaleFor(Home, r) ELSE NoRoute
        /\ scales[<<r, Home>>] = IF r \in ownsToken THEN scaleFor(r, Home) ELSE NoRoute
    <3>1. {Home, r} \cap ownsToken # {} <=> r \in ownsToken
      BY <2>2
    <3>2. {r, Home} \cap ownsToken # {} <=> r \in ownsToken
      BY <2>2
    <3> QED BY <2>2, <3>1, <3>2
  <2>6. scaleFor(Home, r) # NoRoute /\ scaleFor(r, Home) # NoRoute
    BY ConstantTypes, ScaleTypes DEF Chains
  <2> QED BY <2>3, <2>4, <2>5, <2>6 DEF RouteOk, Untouched
<1>8. SupplyIsBacked
  <2>1. messageWorth(Unpaid) = 0
    BY <1>1, SumEmpty DEF messageWorth
  <2>2. mintWorth(minted) = 0
    <3> DEFINE G == {s \in SUBSET Remotes : SumFunction([r \in s |-> worth(r, 0)]) = 0}
    <3>1. {} \in G
      BY SumEmpty
    <3>2. ASSUME NEW s \in SUBSET Remotes, s # {}, \A x \in s : s \ {x} \in G PROVE s \in G
      <4>1. PICK x \in s : TRUE
        BY <3>2
      <4>2. \A r \in s : worth(r, 0) = 0
        <5>1. \A n \in Nat : 0 * n = 0
          OBVIOUS
        <5> QED BY <5>1, WorthIsUnits, Units DEF Chains
      <4>3. PICK f : f = [r \in s |-> worth(r, 0)]
        OBVIOUS
      <4>4. PICK g : g = [r \in s \ {x} |-> worth(r, 0)]
        OBVIOUS
      <4>5. /\ f \in [s -> Int]
            /\ g \in [s \ {x} -> Int]
            /\ \A r \in s \ {x} : g[r] = f[r]
        BY <4>2, <4>3, <4>4
      <4>6. IsFiniteSet(s)
        BY ConstantTypes, FS_Subset
      <4>7. SumFunction(f) = f[x] + SumFunction(g)
        BY ONLY <4>1, <4>5, <4>6, SumWithout
      <4>8. f[x] = 0 /\ SumFunction(g) = 0
        BY <3>2, <4>2, <4>3, <4>4
      <4> QED BY <4>3, <4>7, <4>8
    <3>3. G = SUBSET Remotes
      <4> HIDE DEF G
      <4>1. G \in SUBSET (SUBSET Remotes)
        BY DEF G
      <4> QED BY <3>1, <3>2, <4>1, ConstantTypes, SubsetInduction
    <3>4. Remotes \in G
      BY <3>3
    <3>5. [r \in Remotes |-> worth(r, minted[r])] = [r \in Remotes |-> worth(r, 0)]
      OBVIOUS
    <3> QED BY <3>4, <3>5 DEF mintWorth
  <2>3. 0 * unit(Home) = 0
    BY Units DEF Chains
  <2> QED BY <2>1, <2>2, <2>3, BackingInUnits
<1>9. NoTransferLost
  BY <1>1 DEF NoTransferLost
<1> QED BY <1>5, <1>6, <1>7, <1>8, <1>9 DEF ManagerInv

-----------------------------------------------------------------------------
(* Messages *)

\* The backing after a step, in units.
LEMMA BackingAfter ==
    SupplyIsBacked' <=>
        locked' * unit(Home) = mintWorth(minted') + messageWorth(Unpaid')
BY WorthIsUnits DEF SupplyIsBacked, mintWorth, messageWorth

\* The count of a pair's messages does not fall while messages are added.
LEMMA NoncesGrow ==
    ASSUME IsFiniteSet(relayed'), relayed \subseteq relayed'
    PROVE  \A c, t : nonceOf(c, t) \in Nat /\ nonceOf(c, t) <= nonceOf(c, t)'
<1>1. SUFFICES ASSUME NEW c, NEW t
               PROVE  nonceOf(c, t) \in Nat /\ nonceOf(c, t) <= nonceOf(c, t)'
  OBVIOUS
<1>2. PICK A : A = {x \in relayed : x.source = c /\ x.target = t}
  OBVIOUS
<1>3. PICK B : B = {x \in relayed' : x.source = c /\ x.target = t}
  OBVIOUS
<1>4. A \in SUBSET B /\ B \in SUBSET (relayed')
  BY <1>2, <1>3
<1>5. IsFiniteSet(B)
  BY <1>4, FS_Subset
<1>6. IsFiniteSet(A) /\ Cardinality(A) <= Cardinality(B)
  BY <1>4, <1>5, FS_Subset
<1>7. nonceOf(c, t) = Cardinality(A) /\ nonceOf(c, t)' = Cardinality(B)
  BY <1>2, <1>3 DEF nonceOf
<1> QED BY <1>6, <1>7, FS_CardinalityType

\* A relay adds one message, new to the gateways.
LEMMA NewMessage ==
    ASSUME TypeOK, MessagesOk, NEW p \in Pairs, NEW s \in {Manager, Other},
           NEW b \in BOOLEAN, NEW a \in 0 .. MaxUint,
           relayWithMetadata(p[1], p[2], s, b, a)
    PROVE  /\ MessagesOk'
           /\ \E m \in Messages :
                 /\ m.source = p[1] /\ m.target = p[2] /\ m.sender = s /\ m.amount = a
                 /\ m \notin relayed /\ relayed' = relayed \cup {m}
                 /\ status'[m] = "sent" /\ \A n \in relayed : status'[n] = status[n]
<1>1. /\ IsFiniteSet(relayed) /\ Cardinality(relayed) \in Nat /\ Cardinality(relayed) < MaxMessages
      /\ relayed \subseteq Messages
  BY FS_CardinalityType DEF MessagesOk, relayWithMetadata, TypeOK
<1>2. PICK A : A = {x \in relayed : x.source = p[1] /\ x.target = p[2]}
  OBVIOUS
<1>3. /\ IsFiniteSet(A) /\ Cardinality(A) \in Nat /\ Cardinality(A) <= Cardinality(relayed)
      /\ nonceOf(p[1], p[2]) = Cardinality(A)
  <2>1. A \in SUBSET relayed
    BY <1>2
  <2>2. IsFiniteSet(A) /\ Cardinality(A) <= Cardinality(relayed)
    BY <1>1, <2>1, FS_Subset
  <2> QED BY <1>2, <2>2, FS_CardinalityType DEF nonceOf
<1>4. PICK m : m = [source |-> p[1], target |-> p[2], sender |-> s, payable |-> b,
                    amount |-> a, nonce |-> nonceOf(p[1], p[2]) + 1]
  OBVIOUS
<1>5. m \in Messages
  <2>1. Cardinality(A) + 1 \in 1 .. MaxMessages
    BY <1>1, <1>3, ConstantTypes
  <2> QED BY <1>3, <1>4, <2>1, ConstantTypes DEF Messages
<1>6. /\ m.source = p[1] /\ m.target = p[2] /\ m.sender = s /\ m.amount = a
      /\ m.nonce = Cardinality(A) + 1
  BY <1>3, <1>4
<1>7. m \notin relayed
  <2>1. SUFFICES ASSUME m \in relayed PROVE FALSE
    OBVIOUS
  <2>2. m.nonce <= nonceOf(p[1], p[2])
    BY <1>6, <2>1 DEF MessagesOk
  <2> QED BY <1>3, <1>6, <2>2
<1>8. status' = [n \in relayed \cup {m} |-> IF n = m THEN "sent" ELSE status[n]]
  BY <1>4 DEF relayWithMetadata
<1>9. /\ relayed' = relayed \cup {m}
      /\ status'[m] = "sent" /\ \A n \in relayed : status'[n] = status[n]
  BY <1>7, <1>8 DEF relayed
<1>10. IsFiniteSet(relayed')
  BY <1>1, <1>9, FS_AddElement
<1>11. ASSUME NEW n \in relayed'
       PROVE  /\ <<n.source, n.target>> \in Pairs
              /\ n.nonce <= nonceOf(n.source, n.target)'
  <2>1. CASE n \in relayed
    <3>1. n.nonce <= nonceOf(n.source, n.target) /\ n.nonce \in Int
      <4>1. \A x \in Messages : x.nonce \in Int
        BY DEF Messages
      <4> QED BY <1>1, <2>1, <4>1 DEF MessagesOk
    <3>2. /\ nonceOf(n.source, n.target) \in Nat
          /\ nonceOf(n.source, n.target) <= nonceOf(n.source, n.target)'
      BY <1>9, <1>10, NoncesGrow
    <3>3. PICK B : B = {x \in relayed' : x.source = n.source /\ x.target = n.target}
      OBVIOUS
    <3>4. nonceOf(n.source, n.target)' = Cardinality(B)
      BY <3>3 DEF nonceOf
    <3>5. B \in SUBSET (relayed')
      BY <3>3
    <3>6. Cardinality(B) \in Nat
      BY <1>10, <3>5, FS_Subset, FS_CardinalityType
    <3> QED BY <2>1, <3>1, <3>2, <3>4, <3>6 DEF MessagesOk
  <2>2. CASE n = m
    <3>1. nonceOf(p[1], p[2])' = Cardinality(A \cup {m})
      <4>1. {x \in relayed' : x.source = p[1] /\ x.target = p[2]} = A \cup {m}
        BY <1>2, <1>6, <1>9
      <4> QED BY <4>1 DEF nonceOf
    <3>2. Cardinality(A \cup {m}) = Cardinality(A) + 1
      BY <1>2, <1>3, <1>7, FS_AddElement
    <3>3. <<p[1], p[2]>> \in Pairs
      BY ConstantTypes
    <3> QED BY <1>3, <1>6, <2>2, <3>1, <3>2, <3>3
  <2> QED BY <1>9, <2>1, <2>2
<1>12. MessagesOk'
  BY <1>10, <1>11 DEF MessagesOk
<1> QED BY <1>5, <1>6, <1>7, <1>9, <1>12

\* The facts of a state that the steps use.
LEMMA ManagerFacts ==
    ASSUME ManagerInv
    PROVE  /\ locked \in Nat /\ locked <= Supply
           /\ minted \in [Remotes -> Nat] /\ minted \in [Remotes -> 0 .. MaxUint]
           /\ Unpaid \in SUBSET Messages /\ Unpaid \subseteq relayed /\ IsFiniteSet(Unpaid)
           /\ ownsToken \subseteq Remotes /\ relayed \subseteq Messages
           /\ \A m \in relayed : status[m] \in {"sent", "accepted", "failed"}
           /\ \A m \in Messages : m.amount \in Nat /\ m.amount <= MaxUint
<1>1. locked \in Nat /\ locked <= Supply /\ ownsToken \subseteq Remotes /\ relayed \subseteq Messages
  BY ConstantTypes DEF ManagerInv, LedgerOk, TypeOK
<1>2. minted \in [Remotes -> 0 .. MaxUint] /\ minted \in [Remotes -> Nat]
  BY ConstantTypes DEF ManagerInv, LedgerOk, TypeOK
<1>3. Unpaid \in SUBSET relayed
  BY DEF Unpaid
<1>4. IsFiniteSet(Unpaid)
  BY <1>3, FS_Subset DEF ManagerInv, MessagesOk
<1>5. \A m \in Messages : m.amount \in Nat /\ m.amount <= MaxUint
  BY ConstantTypes DEF Messages
<1>6. \A m \in relayed : status[m] \in {"sent", "accepted", "failed"}
  BY DEF ManagerInv, LedgerOk, TypeOK
<1> QED BY <1>1, <1>2, <1>3, <1>4, <1>5, <1>6

-----------------------------------------------------------------------------
(* The steps of the managers *)

\* What a transfer does to the ways.
LEMMA RoutesAfterRelay ==
    ASSUME ManagerInv, NEW p \in Pairs, NEW m \in Messages,
           m.source = p[1], m.target = p[2], relayed' = relayed \cup {m},
           UNCHANGED ownerVars,
           \/ m.sender = Other /\ minted' = minted
           \/ /\ m.sender = Manager /\ scales[<<p[1], p[2]>>] # NoRoute
              /\ p[1] = Home => minted' = minted
              /\ p[1] # Home => /\ minted[p[1]] > 0
                                /\ \A r \in Remotes : r # p[1] => minted'[r] = minted[r]
    PROVE  RoutesOk'
<1>1. SUFFICES ASSUME NEW r \in Remotes PROVE RouteOk(r)'
  BY DEF RoutesOk
<1>2. RouteOk(r) /\ minted[r] \in Nat
  BY ManagerFacts DEF ManagerInv, RoutesOk
<1>3. scales' = scales /\ ownsToken' = ownsToken /\ withdrawn' = withdrawn
  BY DEF ownerVars
<1>4. /\ Addressed(r)' = IF m.sender = Manager /\ p[2] = r THEN Addressed(r) \cup {m} ELSE Addressed(r)
      /\ SentFrom(r)' = IF m.sender = Manager /\ p[1] = r THEN SentFrom(r) \cup {m} ELSE SentFrom(r)
  BY DEF Addressed, SentFrom
<1>5. r # Home /\ Manager # Other
  BY ConstantTypes
<1>6. CASE m.sender = Other
  BY <1>2, <1>3, <1>4, <1>5, <1>6 DEF RouteOk, Untouched
<1>7. CASE m.sender = Manager /\ p[1] = Home
  BY <1>2, <1>3, <1>4, <1>5, <1>7 DEF RouteOk, Untouched
<1>8. CASE m.sender = Manager /\ p[1] # Home
  <2>1. p[2] = Home
    BY <1>8, ConstantTypes
  <2>2. Addressed(r)' = Addressed(r)
    BY <1>4, <1>5, <2>1
  <2>3. CASE p[1] = r
    BY <1>2, <1>3, <1>5, <1>8, <2>2, <2>3 DEF RouteOk, Untouched
  <2>4. CASE p[1] # r
    BY <1>2, <1>3, <1>4, <1>5, <1>8, <2>2, <2>4 DEF RouteOk, Untouched
  <2> QED BY <2>3, <2>4
<1> QED BY <1>6, <1>7, <1>8

\* What transfer() does: it takes an amount that is there and sends one message,
\* which is new and worth the same.
LEMMA TransferFacts ==
    ASSUME ManagerInv, NEW p \in Pairs, NEW payable \in BOOLEAN, NEW amount \in 1 .. MaxUint,
           transfer(p[1], p[2], payable, amount)
    PROVE  /\ MessagesOk' /\ amount \in Nat /\ amount > 0
           /\ \E m \in Messages :
                 /\ m.source = p[1] /\ m.target = p[2] /\ m.sender = Manager
                 /\ m.amount * unit(p[2]) = amount * unit(p[1])
                 /\ m \notin relayed /\ relayed' = relayed \cup {m}
                 /\ status'[m] = "sent" /\ \A n \in relayed : status'[n] = status[n]
           /\ \/ p[1] = Home /\ locked' = locked + amount /\ minted' = minted
                 /\ amount <= Supply - locked
              \/ /\ p[1] # Home /\ p[1] \in Remotes /\ locked' = locked
                 /\ minted[p[1]] \in Nat /\ amount <= minted[p[1]]
                 /\ minted' = [minted EXCEPT ![p[1]] = minted[p[1]] - amount]
<1> DEFINE c == p[1]
           t == p[2]
<1>1. /\ scales[<<c, t>>] # NoRoute /\ scalesExactly(amount, scales[<<c, t>>])
      /\ amount <= Circulating(c) /\ handleTransfer(c, amount)
      /\ relayWithMetadata(c, t, Manager, payable, adjusted(amount, scales[<<c, t>>]))
      /\ UNCHANGED ownerVars
  BY DEF transfer
<1>2. /\ c \in Chains /\ t \in Chains /\ Home \notin Remotes
      /\ \/ c = Home /\ t \in Remotes
         \/ t = Home /\ c \in Remotes
      /\ MaxUint \in Nat /\ Supply \in Nat /\ Supply <= MaxUint
  BY ConstantTypes
<1>3. amount \in Nat /\ amount > 0
  BY <1>2
<1>4. locked \in Nat /\ locked <= Supply /\ minted \in [Remotes -> Nat] /\ ownsToken \subseteq Remotes
  BY ManagerFacts
<1>5. c # Home => c \in Remotes /\ minted[c] \in Nat /\ amount <= minted[c]
  BY <1>1, <1>2, <1>4 DEF Circulating
<1>6. scales[<<c, t>>] = scaleFor(c, t)
  <2>1. CASE c = Home
    <3>1. RouteOk(t)
      BY <1>2, <2>1 DEF ManagerInv, RoutesOk
    <3> QED BY <1>1, <2>1, <3>1 DEF RouteOk
  <2>2. CASE c # Home
    <3>1. RouteOk(c) /\ t = Home
      BY <1>2, <2>2 DEF ManagerInv, RoutesOk
    <3>2. minted[c] # 0
      BY <1>3, <1>5, <2>2
    <3> QED BY <1>1, <2>2, <3>1, <3>2 DEF RouteOk, Untouched
  <2> QED BY <2>1, <2>2
<1>7. PICK a \in 0 .. MaxUint : /\ a = adjusted(amount, scales[<<c, t>>])
                                /\ a * unit(t) = amount * unit(c)
  BY <1>1, <1>2, <1>3, <1>6, ScaledIsWorthTheSame
<1>8. MessagesOk' /\ \E m \in Messages :
                 /\ m.source = c /\ m.target = t /\ m.sender = Manager /\ m.amount = a
                 /\ m \notin relayed /\ relayed' = relayed \cup {m}
                 /\ status'[m] = "sent" /\ \A n \in relayed : status'[n] = status[n]
  BY <1>1, <1>7, NewMessage DEF ManagerInv, LedgerOk
<1>9. PICK m \in Messages :
                 /\ m.source = c /\ m.target = t /\ m.sender = Manager /\ m.amount = a
                 /\ m \notin relayed /\ relayed' = relayed \cup {m}
                 /\ status'[m] = "sent" /\ \A n \in relayed : status'[n] = status[n]
  BY <1>8
<1>10. \/ c = Home /\ locked' = locked + amount /\ minted' = minted
       \/ /\ c # Home /\ c \in Remotes /\ locked' = locked
          /\ minted' = [minted EXCEPT ![c] = minted[c] - amount]
  BY <1>1, <1>2, <1>4 DEF handleTransfer
<1>11. c = Home => amount <= Supply - locked
  BY <1>1 DEF Circulating
<1> QED BY <1>3, <1>5, <1>7, <1>8, <1>9, <1>10, <1>11

\* transfer(): what leaves one chain is worth what is on its way to the other.
LEMMA TransferStep ==
    ASSUME ManagerInv, NEW p \in Pairs, NEW payable \in BOOLEAN, NEW amount \in 1 .. MaxUint,
           transfer(p[1], p[2], payable, amount)
    PROVE  ManagerInv'
<1> DEFINE c == p[1]
           t == p[2]
<1>1. /\ scales[<<c, t>>] # NoRoute /\ scalesExactly(amount, scales[<<c, t>>])
      /\ amount <= Circulating(c) /\ handleTransfer(c, amount)
      /\ relayWithMetadata(c, t, Manager, payable, adjusted(amount, scales[<<c, t>>]))
      /\ UNCHANGED ownerVars
  BY DEF transfer
<1>2. /\ c \in Chains /\ t \in Chains /\ Home \notin Remotes
      /\ \/ c = Home /\ t \in Remotes
         \/ t = Home /\ c \in Remotes
      /\ MaxUint \in Nat /\ Supply \in Nat /\ Supply <= MaxUint
  BY ConstantTypes
<1>3. amount \in Nat /\ amount > 0
  BY TransferFacts
<1>4. locked \in Nat /\ locked <= Supply /\ minted \in [Remotes -> Nat] /\ ownsToken \subseteq Remotes
  BY ManagerFacts
<1>5. c # Home => c \in Remotes /\ minted[c] \in Nat /\ amount <= minted[c]
  BY TransferFacts
<1>8. MessagesOk'
  BY TransferFacts
<1>9. PICK m \in Messages :
                 /\ m.source = c /\ m.target = t /\ m.sender = Manager
                 /\ m.amount * unit(t) = amount * unit(c)
                 /\ m \notin relayed /\ relayed' = relayed \cup {m}
                 /\ status'[m] = "sent" /\ \A n \in relayed : status'[n] = status[n]
  BY TransferFacts
<1>10. \/ c = Home /\ locked' = locked + amount /\ minted' = minted
       \/ /\ c # Home /\ c \in Remotes /\ locked' = locked
          /\ minted' = [minted EXCEPT ![c] = minted[c] - amount]
  BY TransferFacts
<1>11. LedgerOk'
  <2>1. locked' \in 0 .. MaxUint /\ locked' <= Supply
    <3>1. CASE c = Home
      <4>1. amount <= Supply - locked
        BY <1>1, <3>1 DEF Circulating
      <4> QED BY <1>2, <1>3, <1>4, <1>10, <3>1, <4>1
    <3>2. CASE c # Home
      BY <1>2, <1>4, <1>10, <3>2
    <3> QED BY <3>1, <3>2
  <2>2. minted' \in [Remotes -> 0 .. MaxUint]
    <3>1. minted \in [Remotes -> 0 .. MaxUint]
      BY ManagerFacts
    <3>2. CASE c = Home
      BY <1>10, <3>1, <3>2
    <3>3. CASE c # Home
      <4>1. minted[c] - amount \in 0 .. MaxUint
        BY <1>2, <1>3, <1>5, <3>1, <3>3
      <4> QED BY <1>10, <3>1, <3>3, <4>1
    <3> QED BY <3>2, <3>3
  <2>3. relayed' \subseteq Messages /\ \A n \in relayed' : status'[n] \in {"sent", "accepted", "failed"}
    BY <1>9, ManagerFacts
  <2>4. TypeOK /\ scales' = scales /\ paused' = paused /\ ownsToken' = ownsToken
               /\ ownerOps' = ownerOps /\ withdrawn' = withdrawn
    BY <1>1 DEF ownerVars, ManagerInv, LedgerOk
  <2> QED BY <2>1, <2>2, <2>3, <2>4 DEF LedgerOk, TypeOK
<1>12. RoutesOk'
  <2>1. c # Home => /\ minted[c] > 0
                    /\ \A r \in Remotes : r # c => minted'[r] = minted[r]
    BY <1>3, <1>4, <1>5, <1>10
  <2> QED BY <1>1, <1>9, <1>10, <2>1, RoutesAfterRelay
<1>13. SupplyIsBacked'
  <2>1. Unpaid' = Unpaid \cup {m} /\ m \notin Unpaid
    BY <1>9 DEF Unpaid
  <2>2. PICK U : U = Unpaid \cup {m}
    OBVIOUS
  <2>3. U \in SUBSET Messages /\ IsFiniteSet(U) /\ m \in U /\ U \ {m} = Unpaid
    BY <2>1, <2>2, ManagerFacts, FS_AddElement
  <2>4. messageWorth(Unpaid') = amount * unit(c) + messageWorth(Unpaid)
    BY <1>9, <2>1, <2>2, <2>3, MessageWorth
  <2>5. messageWorth(Unpaid) \in Nat /\ mintWorth(minted) \in Nat
    BY <1>4, ManagerFacts, MessageWorth, MintWorth
  <2>6. locked * unit(Home) = mintWorth(minted) + messageWorth(Unpaid)
    BY BackingInUnits DEF ManagerInv
  <2>7. /\ unit(c) \in Nat /\ unit(Home) \in Nat
        /\ \A x, y, z \in Int : (x + y) * z = x * z + y * z /\ (x - y) * z = x * z - y * z /\ x * y \in Int
    BY <1>2, Units DEF Chains
  <2>8. CASE c = Home
    <3>1. locked' * unit(Home) = locked * unit(Home) + amount * unit(Home)
      BY <1>3, <1>4, <1>10, <2>7, <2>8
    <3>2. locked * unit(Home) \in Int /\ amount * unit(Home) \in Int
      BY <1>3, <1>4, <2>7
    <3>3. minted' = minted
      BY <1>10, <2>8
    <3> QED BY <2>4, <2>5, <2>6, <2>8, <3>1, <3>2, <3>3, BackingAfter
  <2>9. CASE c # Home
    <3>1. PICK v \in Nat : v = minted[c] - amount
      BY <1>3, <1>5, <2>9
    <3>2. mintWorth(minted') = mintWorth(minted) - minted[c] * unit(c) + v * unit(c)
      BY <1>4, <1>5, <1>10, <2>9, <3>1, MintWorth
    <3>3. /\ v * unit(c) = minted[c] * unit(c) - amount * unit(c)
          /\ minted[c] * unit(c) \in Int /\ amount * unit(c) \in Int
      <4>1. minted[c] \in Int /\ amount \in Int /\ unit(c) \in Int
        BY <1>3, <1>5, <2>7, <2>9
      <4> QED BY ONLY <2>7, <3>1, <4>1
    <3>4. locked' = locked
      BY <1>10, <2>9
    <3>5. locked' * unit(Home) = mintWorth(minted') + messageWorth(Unpaid')
      BY <2>4, <2>5, <2>6, <3>2, <3>3, <3>4
    <3> QED BY <3>5, BackingAfter
  <2> QED BY <2>8, <2>9
<1>14. NoTransferLost'
  <2>1. withdrawn' = withdrawn /\ NoTransferLost
    BY <1>1 DEF ownerVars, ManagerInv
  <2> QED BY <1>9, <2>1 DEF NoTransferLost
<1> QED BY <1>8, <1>11, <1>12, <1>13, <1>14 DEF ManagerInv

\* A foreign message is worth nothing.
LEMMA ForeignStep ==
    ASSUME ManagerInv, NEW p \in Pairs, NEW amount \in ForeignAmounts,
           foreignRelay(p[1], p[2], amount)
    PROVE  ManagerInv'
<1>1. /\ relayWithMetadata(p[1], p[2], Other, TRUE, amount)
      /\ locked' = locked /\ minted' = minted /\ UNCHANGED ownerVars
  BY DEF foreignRelay
<1>2. amount \in 0 .. MaxUint /\ Manager # Other
  BY TokenManagerAssumption
<1>3. MessagesOk' /\ \E m \in Messages :
                 /\ m.source = p[1] /\ m.target = p[2] /\ m.sender = Other /\ m.amount = amount
                 /\ m \notin relayed /\ relayed' = relayed \cup {m}
                 /\ status'[m] = "sent" /\ \A n \in relayed : status'[n] = status[n]
  BY <1>1, <1>2, NewMessage DEF ManagerInv, LedgerOk
<1>4. PICK m \in Messages :
                 /\ m.source = p[1] /\ m.target = p[2] /\ m.sender = Other
                 /\ m \notin relayed /\ relayed' = relayed \cup {m}
                 /\ status'[m] = "sent" /\ \A n \in relayed : status'[n] = status[n]
  BY <1>3
<1>5. scales' = scales /\ paused' = paused /\ ownsToken' = ownsToken
      /\ ownerOps' = ownerOps /\ withdrawn' = withdrawn
  BY <1>1 DEF ownerVars
<1>6. LedgerOk'
  <2>1. relayed' \subseteq Messages /\ \A n \in relayed' : status'[n] \in {"sent", "accepted", "failed"}
    BY <1>4, ManagerFacts
  <2> QED BY <1>1, <1>5, <2>1 DEF ManagerInv, LedgerOk, TypeOK
<1>7. RoutesOk'
  BY <1>1, <1>4, RoutesAfterRelay
<1>8. Unpaid' = Unpaid
  BY <1>2, <1>4 DEF Unpaid
<1>9. SupplyIsBacked'
  BY <1>1, <1>8 DEF ManagerInv, SupplyIsBacked
<1>10. NoTransferLost'
  <2>1. NoTransferLost
    BY DEF ManagerInv
  <2> QED BY <1>4, <1>5, <2>1 DEF NoTransferLost
<1> QED BY <1>3, <1>6, <1>7, <1>9, <1>10 DEF ManagerInv

\* A positive factor may be cancelled.
LEMMA Cancel ==
    ASSUME NEW a \in Nat, NEW b \in Nat, NEW k \in Nat \ {0}, a * k <= b * k
    PROVE  a <= b
<1>1. a > b => a * k > b * k
  OBVIOUS
<1> QED BY <1>1

\* An amount worth no more than the supply fits where the supply does.
LEMMA WorthFits ==
    ASSUME NEW x \in Nat, NEW S \in Nat, NEW M \in Nat, NEW u \in Nat, NEW v \in Nat,
           NEW A \in Nat \ {0}, NEW B \in Nat \ {0}, NEW P \in Nat \ {0},
           u * B = P, v * A = P, x * u <= S * v, S * B <= M * A
    PROVE  x <= M
<1>1. \A i, j, k \in Nat : i * j \in Nat /\ i * j = j * i /\ (i * j) * k = i * (j * k)
  OBVIOUS
<1>2. \A i, j, k \in Nat : i <= j => i * k <= j * k
  OBVIOUS
<1>3. PICK k \in Nat \ {0} : k = P * A
  BY PositiveProduct
<1>4. x * k = (x * u) * (B * A)
  <2>1. (x * u) * (B * A) = x * (u * (B * A))
    BY <1>1
  <2>2. u * (B * A) = (u * B) * A
    BY <1>1
  <2> QED BY <1>3, <2>1, <2>2
<1>5. (x * u) * (B * A) <= (S * v) * (B * A)
  <2>1. x * u \in Nat /\ S * v \in Nat /\ B * A \in Nat
    BY <1>1
  <2> QED BY <1>2, <2>1
<1>6. (S * v) * (B * A) = (S * B) * P
  <2>1. (S * v) * (B * A) = S * (v * (B * A))
    BY <1>1
  <2>2. v * (B * A) = (B * A) * v /\ (B * A) * v = B * (A * v) /\ A * v = v * A
    BY <1>1
  <2>3. (S * B) * P = S * (B * P)
    BY <1>1
  <2> QED BY <2>1, <2>2, <2>3
<1>7. (S * B) * P <= (M * A) * P
  <2>1. S * B \in Nat /\ M * A \in Nat
    BY <1>1
  <2> QED BY <1>2, <2>1
<1>8. (M * A) * P = M * k
  BY <1>1, <1>3
<1>9. x * k \in Nat /\ (S * B) * P \in Nat /\ M * k \in Nat
  BY <1>1
<1>10. x * k <= M * k
  <2>1. x * k <= (S * B) * P
    BY ONLY <1>4, <1>5, <1>6
  <2>2. (S * B) * P <= M * k
    BY ONLY <1>7, <1>8
  <2> QED BY ONLY <1>9, <2>1, <2>2
<1> QED BY <1>10, Cancel

\* A transfer on its way can be paid, unless its recipient cannot or the owner
\* took its way from it.
LEMMA CanBePaid ==
    ASSUME ManagerInv, NEW m \in relayed, m.sender = Manager, status[m] = "sent"
    PROVE  \/ ~m.payable
           \/ <<m.target, m.source>> \in withdrawn
           \/ acceptsFrom(m) /\ canPay(m)
<1>1. /\ m \in Messages /\ m.amount \in Nat /\ m \in Unpaid
      /\ locked \in Nat /\ locked <= Supply /\ minted \in [Remotes -> Nat]
  BY ManagerFacts DEF Unpaid
<1>2. /\ m.source \in Chains /\ m.target \in Chains
      /\ \/ m.source = Home /\ m.target \in Remotes
         \/ m.target = Home /\ m.source \in Remotes
  BY ConstantTypes DEF ManagerInv, MessagesOk
<1>3. /\ mintWorth(minted) \in Nat /\ messageWorth(Unpaid) \in Nat
      /\ m.amount * unit(m.target) <= messageWorth(Unpaid)
      /\ locked * unit(Home) = mintWorth(minted) + messageWorth(Unpaid)
  BY <1>1, ManagerFacts, MintWorth, MessageWorth, BackingInUnits DEF ManagerInv
<1>4. \A x, y \in Nat : x * y \in Nat
  OBVIOUS
<1>5. unit(Home) \in Nat \ {0} /\ unit(m.target) \in Nat \ {0} /\ Home \in Chains
  BY <1>2, Units DEF Chains
<1>6. CASE m.target = Home
  <2>1. m.amount * unit(Home) <= locked * unit(Home)
    BY <1>1, <1>3, <1>4, <1>5, <1>6
  <2>2. m.amount <= locked
    BY <1>1, <1>5, <2>1, Cancel
  <2>3. m.source \in Remotes /\ RouteOk(m.source)
    BY <1>2, <1>6, ConstantTypes DEF ManagerInv, RoutesOk
  <2>4. m \in SentFrom(m.source)
    BY DEF SentFrom
  <2>5. scales[<<Home, m.source>>] # NoRoute \/ <<Home, m.source>> \in withdrawn
    BY <2>3, <2>4 DEF RouteOk
  <2> QED BY <1>6, <2>2, <2>5 DEF acceptsFrom, canPay
<1>7. CASE m.target # Home
  <2> DEFINE r == m.target
  <2>1. r \in Remotes /\ m.source = Home /\ RouteOk(r) /\ minted[r] \in Nat
    BY <1>1, <1>2, <1>7 DEF ManagerInv, RoutesOk
  <2>2. m \in Addressed(r)
    BY DEF Addressed
  <2>3. \/ <<r, Home>> \in withdrawn
        \/ scales[<<r, Home>>] # NoRoute /\ r \in ownsToken
    BY <2>1, <2>2 DEF RouteOk
  <2>4. PICK x \in Nat : x = minted[r] + m.amount
    BY <1>1, <2>1
  <2>5. x * unit(r) = minted[r] * unit(r) + m.amount * unit(r)
    BY <1>1, <1>5, <2>1, <2>4
  <2>6. minted[r] * unit(r) <= mintWorth(minted)
    BY <1>1, <2>1, MintWorth
  <2>7. locked * unit(Home) <= Supply * unit(Home) /\ Supply \in Nat /\ MaxUint \in Nat
    BY <1>1, <1>5, ConstantTypes
  <2>8. x * unit(r) <= Supply * unit(Home)
    <3>1. minted[r] * unit(r) \in Nat /\ m.amount * unit(r) \in Nat /\ Supply * unit(Home) \in Nat
      BY <1>1, <1>4, <1>5, <2>1, <2>7
    <3> QED BY <1>3, <2>5, <2>6, <2>7, <3>1
  <2>9. /\ power[Decimals[Home]] \in Nat \ {0} /\ power[Decimals[r]] \in Nat \ {0}
        /\ power[Finest] \in Nat \ {0}
        /\ unit(r) * power[Decimals[r]] = power[Finest]
        /\ unit(Home) * power[Decimals[Home]] = power[Finest]
        /\ Supply * power[Decimals[r]] <= MaxUint * power[Decimals[Home]]
    BY <1>2, <1>5, Units, TokenManagerAssumption
  <2>10. x <= MaxUint
    <3>1. unit(r) \in Nat /\ unit(Home) \in Nat
      BY <1>5
    <3> QED BY <2>7, <2>8, <2>9, <3>1, WorthFits
  <2> QED BY <1>7, <2>1, <2>3, <2>4, <2>10 DEF acceptsFrom, canPay
<1> QED BY <1>6, <1>7

\* A dispatch leaves the messages as they are.
LEMMA MessagesAfterDispatch ==
    ASSUME ManagerInv, NEW m \in relayed, NEW s \in {"accepted", "failed"},
           status' = [status EXCEPT ![m] = s]
    PROVE  /\ relayed' = relayed /\ MessagesOk'
           /\ status'[m] = s /\ \A n \in relayed \ {m} : status'[n] = status[n]
           /\ \A n \in relayed' : status'[n] \in {"sent", "accepted", "failed"}
<1>1. relayed' = relayed
  BY DEF relayed
<1>2. status'[m] = s /\ \A n \in relayed \ {m} : status'[n] = status[n]
  BY DEF relayed
<1>3. MessagesOk'
  BY <1>1 DEF ManagerInv, MessagesOk, nonceOf
<1> QED BY <1>1, <1>2, <1>3, ManagerFacts

\* accept() turns what is on its way into what is there.
LEMMA AcceptStep ==
    ASSUME ManagerInv, NEW m \in relayed, accept(m)
    PROVE  ManagerInv'
<1>1. /\ status[m] = "sent" /\ m.sender = Manager /\ canPay(m)
      /\ \/ m.target = Home /\ locked' = locked - m.amount /\ minted' = minted
         \/ m.target # Home /\ minted' = [minted EXCEPT ![m.target] = minted[m.target] + m.amount]
                            /\ locked' = locked
      /\ status' = [status EXCEPT ![m] = "accepted"]
      /\ scales' = scales /\ paused' = paused /\ ownsToken' = ownsToken
      /\ ownerOps' = ownerOps /\ withdrawn' = withdrawn
  BY DEF accept, acceptsFrom, ownerVars
<1>2. /\ m \in Messages /\ m.amount \in Nat /\ m \in Unpaid
      /\ locked \in Nat /\ locked <= Supply /\ minted \in [Remotes -> Nat]
      /\ minted \in [Remotes -> 0 .. MaxUint]
      /\ MaxUint \in Nat /\ Supply \in Nat /\ Supply <= MaxUint
  BY <1>1, ManagerFacts, ConstantTypes DEF Unpaid
<1>3. /\ m.target \in Chains
      /\ m.target = Home \/ (m.target \in Remotes /\ minted[m.target] \in Nat)
  <2>1. PICK p \in Pairs : p = <<m.source, m.target>>
    BY DEF ManagerInv, MessagesOk
  <2>2. m.target \in Chains /\ (m.target = Home \/ m.target \in Remotes)
    BY <2>1, ConstantTypes
  <2> QED BY <1>2, <2>2
<1>4. /\ relayed' = relayed /\ MessagesOk'
      /\ status'[m] = "accepted" /\ \A n \in relayed \ {m} : status'[n] = status[n]
      /\ \A n \in relayed' : status'[n] \in {"sent", "accepted", "failed"}
  BY <1>1, MessagesAfterDispatch
<1>5. LedgerOk'
  <2>1. locked' \in 0 .. MaxUint /\ locked' <= Supply
    BY <1>1, <1>2 DEF canPay
  <2>2. minted' \in [Remotes -> 0 .. MaxUint]
    <3>1. CASE m.target = Home
      BY <1>1, <1>2, <3>1
    <3>2. CASE m.target # Home
      <4>1. minted[m.target] + m.amount \in 0 .. MaxUint
        BY <1>1, <1>2, <1>3, <3>2 DEF canPay
      <4> QED BY <1>1, <1>2, <3>2, <4>1
    <3> QED BY <3>1, <3>2
  <2>3. TypeOK
    BY DEF ManagerInv, LedgerOk
  <2> QED BY <1>1, <1>4, <2>1, <2>2, <2>3 DEF LedgerOk, TypeOK
<1>6. RoutesOk'
  <2>1. SUFFICES ASSUME NEW r \in Remotes PROVE RouteOk(r)'
    BY DEF RoutesOk
  <2>2. RouteOk(r) /\ minted[r] \in Nat /\ r # Home
    BY <1>2, ConstantTypes DEF ManagerInv, RoutesOk
  <2>3. Addressed(r)' = Addressed(r) /\ SentFrom(r)' = SentFrom(r)
    BY <1>4 DEF Addressed, SentFrom
  <2>4. CASE m.target = r
    <3>1. m \in Addressed(r)
      BY <1>1, <2>4 DEF Addressed
    <3> QED BY <1>1, <2>2, <2>3, <3>1 DEF RouteOk, Untouched
  <2>5. CASE m.target # r
    <3>1. minted'[r] = minted[r]
      BY <1>1, <1>2, <2>5
    <3> QED BY <1>1, <2>2, <2>3, <3>1 DEF RouteOk, Untouched
  <2> QED BY <2>4, <2>5
<1>7. SupplyIsBacked'
  <2>1. Unpaid' = Unpaid \ {m}
    <3>1. \A n \in relayed : status'[n] # "accepted" <=> n # m /\ status[n] # "accepted"
      BY <1>4
    <3> QED BY <1>4, <3>1 DEF Unpaid
  <2>2. messageWorth(Unpaid) = m.amount * unit(m.target) + messageWorth(Unpaid')
    BY <1>2, <2>1, ManagerFacts, MessageWorth
  <2>3. messageWorth(Unpaid') \in Nat
    <3>1. Unpaid \ {m} \in SUBSET Messages /\ IsFiniteSet(Unpaid \ {m})
      BY ManagerFacts, FS_RemoveElement
    <3> QED BY <2>1, <3>1, MessageWorth
  <2>4. locked * unit(Home) = mintWorth(minted) + messageWorth(Unpaid) /\ mintWorth(minted) \in Nat
    BY <1>2, BackingInUnits, MintWorth DEF ManagerInv
  <2>5. /\ unit(Home) \in Nat /\ unit(m.target) \in Nat
        /\ \A x, y, z \in Int : (x + y) * z = x * z + y * z /\ (x - y) * z = x * z - y * z /\ x * y \in Int
    BY <1>3, Units DEF Chains
  <2>6. CASE m.target = Home
    <3>1. locked' * unit(Home) = locked * unit(Home) - m.amount * unit(Home)
      BY <1>1, <1>2, <2>5, <2>6
    <3>2. locked * unit(Home) \in Int /\ m.amount * unit(Home) \in Int
      BY <1>2, <2>5
    <3>3. minted' = minted
      BY <1>1, <2>6
    <3>4. locked' * unit(Home) = mintWorth(minted') + messageWorth(Unpaid')
      BY <2>2, <2>3, <2>4, <2>6, <3>1, <3>2, <3>3
    <3> QED BY <3>4, BackingAfter
  <2>7. CASE m.target # Home
    <3>1. PICK v \in Nat : v = minted[m.target] + m.amount
      BY <1>2, <1>3, <2>7
    <3>2. mintWorth(minted') = mintWorth(minted) - minted[m.target] * unit(m.target) + v * unit(m.target)
      BY <1>1, <1>2, <1>3, <2>7, <3>1, MintWorth
    <3>3. /\ v * unit(m.target) = minted[m.target] * unit(m.target) + m.amount * unit(m.target)
          /\ minted[m.target] * unit(m.target) \in Int /\ m.amount * unit(m.target) \in Int
      BY <1>2, <1>3, <2>5, <2>7, <3>1
    <3>4. locked' = locked
      BY <1>1, <2>7
    <3>5. locked' * unit(Home) = mintWorth(minted') + messageWorth(Unpaid')
      BY <2>2, <2>3, <2>4, <3>2, <3>3, <3>4
    <3> QED BY <3>5, BackingAfter
  <2> QED BY <2>6, <2>7
<1>8. NoTransferLost'
  <2>1. NoTransferLost
    BY DEF ManagerInv
  <2> QED BY <1>1, <1>4, <2>1 DEF NoTransferLost
<1> QED BY <1>4, <1>5, <1>6, <1>7, <1>8 DEF ManagerInv

\* accept() reverts only for want of an entry the owner removed, or of a
\* recipient that can be paid.
LEMMA FailStep ==
    ASSUME ManagerInv, NEW m \in relayed, acceptFails(m)
    PROVE  ManagerInv'
<1>1. /\ status[m] = "sent" /\ ~(acceptsFrom(m) /\ canPay(m))
      /\ locked' = locked /\ minted' = minted
      /\ status' = [status EXCEPT ![m] = "failed"]
      /\ scales' = scales /\ paused' = paused /\ ownsToken' = ownsToken
      /\ ownerOps' = ownerOps /\ withdrawn' = withdrawn
  BY DEF acceptFails, ownerVars
<1>2. /\ relayed' = relayed /\ MessagesOk'
      /\ status'[m] = "failed" /\ \A n \in relayed \ {m} : status'[n] = status[n]
      /\ \A n \in relayed' : status'[n] \in {"sent", "accepted", "failed"}
  BY <1>1, MessagesAfterDispatch
<1>3. LedgerOk'
  BY <1>1, <1>2 DEF ManagerInv, LedgerOk, TypeOK
<1>4. RoutesOk'
  <2>1. \A r : Addressed(r)' = Addressed(r) /\ SentFrom(r)' = SentFrom(r)
    BY <1>2 DEF Addressed, SentFrom
  <2>2. RoutesOk
    BY DEF ManagerInv
  <2> QED BY <1>1, <2>1, <2>2 DEF RoutesOk, RouteOk, Untouched
<1>5. SupplyIsBacked'
  <2>1. \A n \in relayed : status'[n] # "accepted" <=> status[n] # "accepted"
    BY <1>1, <1>2
  <2>2. Unpaid' = Unpaid
    BY <1>2, <2>1 DEF Unpaid
  <2> QED BY <1>1, <2>2 DEF ManagerInv, SupplyIsBacked
<1>6. NoTransferLost'
  <2>1. NoTransferLost
    BY DEF ManagerInv
  <2>2. m.sender = Manager => ~m.payable \/ <<m.target, m.source>> \in withdrawn
    BY <1>1, CanBePaid
  <2> QED BY <1>1, <1>2, <2>1, <2>2 DEF NoTransferLost
<1> QED BY <1>2, <1>3, <1>4, <1>5, <1>6 DEF ManagerInv

-----------------------------------------------------------------------------
(* The steps of the owner *)

\* The owner touches neither tokens nor messages, and what was withdrawn is
\* remembered.
LEMMA OwnerKeeps ==
    ASSUME ManagerInv, locked' = locked, minted' = minted, status' = status,
           withdrawn \subseteq withdrawn', withdrawn' \subseteq Pairs,
           scales' \in [Pairs -> Int \cup {NoRoute}], paused' \subseteq Chains,
           ownsToken' \subseteq Remotes, ownerOps' \in 0 .. MaxOwner, RoutesOk'
    PROVE  ManagerInv'
<1>1. relayed' = relayed /\ Unpaid' = Unpaid
  BY DEF relayed, Unpaid
<1>2. LedgerOk'
  BY <1>1 DEF ManagerInv, LedgerOk, TypeOK
<1>3. MessagesOk'
  BY <1>1 DEF ManagerInv, MessagesOk, nonceOf
<1>4. SupplyIsBacked'
  BY <1>1 DEF ManagerInv, SupplyIsBacked
<1>5. NoTransferLost'
  BY <1>1 DEF ManagerInv, NoTransferLost
<1> QED BY <1>2, <1>3, <1>4, <1>5 DEF ManagerInv

\* What the owner's steps start from.
LEMMA OwnerFacts ==
    ASSUME ManagerInv
    PROVE  /\ withdrawn \subseteq Pairs /\ scales \in [Pairs -> Int \cup {NoRoute}]
           /\ paused \subseteq Chains /\ ownsToken \subseteq Remotes
           /\ ownerOps \in 0 .. MaxOwner
           /\ \A r \in Remotes : RouteOk(r)
BY DEF ManagerInv, LedgerOk, TypeOK, RoutesOk

\* An operation of the owner that is counted.
LEMMA OwnerCounts ==
    ASSUME ManagerInv, ownerOp
    PROVE  ownerOps' \in 0 .. MaxOwner
BY OwnerFacts, ConstantTypes DEF ownerOp

\* deployToken, on a chain nobody has sent the token to.
LEMMA DeployStep ==
    ASSUME ManagerInv, NEW q \in Remotes, deployBridgeToken(q)
    PROVE  ManagerInv'
<1>1. /\ q \notin ownsToken /\ <<q, Home>> \notin withdrawn
      /\ ownsToken' = ownsToken \cup {q} /\ scales' = [scales EXCEPT ![<<q, Home>>] = 0]
      /\ locked' = locked /\ minted' = minted /\ paused' = paused /\ status' = status
      /\ ownerOps' = ownerOps /\ withdrawn' = withdrawn
  BY DEF deployBridgeToken, deployToken
<1>2. scales' \in [Pairs -> Int \cup {NoRoute}]
  <2>1. PICK k \in Int : k = 0
    OBVIOUS
  <2> QED BY <1>1, <2>1, OwnerFacts
<1>3. ASSUME NEW r \in Remotes PROVE RouteOk(r)'
  <2>1. RouteOk(r) /\ Addressed(r)' = Addressed(r) /\ SentFrom(r)' = SentFrom(r)
    BY <1>1, OwnerFacts DEF Addressed, SentFrom, relayed
  <2>2. <<Home, r>> \in Pairs /\ <<r, Home>> \in Pairs /\ r # Home /\ 0 # NoRoute
    BY ConstantTypes
  <2>3. scales'[<<Home, r>>] = scales[<<Home, r>>]
    BY <1>1, <2>2, OwnerFacts
  <2>4. CASE r = q
    <3>1. scales'[<<r, Home>>] = 0
      BY <1>1, <2>2, <2>4, OwnerFacts
    <3> QED BY <1>1, <2>1, <2>2, <2>3, <2>4, <3>1 DEF RouteOk, Untouched
  <2>5. CASE r # q
    <3>1. scales'[<<r, Home>>] = scales[<<r, Home>>]
      BY <1>1, <2>2, <2>5, OwnerFacts
    <3> QED BY <1>1, <2>1, <2>2, <2>3, <2>5, <3>1 DEF RouteOk, Untouched
  <2> QED BY <2>4, <2>5
<1>4. RoutesOk'
  BY <1>3 DEF RoutesOk
<1> QED BY <1>1, <1>2, <1>4, OwnerFacts, OwnerKeeps

\* An entry is made with the right scale, after what it leads to.
LEMMA EntryStep ==
    ASSUME ManagerInv, NEW p \in Pairs, withEntry(p[1], p[2], scaleFor(p[1], p[2]))
    PROVE  ManagerInv'
<1> DEFINE c == p[1]
           t == p[2]
<1>1. /\ ownerOp /\ inOrder(c, t)
      /\ scales' = [scales EXCEPT ![<<c, t>>] = scaleFor(c, t)]
      /\ locked' = locked /\ minted' = minted /\ paused' = paused /\ ownsToken' = ownsToken
      /\ status' = status /\ withdrawn' = withdrawn
  BY DEF withEntry
<1>2. /\ p = <<c, t>> /\ c \in Chains /\ t \in Chains
      /\ (c = Home /\ t \in Remotes) \/ (t = Home /\ c \in Remotes)
      /\ Home \notin Remotes /\ NoRoute \notin Int
  BY ConstantTypes
<1>3. scales' \in [Pairs -> Int \cup {NoRoute}]
  <2>1. PICK k \in Int : k = scaleFor(c, t)
    BY <1>2, ScaleTypes
  <2> QED BY <1>1, <2>1, OwnerFacts
<1>4. ASSUME NEW r \in Remotes PROVE RouteOk(r)'
  <2>1. RouteOk(r) /\ Addressed(r)' = Addressed(r) /\ SentFrom(r)' = SentFrom(r)
    BY <1>1, OwnerFacts DEF Addressed, SentFrom, relayed
  <2>2. <<Home, r>> \in Pairs /\ <<r, Home>> \in Pairs /\ r # Home
    BY ConstantTypes
  <2>3. scaleFor(Home, r) # NoRoute /\ scaleFor(r, Home) # NoRoute
    BY <1>2, ScaleTypes DEF Chains
  <2>4. CASE c = Home /\ t = r
    <3>1. /\ scales'[<<Home, r>>] = scaleFor(Home, r)
          /\ scales'[<<r, Home>>] = scales[<<r, Home>>]
      BY <1>1, <2>2, <2>4, OwnerFacts
    <3>2. \/ scales[<<r, Home>>] = scaleFor(r, Home)
          \/ scales[<<r, Home>>] = NoRoute /\ <<r, Home>> \in withdrawn
      BY <1>1, <2>4 DEF inOrder
    <3> QED BY <1>1, <2>1, <2>3, <3>1, <3>2 DEF RouteOk, Untouched
  <2>5. CASE t = Home /\ c = r
    <3>1. /\ scales'[<<r, Home>>] = scaleFor(r, Home)
          /\ scales'[<<Home, r>>] = scales[<<Home, r>>]
      BY <1>1, <2>2, <2>5, OwnerFacts
    <3>2. r \in ownsToken \/ <<r, Home>> \in withdrawn
      BY <1>1, <2>2, <2>5 DEF inOrder
    <3> QED BY <1>1, <2>1, <2>3, <3>1, <3>2 DEF RouteOk, Untouched
  <2>6. CASE c # r /\ t # r
    <3>1. /\ scales'[<<r, Home>>] = scales[<<r, Home>>]
          /\ scales'[<<Home, r>>] = scales[<<Home, r>>]
      BY <1>1, <2>2, <2>6, OwnerFacts
    <3> QED BY <1>1, <2>1, <3>1 DEF RouteOk, Untouched
  <2> QED BY <1>2, <2>2, <2>4, <2>5, <2>6
<1>5. RoutesOk'
  BY <1>4 DEF RoutesOk
<1> QED BY <1>1, <1>3, <1>5, OwnerCounts, OwnerFacts, OwnerKeeps

\* removeToken.
LEMMA RemoveStep ==
    ASSUME ManagerInv, NEW p \in Pairs, removeToken(p[1], p[2])
    PROVE  ManagerInv'
<1>1. /\ ownerOp /\ p = <<p[1], p[2]>>
      /\ scales' = [scales EXCEPT ![p] = NoRoute] /\ withdrawn' = withdrawn \cup {p}
      /\ locked' = locked /\ minted' = minted /\ paused' = paused /\ ownsToken' = ownsToken
      /\ status' = status
  BY ConstantTypes DEF removeToken
<1>2. scales' \in [Pairs -> Int \cup {NoRoute}] /\ withdrawn' \subseteq Pairs
  BY <1>1, OwnerFacts
<1>3. ASSUME NEW r \in Remotes PROVE RouteOk(r)'
  <2>1. RouteOk(r) /\ Addressed(r)' = Addressed(r) /\ SentFrom(r)' = SentFrom(r)
    BY <1>1, OwnerFacts DEF Addressed, SentFrom, relayed
  <2>2. <<Home, r>> \in Pairs /\ <<r, Home>> \in Pairs /\ r # Home
    BY ConstantTypes
  <2>3. /\ scales'[<<Home, r>>] = IF p = <<Home, r>> THEN NoRoute ELSE scales[<<Home, r>>]
        /\ scales'[<<r, Home>>] = IF p = <<r, Home>> THEN NoRoute ELSE scales[<<r, Home>>]
    BY <1>1, <2>2, OwnerFacts
  <2>4. <<Home, r>> # <<r, Home>>
    BY <2>2
  <2> QED BY <1>1, <2>1, <2>3, <2>4 DEF RouteOk, Untouched
<1>4. RoutesOk'
  BY <1>3 DEF RoutesOk
<1> QED BY <1>1, <1>2, <1>4, OwnerCounts, OwnerFacts, OwnerKeeps

\* transferTokenOwnership.
LEMMA OwnershipStep ==
    ASSUME ManagerInv, NEW c \in Chains, transferTokenOwnership(c)
    PROVE  ManagerInv'
<1>1. /\ ownerOp /\ c \in ownsToken
      /\ ownsToken' = ownsToken \ {c}
      /\ scales' = [scales EXCEPT ![<<c, Home>>] = NoRoute]
      /\ withdrawn' = withdrawn \cup {<<c, Home>>}
      /\ locked' = locked /\ minted' = minted /\ paused' = paused /\ status' = status
  BY DEF transferTokenOwnership
<1>2. c \in Remotes /\ <<c, Home>> \in Pairs
  BY <1>1, OwnerFacts, ConstantTypes
<1>3. scales' \in [Pairs -> Int \cup {NoRoute}] /\ withdrawn' \subseteq Pairs
  BY <1>1, <1>2, OwnerFacts
<1>4. ASSUME NEW r \in Remotes PROVE RouteOk(r)'
  <2>1. RouteOk(r) /\ Addressed(r)' = Addressed(r) /\ SentFrom(r)' = SentFrom(r)
    BY <1>1, OwnerFacts DEF Addressed, SentFrom, relayed
  <2>2. <<Home, r>> \in Pairs /\ <<r, Home>> \in Pairs /\ r # Home
    BY ConstantTypes
  <2>3. /\ scales'[<<Home, r>>] = scales[<<Home, r>>]
        /\ scales'[<<r, Home>>] = IF c = r THEN NoRoute ELSE scales[<<r, Home>>]
    BY <1>1, <2>2, OwnerFacts
  <2> QED BY <1>1, <2>1, <2>2, <2>3 DEF RouteOk, Untouched
<1>5. RoutesOk'
  BY <1>4 DEF RoutesOk
<1> QED BY <1>1, <1>3, <1>5, OwnerCounts, OwnerFacts, OwnerKeeps

\* pause and unpause.
LEMMA PauseStep ==
    ASSUME ManagerInv, NEW c \in Chains, pause(c) \/ unpause(c)
    PROVE  ManagerInv'
<1>1. /\ ownerOp /\ paused' \subseteq Chains
      /\ scales' = scales /\ withdrawn' = withdrawn /\ ownsToken' = ownsToken
      /\ locked' = locked /\ minted' = minted /\ status' = status
  BY OwnerFacts DEF pause, unpause
<1>2. RoutesOk'
  <2>1. \A r : Addressed(r)' = Addressed(r) /\ SentFrom(r)' = SentFrom(r)
    BY <1>1 DEF Addressed, SentFrom, relayed
  <2> QED BY <1>1, <2>1, OwnerFacts DEF RoutesOk, RouteOk, Untouched
<1> QED BY <1>1, <1>2, OwnerCounts, OwnerFacts, OwnerKeeps

\* Every operation of the owner keeps the invariant.
LEMMA OwnerStep ==
    ASSUME ManagerInv, OwnerNext
    PROVE  ManagerInv'
<1>1. CASE \E r \in Remotes :
             deployBridgeToken(r) \/ registerHomeToken(r) \/ registerToken(r, Home)
  <2>1. PICK r \in Remotes :
             deployBridgeToken(r) \/ registerHomeToken(r) \/ registerToken(r, Home)
    BY <1>1
  <2>2. CASE deployBridgeToken(r)
    BY <2>2, DeployStep
  <2>3. CASE registerHomeToken(r)
    <3>1. PICK p \in Pairs : p = <<Home, r>>
      BY ConstantTypes
    <3>2. withEntry(p[1], p[2], scaleFor(p[1], p[2]))
      BY <2>3, <3>1 DEF registerHomeToken, registerToken
    <3> QED BY <3>2, EntryStep
  <2>4. CASE registerToken(r, Home)
    <3>1. PICK p \in Pairs : p = <<r, Home>>
      BY ConstantTypes
    <3>2. withEntry(p[1], p[2], scaleFor(p[1], p[2]))
      BY <2>4, <3>1 DEF registerToken
    <3> QED BY <3>2, EntryStep
  <2> QED BY <2>1, <2>2, <2>3, <2>4
<1>2. CASE \E p \in Pairs : registerTokenWithScale(p[1], p[2]) \/ removeToken(p[1], p[2])
  <2>1. PICK p \in Pairs : registerTokenWithScale(p[1], p[2]) \/ removeToken(p[1], p[2])
    BY <1>2
  <2>2. CASE registerTokenWithScale(p[1], p[2])
    BY <2>2, EntryStep DEF registerTokenWithScale
  <2>3. CASE removeToken(p[1], p[2])
    BY <2>3, RemoveStep
  <2> QED BY <2>1, <2>2, <2>3
<1>3. CASE \E c \in Chains : pause(c) \/ unpause(c) \/ transferTokenOwnership(c)
  BY <1>3, PauseStep, OwnershipStep
<1> QED BY <1>1, <1>2, <1>3 DEF OwnerNext

\* Every step of the managers keeps the invariant.
LEMMA ManagerStep == ManagerInv /\ [Next]_vars => ManagerInv'
<1> SUFFICES ASSUME ManagerInv, [Next]_vars PROVE ManagerInv'
  OBVIOUS
<1>1. CASE \E p \in Pairs, payable \in BOOLEAN, amount \in 1 .. MaxUint :
             transfer(p[1], p[2], payable, amount)
  BY <1>1, TransferStep
<1>2. CASE \E p \in Pairs, amount \in ForeignAmounts : foreignRelay(p[1], p[2], amount)
  BY <1>2, ForeignStep
<1>3. CASE \E m \in relayed : accept(m) \/ acceptFails(m)
  BY <1>3, AcceptStep, FailStep
<1>4. CASE OwnerNext
  BY <1>4, OwnerStep
<1>5. CASE UNCHANGED vars
  BY <1>5, OwnerFacts, OwnerKeeps DEF vars, ManagerInv, RoutesOk, RouteOk, Untouched,
     Addressed, SentFrom, relayed
<1> QED BY <1>1, <1>2, <1>3, <1>4, <1>5 DEF Next

\* The values of the managers' state stay in their types: no balance, supply
\* or amount of transfer(), accept() or the owner's operations leaves uint.
THEOREM TypeCorrect == Spec => []TypeOK
<1>1. ManagerInv => TypeOK
  BY DEF ManagerInv, LedgerOk
<1> QED BY <1>1, ManagerInit, ManagerStep, PTL DEF Spec

\* What the home manager holds is worth exactly what exists or is on its way
\* elsewhere, whatever transfer(), accept() and the owner do.
THEOREM TokensAreBacked == Spec => []SupplyIsBacked
<1>1. ManagerInv => SupplyIsBacked
  BY DEF ManagerInv
<1> QED BY <1>1, ManagerInit, ManagerStep, PTL DEF Spec

\* accept() pays every transfer that was taken, unless its recipient cannot be
\* paid or the owner removed the entry it needs.
THEOREM TransfersArePaid == Spec => []NoTransferLost
<1>1. ManagerInv => NoTransferLost
  BY DEF ManagerInv
<1> QED BY <1>1, ManagerInit, ManagerStep, PTL DEF Spec

-----------------------------------------------------------------------------
(* The ledger *)

\* What the holders of a chain have, in units.
LEMMA HeldInUnits ==
    ASSUME ManagerInv, NEW c \in Chains
    PROVE  /\ Circulating(c) \in Nat /\ unit(c) \in Nat /\ Circulating(c) * unit(c) \in Nat
           /\ worth(c, Circulating(c)) = Circulating(c) * unit(c)
<1>1. Circulating(c) \in Nat
  BY ManagerFacts, ConstantTypes DEF Circulating, Chains
<1>2. \A x, y \in Nat : x * y \in Nat
  OBVIOUS
<1> QED BY <1>1, <1>2, WorthIsUnits, Units

\* A sum of amounts is worth the sum of what they are worth.
LEMMA WorthAdds ==
    \A x, y, z \in Nat : /\ (x + y) * z = x * z + y * z /\ x * z \in Nat
                         /\ y <= x => (x - y) * z = x * z - y * z /\ y * z <= x * z
<1> SUFFICES ASSUME NEW x \in Nat, NEW y \in Nat, NEW z \in Nat
             PROVE  /\ (x + y) * z = x * z + y * z /\ x * z \in Nat
                    /\ y <= x => (x - y) * z = x * z - y * z /\ y * z <= x * z
  OBVIOUS
<1>1. (x + y) * z = x * z + y * z /\ (x - y) * z = x * z - y * z /\ x * z \in Nat /\ y * z \in Nat
  OBVIOUS
<1>2. ASSUME y <= x PROVE y * z <= x * z
  <2>1. PICK k \in Nat : k = x - y
    BY <1>2
  <2>2. k * z \in Nat /\ k * z = x * z - y * z
    BY <1>1, <2>1
  <2> QED BY <1>1, <2>2
<1> QED BY <1>1, <1>2

\* transfer() is a departure.
LEMMA TransferDeparts ==
    ASSUME ManagerInv, NEW p \in Pairs, NEW payable \in BOOLEAN, NEW amount \in 1 .. MaxUint,
           transfer(p[1], p[2], payable, amount)
    PROVE  Ledger!Next
<1> DEFINE Held == [d \in Chains |-> worth(d, Circulating(d))]
           Departed == {x \in relayed : x.sender = Manager}
           Arrived == {x \in relayed : x.sender = Manager /\ status[x] = "accepted"}
<1>1. PICK m \in Messages :
         /\ m.source = p[1] /\ m.target = p[2] /\ m.sender = Manager
         /\ m.amount * unit(p[2]) = amount * unit(p[1])
         /\ m \notin relayed /\ relayed' = relayed \cup {m}
         /\ status'[m] = "sent" /\ \A n \in relayed : status'[n] = status[n]
  BY TransferFacts
<1>2. PICK c \in Chains : c = p[1] /\ c # p[2]
  BY ConstantTypes
<1>3. /\ amount \in Nat /\ amount <= Circulating(c) /\ Circulating(c)' = Circulating(c) - amount
      /\ \A d \in Chains : d # c => Circulating(d)' = Circulating(d)
  <2>1. minted \in [Remotes -> Nat] /\ locked \in Nat /\ Supply \in Nat /\ amount \in Nat
    BY ManagerFacts, ConstantTypes, TransferFacts
  <2>2. CASE /\ c = Home /\ locked' = locked + amount /\ minted' = minted
             /\ amount <= Supply - locked
    BY <2>1, <2>2 DEF Circulating
  <2>3. CASE /\ c # Home /\ c \in Remotes /\ locked' = locked
             /\ minted[c] \in Nat /\ amount <= minted[c]
             /\ minted' = [minted EXCEPT ![c] = minted[c] - amount]
    <3>1. \A d \in Chains : d # Home => d \in Remotes
      BY DEF Chains
    <3> QED BY <2>1, <2>3, <3>1 DEF Circulating
  <2> QED BY <1>2, <2>2, <2>3, <2>1, TransferFacts
<1>4. PICK w \in Nat : w = amount * unit(c) /\ w = worth(m.target, m.amount)
                       /\ w <= worth(c, Circulating(c))
                       /\ worth(c, Circulating(c)') = worth(c, Circulating(c)) - w
  <2>1. /\ Circulating(c) \in Nat /\ unit(c) \in Nat
        /\ worth(c, Circulating(c)) = Circulating(c) * unit(c)
    BY HeldInUnits
  <2>2. worth(c, Circulating(c)') = (Circulating(c) - amount) * unit(c)
    BY <1>3, WorthIsUnits
  <2>3. /\ amount * unit(c) \in Nat /\ amount * unit(c) <= Circulating(c) * unit(c)
        /\ (Circulating(c) - amount) * unit(c) = Circulating(c) * unit(c) - amount * unit(c)
    BY <1>3, <2>1, WorthAdds
  <2>4. worth(m.target, m.amount) = amount * unit(c)
    BY <1>1, <1>2, WorthIsUnits
  <2> QED BY <2>1, <2>2, <2>3, <2>4
<1>5. Held' = [Held EXCEPT ![c] = @ - w]
  BY <1>3, <1>4
<1>6. m \in Departed' \ Departed /\ Departed' = Departed \cup {m} /\ Arrived' = Arrived
  <2>1. \A n \in relayed : n # m
    BY <1>1
  <2> QED BY <1>1, <2>1
<1>7. /\ m \in Transfers /\ m.source = c /\ m.source # m.target
      /\ transferWorth[m] = w /\ w <= Held[c]
  BY <1>1, <1>2, <1>4 DEF Transfers, transferWorth
<1>8. Ledger!Depart(m)
  BY <1>5, <1>6, <1>7 DEF Ledger!Depart
<1> QED BY <1>6, <1>8 DEF Ledger!Next

\* accept() is an arrival.
LEMMA AcceptArrives ==
    ASSUME ManagerInv, NEW m \in relayed, accept(m)
    PROVE  Ledger!Next
<1> DEFINE Held == [d \in Chains |-> worth(d, Circulating(d))]
           Departed == {x \in relayed : x.sender = Manager}
           Arrived == {x \in relayed : x.sender = Manager /\ status[x] = "accepted"}
<1>1. /\ status[m] = "sent" /\ m.sender = Manager /\ canPay(m)
      /\ \/ m.target = Home /\ locked' = locked - m.amount /\ minted' = minted
         \/ m.target # Home /\ minted' = [minted EXCEPT ![m.target] = minted[m.target] + m.amount]
                            /\ locked' = locked
      /\ status' = [status EXCEPT ![m] = "accepted"]
  BY DEF accept, acceptsFrom
<1>2. m \in Messages /\ m.amount \in Nat
  BY ManagerFacts
<1>3. PICK c \in Chains : c = m.target
  BY <1>2 DEF Messages
<1>4. /\ Circulating(c)' = Circulating(c) + m.amount
      /\ \A d \in Chains : d # c => Circulating(d)' = Circulating(d)
  <2>1. minted \in [Remotes -> Nat] /\ locked \in Nat /\ Supply \in Nat
    BY ManagerFacts, ConstantTypes
  <2>2. \A d \in Chains : d # Home => d \in Remotes
    BY DEF Chains
  <2>3. CASE c = Home
    BY <1>1, <1>2, <1>3, <2>1, <2>3 DEF Circulating
  <2>4. CASE c # Home
    BY <1>1, <1>2, <1>3, <2>1, <2>2, <2>4 DEF Circulating
  <2> QED BY <2>3, <2>4
<1>5. worth(c, Circulating(c)') = worth(c, Circulating(c)) + worth(m.target, m.amount)
  <2>1. /\ Circulating(c) \in Nat /\ unit(c) \in Nat
        /\ worth(c, Circulating(c)) = Circulating(c) * unit(c)
    BY HeldInUnits
  <2>2. /\ worth(c, Circulating(c)') = (Circulating(c) + m.amount) * unit(c)
        /\ worth(m.target, m.amount) = m.amount * unit(c)
    BY <1>3, <1>4, WorthIsUnits
  <2>3. (Circulating(c) + m.amount) * unit(c) = Circulating(c) * unit(c) + m.amount * unit(c)
    BY <1>2, <2>1, WorthAdds
  <2> QED BY <2>1, <2>2, <2>3
<1>6. Held' = [Held EXCEPT ![c] = @ + worth(m.target, m.amount)]
  BY <1>4, <1>5
<1>7. /\ relayed' = relayed /\ status'[m] = "accepted"
      /\ \A n \in relayed \ {m} : status'[n] = status[n]
  BY <1>1, MessagesAfterDispatch
<1>8. m \in Departed \ Arrived /\ Departed' = Departed /\ Arrived' = Arrived \cup {m}
  BY <1>1, <1>7
<1>9. transferWorth[m] = worth(m.target, m.amount)
  BY <1>2 DEF transferWorth
<1>10. Ledger!Arrive(m)
  BY <1>3, <1>6, <1>8, <1>9 DEF Ledger!Arrive
<1> QED BY <1>8, <1>10 DEF Ledger!Next

\* Nothing else touches the accounts.
LEMMA AccountsElsewhere ==
    ASSUME UNCHANGED <<locked, minted>>,
           {x \in relayed' : x.sender = Manager} = {x \in relayed : x.sender = Manager},
           \A x \in relayed : x.sender = Manager =>
              (status'[x] = "accepted" <=> status[x] = "accepted")
    PROVE  UNCHANGED Ledger!vars
<1>1. \A c \in Chains : Circulating(c)' = Circulating(c)
  BY DEF Circulating
<1>2. {x \in relayed' : x.sender = Manager /\ status'[x] = "accepted"}
        = {x \in relayed : x.sender = Manager /\ status[x] = "accepted"}
  OBVIOUS
<1> QED BY <1>1, <1>2 DEF Ledger!vars

\* The managers keep the accounts of the ledger, whatever the decimals, the number
\* of chains, the order of deliveries, what other contracts send and what the owner
\* does: what transfer() takes from a chain's holders is what accept() gives to
\* those of the other chain, once.
THEOREM ManagersKeepLedger == Spec => KeepsLedger
<1>1. Init => Ledger!Init
  <2> SUFFICES ASSUME Init PROVE Ledger!Init
    OBVIOUS
  <2>1. \A c \in Chains : worth(c, Circulating(c)) \in Nat
    BY ManagerInit, HeldInUnits
  <2>2. relayed = {}
    BY DEF Init, relayed
  <2> QED BY <2>1, <2>2 DEF Ledger!Init
<1>2. ManagerInv /\ [Next]_vars => [Ledger!Next]_(Ledger!vars)
  <2> SUFFICES ASSUME ManagerInv, [Next]_vars
               PROVE  [Ledger!Next]_(Ledger!vars)
    OBVIOUS
  <2>1. CASE \E p \in Pairs, payable \in BOOLEAN, amount \in 1 .. MaxUint :
             transfer(p[1], p[2], payable, amount)
    BY <2>1, TransferDeparts
  <2>2. CASE \E p \in Pairs, amount \in ForeignAmounts : foreignRelay(p[1], p[2], amount)
    <3>1. PICK p \in Pairs, amount \in ForeignAmounts : foreignRelay(p[1], p[2], amount)
      BY <2>2
    <3>2. amount \in 0 .. MaxUint /\ relayWithMetadata(p[1], p[2], Other, TRUE, amount)
          /\ UNCHANGED <<locked, minted>>
      BY <3>1, TokenManagerAssumption DEF foreignRelay
    <3>3. PICK m \in Messages : /\ m.sender = Other /\ relayed' = relayed \cup {m}
                                /\ \A n \in relayed : status'[n] = status[n]
      BY <3>2, NewMessage DEF ManagerInv, LedgerOk
    <3> QED BY <3>2, <3>3, ConstantTypes, AccountsElsewhere
  <2>3. CASE \E m \in relayed : accept(m)
    BY <2>3, AcceptArrives
  <2>4. CASE \E m \in relayed : acceptFails(m)
    <3>1. PICK m \in relayed : acceptFails(m)
      BY <2>4
    <3>2. /\ relayed' = relayed /\ status'[m] = "failed" /\ status[m] = "sent"
          /\ \A n \in relayed \ {m} : status'[n] = status[n]
      BY <3>1, MessagesAfterDispatch DEF acceptFails
    <3> QED BY <3>1, <3>2, AccountsElsewhere DEF acceptFails
  <2>5. CASE OwnerNext \/ UNCHANGED vars
    <3>1. UNCHANGED <<locked, minted, status>>
      BY <2>5 DEF OwnerNext, deployBridgeToken, deployToken, registerHomeToken, registerToken,
         registerTokenWithScale, withEntry, removeToken, transferTokenOwnership, pause, unpause, vars
    <3>2. relayed' = relayed
      BY <3>1 DEF relayed
    <3> QED BY <3>1, <3>2, AccountsElsewhere
  <2> QED BY <2>1, <2>2, <2>3, <2>4, <2>5 DEF Next
<1> QED
  BY <1>1, <1>2, ManagerInit, ManagerStep, PTL DEF Spec, KeepsLedger, Ledger!Spec

-----------------------------------------------------------------------------
(* The page's toast *)

\* The page only watches: beside it the managers take their own steps.
LEMMA ToastWatches == [ToastNext]_<<vars, toast>> => [Next]_vars
<1> SUFFICES ASSUME [ToastNext]_<<vars, toast>> PROVE [Next]_vars
  OBVIOUS
<1>1. CASE ManagerNext
  BY <1>1 DEF ManagerNext, Next
<1>2. CASE \E x \in relayed : dispatchOf(x)
  BY <1>2 DEF dispatchOf, Next
<1>3. CASE \E m \in relayed, from \in Chains : receiptOf(m, from)
  BY <1>3 DEF receiptOf
<1>4. CASE watchContractEvent \/ filterInstalled
  BY <1>4 DEF watchContractEvent, filterInstalled
<1>5. CASE \E recent \in SUBSET dispatched : getLogs(recent)
  BY <1>5 DEF getLogs
<1>6. CASE doubleCheck
  BY <1>6 DEF doubleCheck
<1>7. CASE UNCHANGED <<vars, toast>>
  BY <1>7
<1> QED BY <1>1, <1>2, <1>3, <1>4, <1>5, <1>6, <1>7 DEF ToastNext

\* The managers beside the page are the managers: what is proved of Spec holds
\* of the composition too.
THEOREM PageOnlyWatches == ToastSpec => Spec
<1>1. ToastInit => Init
  BY DEF ToastInit
<1> QED BY <1>1, ToastWatches, PTL DEF ToastSpec, Spec

\* A relay adds one message and leaves what became of the others.
LEMMA RelayAddsOne ==
    ASSUME ManagerInv, NEW c, NEW t, NEW s, NEW b, NEW a,
           relayWithMetadata(c, t, s, b, a)
    PROVE  \E m : /\ m \notin relayed /\ relayed' = relayed \cup {m}
                  /\ status'[m] = "sent" /\ \A n \in relayed : status'[n] = status[n]
<1>1. PICK A : A = {x \in relayed : x.source = c /\ x.target = t}
  OBVIOUS
<1>2. A \in SUBSET relayed /\ IsFiniteSet(relayed)
  BY <1>1 DEF ManagerInv, MessagesOk
<1>3. Cardinality(A) \in Nat
  BY <1>2, FS_Subset, FS_CardinalityType
<1>4. nonceOf(c, t) \in Nat
  BY <1>1, <1>3 DEF nonceOf
<1>5. PICK m : m = [source |-> c, target |-> t, sender |-> s, payable |-> b,
                    amount |-> a, nonce |-> nonceOf(c, t) + 1]
  OBVIOUS
<1>6. m.source = c /\ m.target = t /\ m.nonce = nonceOf(c, t) + 1
  BY <1>5
<1>7. m \notin relayed
  <2>1. SUFFICES ASSUME m \in relayed PROVE FALSE
    OBVIOUS
  <2>2. m.nonce <= nonceOf(c, t)
    BY <1>6, <2>1 DEF ManagerInv, MessagesOk
  <2> QED BY <1>4, <1>6, <2>2
<1>8. status' = [n \in relayed \cup {m} |-> IF n = m THEN "sent" ELSE status[n]]
  BY <1>5 DEF relayWithMetadata
<1>9. /\ relayed' = relayed \cup {m}
      /\ status'[m] = "sent" /\ \A n \in relayed : status'[n] = status[n]
  BY <1>7, <1>8 DEF relayed
<1> QED BY <1>7, <1>9

\* Only a dispatch dispatches.
LEMMA OthersDispatchNothing ==
    ASSUME ManagerInv, ManagerNext
    PROVE  relayed \subseteq relayed' /\ dispatched' = dispatched /\ toast' = toast
<1>1. CASE OwnerNext
  <2>1. status' = status
    BY <1>1 DEF OwnerNext, deployBridgeToken, deployToken, registerHomeToken, registerToken,
       registerTokenWithScale, withEntry, removeToken, pause, unpause, transferTokenOwnership
  <2> QED BY <2>1 DEF ManagerNext, relayed, dispatched
<1>2. CASE \E c, t, s, b, a : relayWithMetadata(c, t, s, b, a)
  <2>1. PICK m : /\ m \notin relayed /\ relayed' = relayed \cup {m}
                 /\ status'[m] = "sent" /\ \A n \in relayed : status'[n] = status[n]
    BY <1>2, RelayAddsOne
  <2> QED BY <2>1 DEF ManagerNext, dispatched
<1>3. CASE \E p \in Pairs, payable \in BOOLEAN, amount \in 1 .. MaxUint :
             transfer(p[1], p[2], payable, amount)
  BY <1>2, <1>3 DEF transfer
<1>4. CASE \E p \in Pairs, amount \in ForeignAmounts : foreignRelay(p[1], p[2], amount)
  BY <1>2, <1>4 DEF foreignRelay
<1> QED BY <1>1, <1>3, <1>4 DEF ManagerNext

\* A dispatch dispatches its message.
LEMMA DispatchDispatches ==
    ASSUME ManagerInv, NEW x \in relayed, dispatchOf(x)
    PROVE  relayed' = relayed /\ dispatched' = dispatched \cup {x} /\ onLogs(x)
<1>1. onLogs(x) /\ \E s \in {"accepted", "failed"} : status' = [status EXCEPT ![x] = s]
  BY DEF dispatchOf, accept, acceptFails
<1>2. PICK s \in {"accepted", "failed"} : status' = [status EXCEPT ![x] = s]
  BY <1>1
<1>3. /\ relayed' = relayed
      /\ status'[x] = s /\ \A n \in relayed \ {x} : status'[n] = status[n]
  BY <1>2, MessagesAfterDispatch
<1> QED BY <1>1, <1>3 DEF dispatched

ToastOk ==
    /\ toast \in Toasts \cup {NoToast}
    /\ toast # NoToast =>
          /\ toast.msg \in relayed
          /\ toast.nonce \in {toast.msg.nonce, NoNonce}

\* Once the node has answered, a dispatch has been heard of, is in the answer,
\* was too long ago, or fell between the look and the filter.
AnswersComplete ==
    toast # NoToast /\ toast.msg \in dispatched =>
        /\ toast.phase = "answered" => toast.late \/ toast.between \/ toast.found \/ toast.done
        /\ toast.phase = "checked" => toast.late \/ toast.between \/ toast.done

ToastInv == ManagerInv /\ ToastOk /\ AnswersComplete

\* The filter lets the message's own event pass.
LEMMA FilterFinds ==
    ASSUME ToastOk, toast # NoToast
    PROVE  isFor(toast, toast.msg)
<1>1. toast.msg \in relayed /\ toast.nonce \in {toast.msg.nonce, NoNonce}
  BY DEF ToastOk
<1> QED BY <1>1 DEF isFor

\* Before the receipt.
LEMMA ToastFirst == ToastInit => ToastInv
<1> SUFFICES ASSUME ToastInit PROVE ToastInv
  OBVIOUS
<1>1. ManagerInv /\ toast = NoToast
  BY ManagerInit DEF ToastInit
<1> QED BY <1>1 DEF ToastInv, ToastOk, AnswersComplete

\* A step that dispatches nothing.
LEMMA ToastManagerStep ==
    ASSUME ToastInv, ManagerInv', relayed \subseteq relayed', dispatched' = dispatched, toast' = toast
    PROVE  ToastInv'
<1>1. ToastOk'
  BY DEF ToastInv, ToastOk
<1>2. AnswersComplete'
  BY DEF ToastInv, AnswersComplete
<1> QED BY <1>1, <1>2 DEF ToastInv

\* A dispatch, which the watch may hear of.
LEMMA ToastDispatchStep ==
    ASSUME ToastInv, ManagerInv', NEW x \in relayed, dispatchOf(x)
    PROVE  ToastInv'
<1>1. relayed' = relayed /\ dispatched' = dispatched \cup {x} /\ onLogs(x)
  BY DispatchDispatches DEF ToastInv
<1>2. CASE toast = NoToast
  <2>1. toast' = NoToast
    BY <1>1, <1>2 DEF onLogs, listening, looked
  <2> QED BY <2>1 DEF ToastInv, ToastOk, AnswersComplete
<1>3. CASE toast # NoToast /\ toast' = toast
           /\ ~(listening /\ isFor(toast, x)) /\ ~(looked /\ ~toast.installed /\ x = toast.msg)
  <2>1. ToastOk'
    BY <1>1, <1>3 DEF ToastInv, ToastOk
  <2>2. AnswersComplete'
    <3>1. CASE x = toast.msg
      <4>1. ~looked
        BY <1>3, <3>1, FilterFinds DEF listening, ToastInv
      <4>2. toast.phase # "answered" /\ toast.phase # "checked"
        BY <1>3, <4>1 DEF looked
      <4> QED BY <1>3, <4>2 DEF AnswersComplete
    <3>2. CASE x # toast.msg
      BY <1>1, <1>3, <3>2 DEF ToastInv, AnswersComplete
    <3> QED BY <3>1, <3>2
  <2> QED BY <2>1, <2>2 DEF ToastInv
<1>4. CASE toast # NoToast /\ \/ toast' = [toast EXCEPT !.done = TRUE]
                              \/ toast' = [toast EXCEPT !.between = TRUE]
  <2>1. toast \in Toasts
    BY <1>4 DEF ToastInv, ToastOk
  <2>2. /\ toast' \in Toasts /\ toast'.msg = toast.msg /\ toast'.nonce = toast.nonce
        /\ toast'.done = TRUE \/ toast'.between = TRUE
    BY <1>4, <2>1 DEF Toasts
  <2>3. ToastOk'
    BY <1>1, <1>4, <2>2 DEF ToastInv, ToastOk
  <2>4. AnswersComplete'
    BY <2>2 DEF AnswersComplete
  <2> QED BY <2>3, <2>4 DEF ToastInv
<1> QED BY <1>1, <1>2, <1>3, <1>4 DEF onLogs

\* The page looks up the nonce, watches, looks back and gets its answer.
LEMMA ToastPageStep ==
    ASSUME ToastInv, ManagerInv', vars' = vars,
           \/ \E m \in relayed, from \in Chains : receiptOf(m, from)
           \/ watchContractEvent
           \/ filterInstalled
           \/ \E recent \in SUBSET dispatched : getLogs(recent)
           \/ doubleCheck
    PROVE  ToastInv'
<1>1. relayed' = relayed /\ dispatched' = dispatched /\ relayed \subseteq Messages
  BY ManagerFacts DEF vars, relayed, dispatched, ToastInv
<1>2. CASE \E m \in relayed, from \in Chains : receiptOf(m, from)
  <2>1. PICK m \in relayed, from \in Chains : receiptOf(m, from)
    BY <1>2
  <2>2. m \in Messages /\ m.nonce \in Nat
    BY <1>1, ConstantTypes DEF Messages
  <2>3. nonceIn(m, from) \in {m.nonce, NoNonce}
    BY DEF nonceIn
  <2>4. toast' = [msg |-> m, nonce |-> nonceIn(m, from),
                 phase |-> "looking", installed |-> FALSE, found |-> FALSE,
                 late |-> FALSE, between |-> FALSE, done |-> FALSE]
    BY <2>1 DEF receiptOf
  <2>5. toast' \in Toasts
    BY <2>2, <2>3, <2>4 DEF Toasts
  <2>6. toast'.msg = m /\ toast'.nonce = nonceIn(m, from) /\ toast'.phase = "looking"
    BY <2>4
  <2> QED BY <1>1, <2>3, <2>5, <2>6 DEF ToastInv, ToastOk, AnswersComplete
<1>3. CASE watchContractEvent
  <2>1. toast # NoToast /\ toast \in Toasts /\ toast' = [toast EXCEPT !.phase = "watching"]
    BY <1>3 DEF watchContractEvent, ToastInv, ToastOk
  <2>2. /\ toast' \in Toasts /\ toast'.msg = toast.msg /\ toast'.nonce = toast.nonce
        /\ toast'.phase = "watching"
    BY <2>1 DEF Toasts
  <2> QED BY <1>1, <2>1, <2>2 DEF ToastInv, ToastOk, AnswersComplete
<1>4. CASE filterInstalled
  <2>1. toast # NoToast /\ toast \in Toasts /\ toast' = [toast EXCEPT !.installed = TRUE]
    BY <1>4 DEF filterInstalled, ToastInv, ToastOk
  <2>2. /\ toast' \in Toasts /\ toast'.msg = toast.msg /\ toast'.nonce = toast.nonce
        /\ toast'.phase = toast.phase /\ toast'.late = toast.late /\ toast'.between = toast.between
        /\ toast'.done = toast.done /\ toast'.found = toast.found
    BY <2>1 DEF Toasts
  <2>3. ToastOk'
    BY <1>1, <2>1, <2>2 DEF ToastInv, ToastOk
  <2>4. AnswersComplete'
    BY <1>1, <2>1, <2>2 DEF ToastInv, AnswersComplete
  <2> QED BY <2>3, <2>4 DEF ToastInv
<1>5. CASE \E recent \in SUBSET dispatched : getLogs(recent)
  <2>1. PICK recent \in SUBSET dispatched : getLogs(recent)
    BY <1>5
  <2>2. PICK late \in BOOLEAN : late = (toast.msg \in dispatched \ recent)
    <3>1. (toast.msg \in dispatched \ recent) \in BOOLEAN
      OBVIOUS
    <3> QED BY <3>1, Zenon
  <2>3. PICK found \in BOOLEAN : found = (\E x \in recent : isFor(toast, x))
    OBVIOUS
  <2>4. /\ toast # NoToast /\ toast \in Toasts
        /\ toast' = [toast EXCEPT !.phase = "answered", !.late = late, !.found = found]
    BY <2>1, <2>2, <2>3 DEF getLogs, ToastInv, ToastOk
  <2>5. /\ toast' \in Toasts /\ toast'.msg = toast.msg /\ toast'.nonce = toast.nonce
        /\ toast'.phase = "answered" /\ toast'.found = found /\ toast'.late = late
    BY <2>4 DEF Toasts
  <2>6. ToastOk'
    BY <1>1, <2>4, <2>5 DEF ToastInv, ToastOk
  <2>7. AnswersComplete'
    <3>1. toast.msg \in dispatched => late \/ found
      BY <2>2, <2>3, <2>4, FilterFinds DEF ToastInv
    <3> QED BY <1>1, <2>5, <3>1 DEF AnswersComplete
  <2> QED BY <2>6, <2>7 DEF ToastInv
<1>6. CASE doubleCheck
  <2>1. PICK done \in BOOLEAN : done = (toast.done \/ toast.found)
    OBVIOUS
  <2>2. /\ toast # NoToast /\ toast \in Toasts /\ toast.phase = "answered"
        /\ toast' = [toast EXCEPT !.phase = "checked", !.found = FALSE, !.done = done]
    BY <1>6, <2>1 DEF doubleCheck, ToastInv, ToastOk
  <2>3. /\ toast' \in Toasts /\ toast'.msg = toast.msg /\ toast'.nonce = toast.nonce
        /\ toast'.phase = "checked" /\ toast'.done = done
        /\ toast'.late = toast.late /\ toast'.between = toast.between
    BY <2>2 DEF Toasts
  <2>4. ToastOk'
    BY <1>1, <2>2, <2>3 DEF ToastInv, ToastOk
  <2>5. AnswersComplete'
    <3>1. toast.msg \in dispatched => toast.late \/ toast.between \/ toast.found \/ toast.done
      BY <2>2 DEF ToastInv, AnswersComplete
    <3>2. toast'.msg \in dispatched' => toast'.late \/ toast'.between \/ toast'.done
      BY <1>1, <2>1, <2>3, <3>1, Zenon
    <3>3. toast'.phase # "answered"
      BY <2>3
    <3> QED BY <3>2, <3>3 DEF AnswersComplete
  <2> QED BY <2>4, <2>5 DEF ToastInv
<1> QED BY <1>2, <1>3, <1>4, <1>5, <1>6

\* Every step keeps the invariant.
LEMMA ToastStep == ToastInv /\ [ToastNext]_<<vars, toast>> => ToastInv'
<1> SUFFICES ASSUME ToastInv, [ToastNext]_<<vars, toast>> PROVE ToastInv'
  OBVIOUS
<1>1. ManagerInv'
  BY ManagerStep, ToastWatches DEF ToastInv
<1>2. CASE ManagerNext
  BY <1>1, <1>2, OthersDispatchNothing, ToastManagerStep DEF ToastInv
<1>3. CASE \E x \in relayed : dispatchOf(x)
  BY <1>1, <1>3, ToastDispatchStep
<1>4. CASE \/ \E m \in relayed, from \in Chains : receiptOf(m, from)
           \/ watchContractEvent
           \/ filterInstalled
           \/ \E recent \in SUBSET dispatched : getLogs(recent)
           \/ doubleCheck
  <2>1. vars' = vars
    BY <1>4 DEF receiptOf, watchContractEvent, filterInstalled, getLogs, doubleCheck
  <2> QED BY <1>1, <1>4, <2>1, ToastPageStep
<1>5. CASE UNCHANGED <<vars, toast>>
  <2>1. relayed' = relayed /\ dispatched' = dispatched /\ toast' = toast
    BY <1>5 DEF vars, relayed, dispatched
  <2> QED BY <1>1, <2>1, ToastManagerStep
<1> QED BY <1>2, <1>3, <1>4, <1>5 DEF ToastNext

\* The toast and the managers keep their types.
THEOREM ToastTypeCorrect == ToastSpec => []ToastTypeOK
<1>1. ToastInv => ToastTypeOK
  BY DEF ToastInv, ManagerInv, LedgerOk, ToastOk, ToastTypeOK
<1> QED BY <1>1, ToastFirst, ToastStep, PTL DEF ToastSpec

\* The watch and the look back together miss no dispatch, in whatever order
\* the filter, the look, the dispatch and the answer come, but for one over 50
\* blocks before the look and one between the look and a filter that is late.
THEOREM DispatchIsReported == ToastSpec => []NoDispatchMissed
<1>1. ToastInv => NoDispatchMissed
  BY DEF ToastInv, AnswersComplete, NoDispatchMissed
<1> QED BY <1>1, ToastFirst, ToastStep, PTL DEF ToastSpec
=============================================================================
