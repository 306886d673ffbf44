------------------------------ MODULE NatFacts ------------------------------
(***************************************************************************)
(* Facts about numbers that the proofs of this project share: least and     *)
(* greatest elements, induction over a set of numbers, and division.        *)
(***************************************************************************)
EXTENDS FiniteSetsExt, FiniteSetTheorems, WellFoundedInduction, TLAPS

\* Every nonempty set of natural numbers has a least element.
LEMMA LeastNat ==
  ASSUME NEW S \in SUBSET Nat, S # {}
  PROVE  \E x \in S : \A y \in S : x <= y
  <1>1. PICK n \in S : TRUE  OBVIOUS
  <1> DEFINE U    == 0..n
             I(b) == {k \in U : k <= b}
             II   == {I(b) : b \in S \cap U}
  <1>2. IsFiniteSet(U)
    <2>1. 0 \in Int /\ n \in Int  BY <1>1
    <2> QED  BY <2>1, FS_Interval, Zenon
  <1>3. II \subseteq SUBSET U /\ II # {}
    <2>1. n \in S \cap U  BY <1>1
    <2> QED  BY <2>1
  <1>4. IsWellFoundedOn(StrictSubsetOrdering(U), SUBSET U)
    BY <1>2, FS_StrictSubsetOrderingWellFounded, FS_FiniteSubsetsOfFinite
  <1>5. PICK X \in II : \A Y \in II : ~ (<<Y, X>> \in StrictSubsetOrdering(U))
    <2> HIDE DEF II, U
    <2> QED  BY <1>3, <1>4, WFMin
  <1>6. PICK x \in S \cap U : X = I(x)  BY <1>5
  <1>7. ASSUME NEW y \in S  PROVE x <= y
    <2>1. SUFFICES ASSUME ~ (x <= y)  PROVE FALSE  OBVIOUS
    <2>2. y \in S \cap U /\ y < x  BY <2>1, <1>1, <1>6
    <2>3. I(y) \in II /\ I(y) \in SUBSET U /\ I(x) \in SUBSET U  BY <2>2, <1>6
    <2>4. ~ (I(y) \subseteq I(x) /\ I(y) # I(x))
      BY <1>5, <1>6, <2>3 DEF StrictSubsetOrdering
    <2>5. I(y) \subseteq I(x) /\ x \in I(x) /\ x \notin I(y)  BY <2>2, <1>6
    <2> QED  BY <2>4, <2>5
  <1> QED  BY <1>6, <1>7

\* Every nonempty set of integers with a lower bound has a minimum.
LEMMA MinOfSet ==
  ASSUME NEW S \in SUBSET Int, S # {}, NEW lo \in Int, \A y \in S : lo <= y
  PROVE  Min(S) \in S /\ \A y \in S : Min(S) <= y
  <1> DEFINE T == {k \in Nat : lo + k \in S}
  <1>1. T # {}
    <2>1. PICK y \in S : TRUE  OBVIOUS
    <2>2. y - lo \in Nat /\ lo + (y - lo) = y  BY <2>1
    <2> QED  BY <2>1, <2>2
  <1>2. PICK k \in T : \A j \in T : k <= j  BY <1>1, LeastNat
  <1>3. \A y \in S : y - lo \in T
    <2>1. TAKE y \in S
    <2>2. y - lo \in Nat /\ lo + (y - lo) = y  OBVIOUS
    <2> QED  BY <2>2
  <1>4. lo + k \in S /\ \A y \in S : lo + k <= y  BY <1>2, <1>3
  <1> QED  BY <1>4 DEF Min

\* Every nonempty set of integers with an upper bound has a maximum.
LEMMA MaxOfSet ==
  ASSUME NEW S \in SUBSET Int, S # {}, NEW hi \in Int, \A y \in S : y <= hi
  PROVE  Max(S) \in S /\ \A y \in S : y <= Max(S)
  <1> DEFINE T == {k \in Nat : hi - k \in S}
  <1>1. T # {}
    <2>1. PICK y \in S : TRUE  OBVIOUS
    <2>2. hi - y \in Nat /\ hi - (hi - y) = y  BY <2>1
    <2> QED  BY <2>1, <2>2
  <1>2. PICK k \in T : \A j \in T : k <= j  BY <1>1, LeastNat
  <1>3. \A y \in S : hi - y \in T
    <2>1. TAKE y \in S
    <2>2. hi - y \in Nat /\ hi - (hi - y) = y  OBVIOUS
    <2> QED  BY <2>2
  <1>4. hi - k \in S /\ \A y \in S : y <= hi - k  BY <1>2, <1>3
  <1> QED  BY <1>4 DEF Max

\* Induction: a set with 0 and the successor of each of its numbers below n
\* has all numbers up to n.
LEMMA InductionUpTo ==
  ASSUME NEW n \in Nat, NEW S, 0 \in S, \A k \in 0..n - 1 : k \in S => k + 1 \in S
  PROVE  0..n \subseteq S
  <1>1. SUFFICES ASSUME 0..n \ S # {}  PROVE FALSE  OBVIOUS
  <1>2. PICK k \in 0..n \ S : \A j \in 0..n \ S : k <= j
    <2>1. (0..n \ S) \in SUBSET Nat  OBVIOUS
    <2> QED  BY <1>1, <2>1, LeastNat
  <1>3. k # 0 /\ k - 1 \in 0..n - 1 /\ k - 1 + 1 = k  BY <1>2
  <1>4. k - 1 \in 0..n /\ ~ (k <= k - 1)  BY <1>2, <1>3
  <1>5. k - 1 \in S  BY <1>2, <1>4
  <1> QED  BY <1>2, <1>3, <1>5

\* A set listed by 1..n without repetition has n elements.
LEMMA CountedSet ==
  ASSUME NEW n \in Nat, NEW T, NEW f \in [1..n -> T],
         \A i, j \in 1..n : f[i] = f[j] => i = j,
         \A t \in T : \E i \in 1..n : f[i] = t
  PROVE  IsFiniteSet(T) /\ Cardinality(T) = n
  <1>1. f \in Bijection(1..n, T)
    <2>1. IsInjective(f)  BY DEF IsInjective
    <2> QED  BY <2>1 DEF Bijection, Injection, Surjection
  <1>2. ExistsBijection(1..n, T)  BY <1>1 DEF ExistsBijection
  <1>3. IsFiniteSet(1..n) /\ Cardinality(1..n) = n
    <2>1. 1 \in Int /\ n \in Int  OBVIOUS
    <2>2. IsFiniteSet(1..n) /\ Cardinality(1..n) = IF 1 > n THEN 0 ELSE n - 1 + 1
      BY <2>1, FS_Interval, Zenon
    <2> QED  BY <2>2
  <1> QED  BY <1>2, <1>3, FS_Bijection, Zenon

\* Sets whose elements are matched one to one have equally many.
LEMMA Matched ==
  ASSUME NEW S, IsFiniteSet(S), NEW T, NEW f \in [S -> T],
         \A x, y \in S : f[x] = f[y] => x = y,
         \A t \in T : \E x \in S : f[x] = t
  PROVE  IsFiniteSet(T) /\ Cardinality(T) = Cardinality(S)
  <1>1. f \in Bijection(S, T)
    <2>1. IsInjective(f)  BY DEF IsInjective
    <2> QED  BY <2>1 DEF Bijection, Injection, Surjection
  <1>2. ExistsBijection(S, T)  BY <1>1 DEF ExistsBijection
  <1> QED  BY <1>2, FS_Bijection, Zenon

\* Quotient and remainder are the ones that were put together.
LEMMA DivMod ==
  ASSUME NEW n \in Nat \ {0}, NEW q \in Nat, NEW r \in 0..n - 1
  PROVE  (q * n + r) \div n = q /\ (q * n + r) % n = r
  OBVIOUS

\* The values of x under the functions G[1], G[2], ... applied one after the
\* other, up to the n-th.
Steps(G, x, n, f) == f = [k \in 0..n |-> IF k = 0 THEN x ELSE G[k][f[k - 1]]]

\* Functions from a set to itself can be applied in turn to anything in the set.
LEMMA StepsExist ==
  ASSUME NEW T, NEW n \in Nat, NEW G \in [1..n -> [T -> T]], NEW x \in T
  PROVE  \E f \in [0..n -> T] : Steps(G, x, n, f)
  <1> DEFINE P(m) == \E f \in [0..m -> T] : Steps(G, x, m, f)
             N == {m \in 0..n : P(m)}
  <1>1. 0 \in N
    <2> DEFINE f == [k \in 0..0 |-> x]
    <2>1. f = [k \in 0..0 |-> IF k = 0 THEN x ELSE G[k][f[k - 1]]] /\ f \in [0..0 -> T]  OBVIOUS
    <2> HIDE DEF f
    <2> QED  BY <2>1 DEF Steps
  <1>2. \A m \in 0..n - 1 : m \in N => m + 1 \in N
    <2> SUFFICES ASSUME NEW m \in 0..n - 1, NEW f \in [0..m -> T], Steps(G, x, m, f)
                 PROVE  P(m + 1)
      OBVIOUS
    <2> DEFINE g == [k \in 0..m + 1 |-> IF k = m + 1 THEN G[m + 1][f[m]] ELSE f[k]]
    <2>1. f = [k \in 0..m |-> IF k = 0 THEN x ELSE G[k][f[k - 1]]]  BY DEF Steps
    <2>2. f[0] = x /\ \A k \in 1..m : f[k] = G[k][f[k - 1]]
      <3>1. 0 \in 0..m /\ \A k \in 1..m : k \in 0..m /\ k # 0  OBVIOUS
      <3> QED  BY <2>1, <3>1
    <2>3. /\ \A k \in 0..m : g[k] = f[k]
          /\ g[m + 1] = G[m + 1][f[m]] /\ f[m] \in T
      OBVIOUS
    <2>4. g \in [0..m + 1 -> T]
      <3>1. m + 1 \in 1..n  OBVIOUS
      <3>2. G[m + 1] \in [T -> T]  BY <3>1
      <3>3. G[m + 1][f[m]] \in T  BY <2>3, <3>2
      <3> QED  BY <3>3
    <2>5. \A k \in 0..m + 1 : g[k] = IF k = 0 THEN x ELSE G[k][g[k - 1]]
      <3>1. TAKE k \in 0..m + 1
      <3>2. CASE k = 0  BY <2>2, <2>3, <3>2
      <3>3. CASE k = m + 1 /\ k # 0  BY <2>3, <3>3
      <3>4. CASE k \in 1..m  BY <2>2, <2>3, <3>4
      <3> QED  BY <3>2, <3>3, <3>4
    <2>6. g = [k \in 0..m + 1 |-> g[k]]  OBVIOUS
    <2> HIDE DEF g
    <2>7. g = [k \in 0..m + 1 |-> IF k = 0 THEN x ELSE G[k][g[k - 1]]]  BY <2>5, <2>6
    <2> QED  BY <2>4, <2>7 DEF Steps
  <1>3. n \in N
    <2> HIDE DEF N
    <2>1. 0..n \subseteq N  BY ONLY <1>1, <1>2, InductionUpTo, n \in Nat
    <2> QED  BY <2>1
  <1> QED  BY <1>3

\* The values of one function applied k times over to x, for k up to n.
Iterates(F, x, n, f) == f = [k \in 0..n |-> IF k = 0 THEN x ELSE F[f[k - 1]]]

\* A function from a set to itself can be iterated from anywhere in the set.
LEMMA IteratesExists ==
  ASSUME NEW T, NEW F \in [T -> T], NEW x \in T, NEW n \in Nat
  PROVE  \E f \in [0..n -> T] : Iterates(F, x, n, f)
  <1> DEFINE G == [k \in 1..n |-> F]
  <1>1. G \in [1..n -> [T -> T]]  OBVIOUS
  <1>2. PICK f \in [0..n -> T] : Steps(G, x, n, f)
    <2> HIDE DEF G
    <2> QED  BY <1>1, StepsExist
  <1>3. \A k \in 0..n : k # 0 => G[k] = F  OBVIOUS
  <1>4. Iterates(F, x, n, f)
    <2> HIDE DEF G
    <2>1. [k \in 0..n |-> IF k = 0 THEN x ELSE G[k][f[k - 1]]]
            = [k \in 0..n |-> IF k = 0 THEN x ELSE F[f[k - 1]]]
      BY <1>3
    <2>2. f = [k \in 0..n |-> IF k = 0 THEN x ELSE G[k][f[k - 1]]]  BY <1>2 DEF Steps
    <2>3. f = [k \in 0..n |-> IF k = 0 THEN x ELSE F[f[k - 1]]]  BY <2>1, <2>2, Zenon
    <2> QED  BY <2>3 DEF Iterates
  <1> QED  BY <1>4
=============================================================================
