----------------------------- MODULE NumberSets -----------------------------
(***************************************************************************)
(* Facts about sets of numbers that the other proofs cite: what Min and    *)
(* Max of FiniteSetsExt choose, the smallest counterexample with which a   *)
(* recursive function is reasoned about, and what the sums over a set or a *)
(* function, MapThenSumSet and SumFunction, add up.                        *)
(***************************************************************************)
EXTENDS Integers, FiniteSetsExt, Functions, FiniteSetTheorems, TLAPS

\* A set of natural numbers that is not empty has a smallest element.
LEMMA Smallest ==
    ASSUME NEW S \in SUBSET Nat, S # {}
    PROVE  \E m \in S : \A k \in S : m <= k
<1> DEFINE T == {0 .. k : k \in S}
<1>1. IsWellFoundedOn(StrictSubsetOrdering(Nat), FiniteSubsetsOf(Nat))
  BY FS_StrictSubsetOrderingWellFounded
<1>2. T \subseteq FiniteSubsetsOf(Nat) /\ T # {}
  <2>1. ASSUME NEW k \in S
        PROVE  0 .. k \in SUBSET Nat /\ IsFiniteSet(0 .. k)
    <3>1. k \in Int /\ 0 \in Int
      OBVIOUS
    <3> QED
      BY <3>1, FS_Interval
  <2> QED
    BY <2>1 DEF FiniteSubsetsOf
<1>3. \E x \in T : \A y \in T : ~(<<y, x>> \in StrictSubsetOrdering(Nat))
  <2> HIDE DEF T
  <2> QED
    BY <1>1, <1>2, WFMin
<1>4. PICK m \in S : \A k \in S : ~(<<0 .. k, 0 .. m>> \in StrictSubsetOrdering(Nat))
  BY <1>3
<1>5. ASSUME NEW k \in S, k < m
      PROVE  <<0 .. k, 0 .. m>> \in StrictSubsetOrdering(Nat)
  <2>1. k \in Nat /\ m \in Nat
    OBVIOUS
  <2>2. 0 .. k \subseteq 0 .. m /\ m \in 0 .. m /\ m \notin 0 .. k
    BY <2>1, <1>5
  <2>3. 0 .. k \in SUBSET Nat /\ 0 .. m \in SUBSET Nat
    OBVIOUS
  <2> QED
    BY <2>2, <2>3 DEF StrictSubsetOrdering
<1>6. ASSUME NEW k \in S
      PROVE  m <= k
  <2>1. ~(k < m)
    BY <1>4, <1>5
  <2>2. k \in Nat /\ m \in Nat
    OBVIOUS
  <2> QED
    BY <2>1, <2>2
<1> QED
  BY <1>6

\* A bounded one has a largest.
LEMMA Largest ==
    ASSUME NEW n \in Nat, NEW S \in SUBSET (0 .. n), S # {}
    PROVE  \E m \in S : \A k \in S : k <= m
<1> DEFINE T == {n - k : k \in S}
<1>1. T \in SUBSET Nat /\ T # {}
  <2>1. ASSUME NEW k \in S
        PROVE  n - k \in Nat
    <3>1. k \in 0 .. n
      OBVIOUS
    <3> QED
      BY <3>1
  <2> QED
    BY <2>1
<1>2. PICK t \in T : \A k \in T : t <= k
  <2> HIDE DEF T
  <2> QED
    BY <1>1, Smallest
<1>3. PICK m \in S : t = n - m
  OBVIOUS
<1>4. ASSUME NEW k \in S
      PROVE  k <= m
  <2>1. n - m <= n - k
    BY <1>2, <1>3
  <2>2. k \in 0 .. n /\ m \in 0 .. n
    OBVIOUS
  <2> QED
    BY <2>1, <2>2
<1> QED
  BY <1>4

\* So Min and Max mean what they say.
LEMMA MinOf ==
    ASSUME NEW S \in SUBSET Nat, S # {}
    PROVE  Min(S) \in S /\ \A k \in S : Min(S) <= k
BY Smallest DEF Min

\* The same of the largest.
LEMMA MaxOf ==
    ASSUME NEW n \in Nat, NEW S \in SUBSET (0 .. n), S # {}
    PROVE  Max(S) \in S /\ \A k \in S : Max(S) >= k
<1>1. PICK m \in S : \A k \in S : k <= m
  BY Largest
<1>2. \A k \in S : m >= k
  BY <1>1
<1> QED
  BY <1>2 DEF Max
-----------------------------------------------------------------------------
(***************************************************************************)
(* Sums.  MapThenSumSet is a recursive function over the subsets of a set: *)
(* it takes out an element, adds its number, and goes on with the rest.    *)
(***************************************************************************)
AddUp(f, g, s) ==
    IF s = {} THEN 0
    ELSE LET x == CHOOSE x \in s : TRUE IN f[x] + g[s \ {x}]
Sums(f, S) == CHOOSE g : g = [s \in SUBSET S |-> AddUp(f, g, s)]

\* Among subsets of a finite set there is one that has none of the others in it that
\* miss one of its elements.
LEMMA SmallestSubset ==
    ASSUME NEW S, IsFiniteSet(S), NEW B \in SUBSET (SUBSET S), B # {}
    PROVE  \E s \in B : \A x \in s : s \ {x} \notin B
<1> DEFINE T == {Cardinality(s) : s \in B}
<1>1. \A s \in SUBSET S : IsFiniteSet(s) /\ Cardinality(s) \in Nat
  BY FS_Subset, FS_CardinalityType
<1>2. T \in SUBSET Nat /\ T # {}
  BY <1>1
<1>3. PICK m \in T : \A k \in T : m <= k
  <2> HIDE DEF T
  <2> QED
    BY <1>2, Smallest
<1>4. PICK s \in B : Cardinality(s) = m
  OBVIOUS
<1>5. ASSUME NEW x \in s, s \ {x} \in B
      PROVE  FALSE
  <2>1. Cardinality(s \ {x}) = Cardinality(s) - 1
    BY <1>1, FS_RemoveElement
  <2>2. Cardinality(s) <= Cardinality(s \ {x})
    BY <1>3, <1>4, <1>5
  <2>3. Cardinality(s) \in Nat
    BY <1>1
  <2> QED
    BY <2>1, <2>2, <2>3
<1> QED
  BY <1>5

\* The recursion has a solution, and the sums are one.
LEMMA SumsAddUp ==
    ASSUME NEW S, IsFiniteSet(S), NEW f, \A x \in S : f[x] \in Int
    PROVE  /\ Sums(f, S) \in [SUBSET S -> Int]
           /\ \A s \in SUBSET S : Sums(f, S)[s] = AddUp(f, Sums(f, S), s)
<1> DEFINE N == Cardinality(S)
           Small(n) == {s \in SUBSET S : Cardinality(s) <= n}
           Upto(g, n) == /\ g \in [Small(n) -> Int]
                         /\ \A s \in Small(n) : g[s] = AddUp(f, g, s)
<1>1. /\ N \in Nat
      /\ \A s \in SUBSET S : IsFiniteSet(s) /\ Cardinality(s) \in 0 .. N
  <2>1. ASSUME NEW s \in SUBSET S
        PROVE  IsFiniteSet(s) /\ Cardinality(s) <= N
    BY FS_Subset
  <2> QED
    BY <2>1, FS_CardinalityType
<1>2. ASSUME NEW s \in SUBSET S, s # {}
      PROVE  LET x == CHOOSE x \in s : TRUE
             IN  /\ x \in s /\ s \ {x} \in SUBSET S
                 /\ Cardinality(s \ {x}) = Cardinality(s) - 1
  <2> DEFINE x == CHOOSE x \in s : TRUE
  <2>1. x \in s
    BY <1>2
  <2>2. Cardinality(s \ {x}) = Cardinality(s) - 1
    BY <1>1, <2>1, FS_RemoveElement
  <2> QED
    BY <2>1, <2>2
<1>3. \A n \in 0 .. N : \E g : Upto(g, n)
  <2> DEFINE Bad == {n \in 0 .. N : ~ \E g : Upto(g, n)}
  <2>1. SUFFICES ASSUME Bad # {}
                 PROVE  FALSE
    OBVIOUS
  <2>2. Bad \in SUBSET Nat
    BY <1>1
  <2>3. PICK m \in Bad : \A k \in Bad : m <= k
    <3> HIDE DEF Bad
    <3> QED
      BY <2>1, <2>2, Smallest
  <2>4. m \in 0 .. N /\ ~ \E g : Upto(g, m)
    OBVIOUS
  <2>a. m \in Nat
    BY <1>1, <2>4
  <2>5. CASE m = 0
    <3> DEFINE g == [s \in Small(0) |-> 0]
    <3>1. \A s \in Small(0) : s = {}
      BY <1>1, FS_EmptySet
    <3>2. Upto(g, 0)
      BY <3>1 DEF AddUp
    <3> QED
      BY <2>4, <2>5, <3>2
  <2>6. CASE m # 0
    <3>1. m - 1 \in 0 .. N /\ m - 1 \notin Bad
      <4> HIDE DEF Bad
      <4> QED
        BY <1>1, <2>3, <2>4, <2>6
    <3>2. PICK h : Upto(h, m - 1)
      BY <3>1
    <3> DEFINE g == [s \in Small(m) |-> IF s \in Small(m - 1) THEN h[s] ELSE AddUp(f, h, s)]
    <3>3. ASSUME NEW s \in Small(m), s # {}
          PROVE  LET x == CHOOSE x \in s : TRUE
                 IN  x \in S /\ s \ {x} \in Small(m - 1)
      <4> DEFINE x == CHOOSE x \in s : TRUE
      <4>1. s \in SUBSET S /\ Cardinality(s) <= m
        OBVIOUS
      <4>2. /\ x \in s /\ s \ {x} \in SUBSET S
            /\ Cardinality(s \ {x}) = Cardinality(s) - 1
        BY <1>2, <3>3, <4>1
      <4>3. Cardinality(s) \in Nat
        BY <1>1, <4>1
      <4> HIDE DEF x
      <4>4. Cardinality(s \ {x}) <= m - 1
        BY <2>a, <4>1, <4>2, <4>3
      <4>5. x \in S /\ s \ {x} \in Small(m - 1)
        BY <4>1, <4>2, <4>4
      <4> QED
        BY <4>5 DEF x
    <3>4. ASSUME NEW s \in Small(m)
          PROVE  AddUp(f, h, s) \in Int
      <4>1. CASE s = {}
        BY <4>1 DEF AddUp
      <4>2. CASE s # {}
        <5> DEFINE x == CHOOSE x \in s : TRUE
        <5>1. x \in S /\ s \ {x} \in Small(m - 1)
          BY <3>3, <4>2
        <5> HIDE DEF x, Small
        <5>2. f[x] \in Int /\ h[s \ {x}] \in Int
          BY <3>2, <5>1
        <5> QED
          BY <4>2, <5>2 DEF AddUp, x
      <4> QED
        BY <4>1, <4>2
    <3>5. g \in [Small(m) -> Int]
      <4> HIDE DEF Small
      <4> QED
        BY <3>2, <3>4
    <3>6. ASSUME NEW s \in Small(m)
          PROVE  AddUp(f, g, s) = AddUp(f, h, s)
      <4>1. CASE s = {}
        BY <4>1 DEF AddUp
      <4>2. CASE s # {}
        <5> DEFINE x == CHOOSE x \in s : TRUE
        <5>1. s \ {x} \in Small(m - 1)
          BY <3>3, <4>2
        <5>2. Small(m - 1) \subseteq Small(m)
          <6>1. ASSUME NEW t \in Small(m - 1)
                PROVE  t \in Small(m)
            <7>1. t \in SUBSET S /\ Cardinality(t) <= m - 1 /\ Cardinality(t) \in Nat
              BY <1>1
            <7> QED
              BY <2>a, <7>1
          <6> QED
            BY <6>1
        <5> HIDE DEF x, Small
        <5>3. g[s \ {x}] = h[s \ {x}]
          BY <5>1, <5>2
        <5> HIDE DEF g
        <5> QED
          BY <4>2, <5>3 DEF AddUp, x
      <4> QED
        BY <4>1, <4>2
    <3>7. ASSUME NEW s \in Small(m)
          PROVE  g[s] = AddUp(f, g, s)
      <4>1. g[s] = IF s \in Small(m - 1) THEN h[s] ELSE AddUp(f, h, s)
        <5> HIDE DEF Small
        <5> QED
          BY <3>7
      <4> HIDE DEF g, Small
      <4>2. s \in Small(m - 1) => h[s] = AddUp(f, h, s)
        BY <3>2
      <4> QED
        BY <3>6, <4>1, <4>2
    <3>8. Upto(g, m)
      <4> HIDE DEF g, Small
      <4> QED
        BY <3>5, <3>7
    <3> QED
      BY <2>4, <3>8
  <2> QED
    BY <2>5, <2>6
<1>4. PICK g : Upto(g, N)
  <2> HIDE DEF Upto
  <2>1. N \in 0 .. N
    BY <1>1
  <2> QED
    BY <1>3, <2>1
<1>5. Small(N) = SUBSET S
  <2>1. \A s \in SUBSET S : Cardinality(s) <= N
    BY <1>1
  <2> QED
    BY <2>1
<1> DEFINE Fits(k) == k = [s \in SUBSET S |-> AddUp(f, k, s)]
<1>6. Fits(g)
  <2> HIDE DEF Small
  <2> QED
    BY <1>4, <1>5
<1>7. Fits(Sums(f, S))
  BY <1>6 DEF Sums
<1> DEFINE sums == Sums(f, S)
<1>8. ASSUME NEW s \in SUBSET S
      PROVE  sums[s] = AddUp(f, sums, s)
  BY <1>7
<1> HIDE DEF sums
<1>9. \A s \in SUBSET S : sums[s] \in Int
  <2> DEFINE B == {s \in SUBSET S : sums[s] \notin Int}
  <2>1. SUFFICES ASSUME B # {}
                 PROVE  FALSE
    OBVIOUS
  <2>2. B \in SUBSET (SUBSET S)
    OBVIOUS
  <2>3. PICK s \in B : \A x \in s : s \ {x} \notin B
    <3> HIDE DEF B
    <3> QED
      BY <2>1, <2>2, SmallestSubset
  <2>4. s \in SUBSET S /\ sums[s] \notin Int
    OBVIOUS
  <2>5. CASE s = {}
    BY <1>8, <2>4, <2>5 DEF AddUp
  <2>6. CASE s # {}
    <3> DEFINE x == CHOOSE x \in s : TRUE
    <3>1. x \in s /\ s \ {x} \in SUBSET S
      BY <2>6, <2>4
    <3> HIDE DEF x
    <3>2. s \ {x} \notin B
      BY <2>3, <3>1
    <3>3. sums[s \ {x}] \in Int /\ f[x] \in Int
      BY <2>4, <3>1, <3>2
    <3>4. sums[s] = f[x] + sums[s \ {x}]
      BY <1>8, <2>4, <2>6 DEF AddUp, x
    <3> QED
      BY <2>4, <3>3, <3>4
  <2> QED
    BY <2>5, <2>6
<1>10. sums = [s \in SUBSET S |-> AddUp(f, sums, s)]
  BY <1>7 DEF sums
<1> QED
  BY <1>8, <1>9, <1>10 DEF sums

\* What is left out of a sum or put into it changes it by its number: the order in
\* which the elements are taken does not matter.
LEMMA SumsSplit ==
    ASSUME NEW S, IsFiniteSet(S), NEW f, \A y \in S : f[y] \in Int,
           NEW s \in SUBSET S, NEW x \in s
    PROVE  Sums(f, S)[s] = f[x] + Sums(f, S)[s \ {x}]
<1> DEFINE sums == Sums(f, S)
           B == {t \in SUBSET S : \E y \in t : sums[t] # f[y] + sums[t \ {y}]}
<1>1. /\ sums \in [SUBSET S -> Int]
      /\ \A t \in SUBSET S : sums[t] = AddUp(f, sums, t)
  BY SumsAddUp
<1> HIDE DEF sums
<1>2. SUFFICES ASSUME B # {}
               PROVE  FALSE
  BY DEF sums
<1>3. B \in SUBSET (SUBSET S)
  OBVIOUS
<1>4. PICK t \in B : \A z \in t : t \ {z} \notin B
  <2> HIDE DEF B
  <2> QED
    BY <1>2, <1>3, SmallestSubset
<1>5. PICK z \in t : sums[t] # f[z] + sums[t \ {z}]
  OBVIOUS
<1> DEFINE y == CHOOSE y \in t : TRUE
<1>6. t \in SUBSET S /\ z \in t /\ y \in t
  OBVIOUS
<1>7. sums[t] = f[y] + sums[t \ {y}]
  BY <1>1, <1>6 DEF AddUp
<1> HIDE DEF y
<1>8. y # z
  BY <1>5, <1>7
<1>9. t \ {z} \notin B /\ t \ {y} \notin B
  BY <1>4, <1>6
<1>10. sums[t \ {z}] = f[y] + sums[(t \ {z}) \ {y}]
  BY <1>6, <1>8, <1>9
<1>11. sums[t \ {y}] = f[z] + sums[(t \ {y}) \ {z}]
  BY <1>6, <1>8, <1>9
<1>12. (t \ {z}) \ {y} = (t \ {y}) \ {z}
  OBVIOUS
<1> DEFINE u == (t \ {z}) \ {y}
<1>13. sums[u] \in Int /\ f[z] \in Int /\ f[y] \in Int
  BY <1>1, <1>6
<1>14. sums[t] = f[y] + (f[z] + sums[u]) /\ sums[t \ {z}] = f[y] + sums[u]
  BY <1>7, <1>10, <1>11, <1>12
<1> HIDE DEF u
<1> QED
  BY <1>5, <1>13, <1>14

\* A sum of natural numbers is one, and at least as great as each of them.
LEMMA SumOfNat ==
    ASSUME NEW S, IsFiniteSet(S), NEW f, \A x \in S : f[x] \in Nat
    PROVE  Sums(f, S)[S] \in Nat /\ \A x \in S : Sums(f, S)[S] >= f[x]
<1> DEFINE sums == Sums(f, S)
           B == {s \in SUBSET S : sums[s] \notin Nat}
<1>0. \A x \in S : f[x] \in Int
  OBVIOUS
<1>1. /\ sums \in [SUBSET S -> Int]
      /\ \A s \in SUBSET S : sums[s] = AddUp(f, sums, s)
  BY <1>0, SumsAddUp
<1>2. \A s \in SUBSET S : \A x \in s : sums[s] = f[x] + sums[s \ {x}]
  <2> HIDE DEF B
  <2>1. ASSUME NEW s \in SUBSET S, NEW x \in s
        PROVE  Sums(f, S)[s] = f[x] + Sums(f, S)[s \ {x}]
    BY <1>0, SumsSplit
  <2> QED
    BY <2>1
<1> HIDE DEF sums
<1>4. B = {}
  <2>1. SUFFICES ASSUME B # {}
                 PROVE  FALSE
    OBVIOUS
  <2>2. B \in SUBSET (SUBSET S)
    OBVIOUS
  <2>3. PICK s \in B : \A x \in s : s \ {x} \notin B
    <3> HIDE DEF B
    <3> QED
      BY <2>1, <2>2, SmallestSubset
  <2>4. s \in SUBSET S /\ sums[s] \notin Nat
    OBVIOUS
  <2>5. s # {}
    BY <1>1, <2>4 DEF AddUp
  <2>6. PICK x \in s : sums[s \ {x}] \in Nat
    BY <2>3, <2>4, <2>5
  <2>7. sums[s] = f[x] + sums[s \ {x}] /\ f[x] \in Nat
    BY <1>2, <2>4
  <2> QED
    BY <2>4, <2>6, <2>7
<1>5. sums[S] \in Nat
  BY <1>4
<1>6. ASSUME NEW x \in S
      PROVE  sums[S] >= f[x]
  <2>1. sums[S] = f[x] + sums[S \ {x}]
    BY <1>2
  <2>2. sums[S \ {x}] \in Nat
    BY <1>4
  <2> QED
    BY <2>1, <2>2
<1> QED
  BY <1>5, <1>6 DEF sums

\* Two functions that agree on a set have the same sum over it.
LEMMA SumsAgree ==
    ASSUME NEW S, IsFiniteSet(S), NEW f, \A y \in S : f[y] \in Int,
           NEW T, IsFiniteSet(T), NEW g, \A y \in T : g[y] \in Int,
           NEW s \in SUBSET S, s \in SUBSET T, \A y \in s : f[y] = g[y]
    PROVE  Sums(f, S)[s] = Sums(g, T)[s]
<1> DEFINE sumsF == Sums(f, S)
           sumsG == Sums(g, T)
           B == {t \in SUBSET s : sumsF[t] # sumsG[t]}
<1>1. \A t \in SUBSET S : sumsF[t] = AddUp(f, sumsF, t)
  BY SumsAddUp
<1>2. \A t \in SUBSET T : sumsG[t] = AddUp(g, sumsG, t)
  BY SumsAddUp
<1> HIDE DEF sumsF, sumsG
<1>3. SUFFICES ASSUME B # {}
               PROVE  FALSE
  <2>1. s \in SUBSET s
    OBVIOUS
  <2> QED
    BY <2>1 DEF sumsF, sumsG
<1>4. B \in SUBSET (SUBSET s) /\ IsFiniteSet(s)
  BY FS_Subset
<1>5. PICK t \in B : \A z \in t : t \ {z} \notin B
  <2> HIDE DEF B
  <2> QED
    BY <1>3, <1>4, SmallestSubset
<1>6. t \in SUBSET s /\ t \in SUBSET S /\ t \in SUBSET T /\ sumsF[t] # sumsG[t]
  OBVIOUS
<1>7. t # {}
  BY <1>1, <1>2, <1>6 DEF AddUp
<1> DEFINE x == CHOOSE x \in t : TRUE
<1>8. x \in t
  BY <1>7
<1>9. sumsF[t] = f[x] + sumsF[t \ {x}] /\ sumsG[t] = g[x] + sumsG[t \ {x}]
  BY <1>1, <1>2, <1>6, <1>7 DEF AddUp
<1> HIDE DEF x
<1>10. t \ {x} \notin B /\ t \ {x} \in SUBSET s
  BY <1>5, <1>6, <1>8
<1>11. sumsF[t \ {x}] = sumsG[t \ {x}]
  BY <1>10
<1>12. f[x] = g[x]
  BY <1>6, <1>8
<1> QED
  BY <1>6, <1>9, <1>11, <1>12

\* SumFunction is such a sum, over the domain.
LEMMA SumFunctionIs ==
    ASSUME NEW f
    PROVE  SumFunction(f) = Sums(f, DOMAIN f)[DOMAIN f]
BY DEF SumFunction, SumFunctionOnSet, FoldFunctionOnSet, MapThenFoldSet, Sums, AddUp

\* The sum of no numbers is 0, of integers an integer, of natural numbers one.
LEMMA SumFunctionType ==
    ASSUME NEW S, IsFiniteSet(S), NEW f, S = DOMAIN f, \A x \in S : f[x] \in Int
    PROVE  /\ SumFunction(f) \in Int
           /\ S = {} => SumFunction(f) = 0
           /\ (\A x \in S : f[x] \in Nat) => SumFunction(f) \in Nat
<1>1. SumFunction(f) = Sums(f, S)[S]
  BY SumFunctionIs
<1>2. /\ Sums(f, S) \in [SUBSET S -> Int]
      /\ \A s \in SUBSET S : Sums(f, S)[s] = AddUp(f, Sums(f, S), s)
  BY SumsAddUp
<1>3. S \in SUBSET S
  OBVIOUS
<1>4. SumFunction(f) \in Int
  BY <1>1, <1>2, <1>3
<1>5. S = {} => SumFunction(f) = 0
  BY <1>1, <1>2, <1>3 DEF AddUp
<1>6. (\A x \in S : f[x] \in Nat) => SumFunction(f) \in Nat
  BY <1>1, SumOfNat
<1> QED
  BY <1>4, <1>5, <1>6

\* One number can be taken out of a sum, whichever it is.
LEMMA SumFunctionSplit ==
    ASSUME NEW S, IsFiniteSet(S), NEW f, S = DOMAIN f, \A x \in S : f[x] \in Int,
           NEW x \in S
    PROVE  SumFunction(f) = f[x] + SumFunction([y \in S \ {x} |-> f[y]])
<1> DEFINE T == S \ {x}
           g == [y \in T |-> f[y]]
<1>1. SumFunction(f) = Sums(f, S)[S] /\ SumFunction(g) = Sums(g, T)[T]
  <2>1. DOMAIN g = T
    OBVIOUS
  <2>2. SumFunction(g) = Sums(g, DOMAIN g)[DOMAIN g]
    BY SumFunctionIs
  <2>3. SumFunction(f) = Sums(f, DOMAIN f)[DOMAIN f]
    BY SumFunctionIs
  <2> QED
    BY <2>1, <2>2, <2>3
<1>2. Sums(f, S)[S] = f[x] + Sums(f, S)[T]
  <2>1. S \in SUBSET S
    OBVIOUS
  <2> QED
    BY <2>1, SumsSplit
<1>3. Sums(f, S)[T] = Sums(g, T)[T]
  <2>1. T \in SUBSET S /\ T \in SUBSET T /\ IsFiniteSet(T)
    BY FS_Subset
  <2>2. \A y \in T : f[y] = g[y] /\ g[y] \in Int
    OBVIOUS
  <2> HIDE DEF T, g
  <2> QED
    BY <2>1, <2>2, SumsAgree
<1> QED
  BY <1>1, <1>2, <1>3

\* A sum over a larger set is not smaller when what is added is not negative, and the
\* same when it is nothing.
LEMMA SumsGrow ==
    ASSUME NEW T, IsFiniteSet(T), NEW g, \A y \in T : g[y] \in Int, NEW S \in SUBSET T
    PROVE  /\ (\A y \in T \ S : g[y] >= 0) => Sums(g, T)[S] <= Sums(g, T)[T]
           /\ (\A y \in T \ S : g[y] = 0)  => Sums(g, T)[S] = Sums(g, T)[T]
<1> DEFINE sums == Sums(g, T)
           Less == {V \in SUBSET (T \ S) : ~(sums[S] <= sums[S \cup V])}
           Other == {V \in SUBSET (T \ S) : sums[S] # sums[S \cup V]}
<1>1. sums \in [SUBSET T -> Int]
  BY SumsAddUp
<1>2. ASSUME NEW V \in SUBSET (T \ S), NEW x \in V
      PROVE  /\ x \in T \ S /\ V \ {x} \in SUBSET (T \ S)
             /\ sums[S \cup V] = g[x] + sums[S \cup (V \ {x})]
             /\ sums[S \cup (V \ {x})] \in Int
  <2>1. S \cup V \in SUBSET T /\ x \in S \cup V
    OBVIOUS
  <2>2. sums[S \cup V] = g[x] + sums[(S \cup V) \ {x}]
    BY <2>1, SumsSplit
  <2>3. (S \cup V) \ {x} = S \cup (V \ {x})
    OBVIOUS
  <2> HIDE DEF sums
  <2> QED
    BY <1>1, <2>2, <2>3
<1> HIDE DEF sums
<1>3. IsFiniteSet(T \ S) /\ T \ S \in SUBSET (T \ S) /\ S \cup (T \ S) = T
  BY FS_Subset
<1>4. sums[S] \in Int
  BY <1>1
<1>5. ASSUME \A y \in T \ S : g[y] >= 0
      PROVE  sums[S] <= sums[T]
  <2>1. SUFFICES ASSUME Less # {}
                 PROVE  FALSE
    BY <1>3
  <2>2. Less \in SUBSET (SUBSET (T \ S))
    OBVIOUS
  <2>3. PICK V \in Less : \A x \in V : V \ {x} \notin Less
    <3> HIDE DEF Less
    <3> QED
      BY <1>3, <2>1, <2>2, SmallestSubset
  <2>4. V \in SUBSET (T \ S) /\ ~(sums[S] <= sums[S \cup V])
    OBVIOUS
  <2>5. V # {}
    <3>1. S \cup {} = S
      OBVIOUS
    <3> QED
      BY <1>4, <2>4, <3>1
  <2>6. PICK x \in V : sums[S] <= sums[S \cup (V \ {x})]
    BY <1>2, <2>3, <2>4, <2>5
  <2>7. /\ sums[S \cup V] = g[x] + sums[S \cup (V \ {x})] /\ g[x] >= 0 /\ g[x] \in Int
        /\ sums[S \cup (V \ {x})] \in Int
    BY <1>2, <1>5, <2>4
  <2> QED
    BY <1>4, <2>4, <2>6, <2>7
<1>6. ASSUME \A y \in T \ S : g[y] = 0
      PROVE  sums[S] = sums[T]
  <2>1. SUFFICES ASSUME Other # {}
                 PROVE  FALSE
    <3>1. T \ S \notin Other => sums[S] = sums[S \cup (T \ S)]
      BY <1>3
    <3> HIDE DEF Other
    <3> QED
      BY <1>3, <3>1
  <2>2. Other \in SUBSET (SUBSET (T \ S))
    OBVIOUS
  <2>3. PICK V \in Other : \A x \in V : V \ {x} \notin Other
    <3> HIDE DEF Other
    <3> QED
      BY <1>3, <2>1, <2>2, SmallestSubset
  <2>4. V \in SUBSET (T \ S) /\ sums[S] # sums[S \cup V]
    OBVIOUS
  <2>5. V # {}
    <3>1. S \cup {} = S
      OBVIOUS
    <3> QED
      BY <2>4, <3>1
  <2>6. PICK x \in V : sums[S] = sums[S \cup (V \ {x})]
    BY <1>2, <2>3, <2>4, <2>5
  <2>7. /\ sums[S \cup V] = g[x] + sums[S \cup (V \ {x})] /\ g[x] = 0
        /\ sums[S \cup (V \ {x})] \in Int
    BY <1>2, <1>6, <2>4
  <2> QED
    BY <2>4, <2>6, <2>7
<1> QED
  BY <1>5, <1>6 DEF sums

\* The same of the sums of two functions, of which the second has more to add.
LEMMA SumFunctionGrows ==
    ASSUME NEW T, IsFiniteSet(T), NEW S \in SUBSET T,
           NEW f \in [S -> Int], NEW g \in [T -> Int], \A y \in S : f[y] = g[y]
    PROVE  /\ (\A y \in T \ S : g[y] >= 0) => SumFunction(f) <= SumFunction(g)
           /\ (\A y \in T \ S : g[y] = 0)  => SumFunction(f) = SumFunction(g)
<1>1. SumFunction(f) = Sums(f, S)[S] /\ SumFunction(g) = Sums(g, T)[T]
  <2>1. DOMAIN f = S /\ DOMAIN g = T
    OBVIOUS
  <2> QED
    BY <2>1, SumFunctionIs
<1>2. IsFiniteSet(S) /\ S \in SUBSET S
  BY FS_Subset
<1>3. Sums(f, S)[S] = Sums(g, T)[S]
  BY <1>2, SumsAgree
<1> QED
  BY <1>1, <1>3, SumsGrow

\* g is f with one more number, at x.
OneMore(S, x, f, g) ==
    /\ IsFiniteSet(S) /\ x \notin S
    /\ f \in [S -> Int] /\ g \in [S \cup {x} -> Int]
    /\ \A y \in S : f[y] = g[y]

\* That number is what its sum is more.
LEMMA SumFunctionOneMore ==
    ASSUME NEW S, NEW x, NEW f, NEW g, OneMore(S, x, f, g)
    PROVE  SumFunction(g) = SumFunction(f) + g[x] /\ SumFunction(f) \in Int
<1>t. PICK T : T = S \cup {x}
  OBVIOUS
<1>0. /\ IsFiniteSet(S) /\ x \notin S /\ x \in T
      /\ f \in [S -> Int] /\ g \in [T -> Int]
      /\ \A y \in S : f[y] = g[y]
  BY <1>t DEF OneMore
<1>1. IsFiniteSet(T)
  BY <1>t, <1>0, FS_AddElement
<1>2. SumFunction(g) = g[x] + SumFunction([y \in T \ {x} |-> g[y]])
  <2>1. DOMAIN g = T /\ \A y \in T : g[y] \in Int
    BY <1>0
  <2>2. x \in T
    BY <1>0
  <2> QED
    BY <1>1, <2>1, <2>2, SumFunctionSplit
<1>3. T \ {x} = S
  BY <1>t, <1>0
<1>4. [y \in S |-> g[y]] = f
  BY <1>0
<1>5. SumFunction(f) \in Int
  <2>1. DOMAIN f = S /\ \A y \in S : f[y] \in Int
    BY <1>0
  <2> QED
    BY <1>0, <2>1, SumFunctionType
<1>6. g[x] \in Int
  BY <1>0
<1> QED
  BY <1>2, <1>3, <1>4, <1>5, <1>6
=============================================================================
