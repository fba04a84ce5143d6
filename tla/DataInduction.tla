--------------------------- MODULE DataInduction ----------------------------
(***************************************************************************)
(* What a recursive definition computes, for every argument: recursion     *)
(* over a prefix of a sequence, sums over a finite set, and the greatest   *)
(* element and the ranks of a finite set of numbers.  The induction        *)
(* principle takes its property as a set, so the provers can use it like   *)
(* any other fact; it rests on the least element of a set of naturals.     *)
(***************************************************************************)
EXTENDS Integers, FiniteSetTheorems, TLAPS

\* A set of naturals has a least element.
LEMMA LeastOf ==
    ASSUME NEW D \in SUBSET Nat, D # {}
    PROVE  \E m \in D : \A y \in D : m <= y
<1>. DEFINE Less == OpToRel(<, Nat)
<1>1. IsWellFoundedOn(Less, Nat)
  BY NatLessThanWellFounded
<1>2. \A x, y \in Nat : x < y => <<x, y>> \in Less
  BY DEF OpToRel
<1>. HIDE DEF Less
<1>3. PICK m \in D : \A y \in D : <<y, m>> \notin Less
  BY <1>1, WFMin
<1>4. ASSUME NEW y \in D PROVE m <= y
  <2>1. m \in Nat /\ y \in Nat /\ ~(y < m)
    BY <1>2, <1>3
  <2>. QED  BY <2>1
<1>. QED  BY <1>3, <1>4

\* Induction, with the property as the set of its elements: the least number
\* outside the set would have a predecessor outside it.
LEMMA SetInduction ==
    ASSUME NEW T, 0 \in T, \A n \in Nat : n \in T => n + 1 \in T
    PROVE  \A n \in Nat : n \in T
<1>. DEFINE Outside == Nat \ T
<1>. SUFFICES ASSUME Outside # {} PROVE FALSE
  OBVIOUS
<1>1. PICK x \in Outside : \A y \in Outside : x <= y
  <2>1. Outside \in SUBSET Nat
    OBVIOUS
  <2>. HIDE DEF Outside
  <2>. QED  BY <2>1, LeastOf
<1>2. x \in Nat /\ x # 0
  OBVIOUS
<1>3. x - 1 \in Nat /\ ~(x <= x - 1) /\ x = (x - 1) + 1
  BY <1>2
<1>4. x - 1 \in Outside
  BY <1>3
<1>. QED  BY <1>1, <1>3, <1>4

-----------------------------------------------------------------------------
\* Recursion over 0..n

\* f starts with base and goes from i - 1 to i by step.
IsChain(f, n, base, step) ==
    f[0] = base /\ \A i \in 1..n : f[i] = step[<<i, f[i - 1]>>]

\* There is a chain: one that is right for the first m steps is extended to
\* m + 1 of them.
LEMMA ChainExists ==
    ASSUME NEW n \in Nat, NEW V, NEW base \in V, NEW step \in [(1..n) \X V -> V]
    PROVE  \E f \in [0..n -> V] : IsChain(f, n, base, step)
<1>. DEFINE Done == {m \in Nat : m <= n => \E f \in [0..n -> V] : IsChain(f, m, base, step)}
<1>1. 0 \in Done
  <2>. DEFINE f == [i \in 0..n |-> base]
  <2>1. f \in [0..n -> V] /\ IsChain(f, 0, base, step)
    BY DEF IsChain
  <2>. HIDE DEF f
  <2>. QED  BY <2>1
<1>2. ASSUME NEW m \in Nat, m \in Done PROVE m + 1 \in Done
  <2>. SUFFICES ASSUME m + 1 <= n
                PROVE  \E f \in [0..n -> V] : IsChain(f, m + 1, base, step)
    OBVIOUS
  <2>1. PICK g \in [0..n -> V] : IsChain(g, m, base, step)
    BY <1>2
  <2>. DEFINE x == step[<<m + 1, g[m]>>]
             f == [g EXCEPT ![m + 1] = x]
  <2>2. m \in 0..n /\ m + 1 \in 1..n /\ m + 1 \in 0..n
    OBVIOUS
  <2>3. x \in V
    BY <2>1, <2>2
  <2>. HIDE DEF x
  <2>4. f \in [0..n -> V] /\ f[m + 1] = x /\ \A i \in 0..n : i # m + 1 => f[i] = g[i]
    BY <2>1, <2>2, <2>3
  <2>. HIDE DEF f
  <2>5. ASSUME NEW i \in 1..(m + 1) PROVE f[i] = step[<<i, f[i - 1]>>]
    <3>1. i - 1 \in 0..n /\ i \in 0..n /\ i - 1 # m + 1
      OBVIOUS
    <3>2. f[i - 1] = g[i - 1]
      BY <2>4, <3>1
    <3>3. CASE i = m + 1
      <4>1. i - 1 = m
        BY <3>3
      <4>2. f[m + 1] = step[<<m + 1, g[m]>>]
        BY <2>4 DEF x
      <4>. QED  BY <3>2, <3>3, <4>1, <4>2
    <3>4. CASE i # m + 1
      <4>1. i \in 1..m
        BY <3>4
      <4>2. g[i] = step[<<i, g[i - 1]>>]
        BY <2>1, <4>1 DEF IsChain
      <4>3. f[i] = g[i]
        BY <2>4, <3>1, <3>4
      <4>. QED  BY <3>2, <4>2, <4>3
    <3>. QED  BY <3>3, <3>4
  <2>6. f[0] = base
    <3>1. 0 \in 0..n /\ 0 # m + 1
      OBVIOUS
    <3>. QED  BY <2>1, <2>4, <3>1 DEF IsChain
  <2>7. IsChain(f, m + 1, base, step)
    BY <2>5, <2>6 DEF IsChain
  <2>. QED  BY <2>4, <2>7
<1>3. \A m \in Nat : m \in Done
  <2>. HIDE DEF Done
  <2>. QED  BY <1>1, <1>2, SetInduction
<1>4. n \in Done /\ n <= n
  BY <1>3
<1>. QED  BY <1>4

-----------------------------------------------------------------------------
\* Recursion over the subsets of a finite set

\* g is the fold of step from base over the subsets of S, which takes the
\* element pick[s] out of s first.
IsFold(g, S, base, pick, step) ==
    \A s \in SUBSET S :
        g[s] = IF s = {} THEN base ELSE step[<<pick[s], g[s \ {pick[s]}]>>]

Picks(S) ==
    {pick \in [(SUBSET S) \ {{}} -> S] : \A s \in (SUBSET S) \ {{}} : pick[s] \in s}

\* What taking an element out of a subset of a finite set does to its size.
LEMMA SubsetSizes ==
    ASSUME NEW S, IsFiniteSet(S), NEW s \in SUBSET S
    PROVE  /\ Cardinality(s) \in Nat /\ (Cardinality(s) = 0 <=> s = {})
           /\ \A x \in s : Cardinality(s \ {x}) = Cardinality(s) - 1
BY FS_Subset, FS_CardinalityType, FS_EmptySet, FS_RemoveElement

\* The recursion has a solution: one that is right on all sets of up to n
\* elements is unfolded once to one for n + 1.
LEMMA FoldExists ==
    ASSUME NEW S, IsFiniteSet(S), NEW V, NEW base \in V,
           NEW pick \in Picks(S), NEW step \in [S \X V -> V]
    PROVE  \E g \in [SUBSET S -> V] : IsFold(g, S, base, pick, step)
<1>. DEFINE Unfold(g, s) == IF s = {} THEN base ELSE step[<<pick[s], g[s \ {pick[s]}]>>]
           Right(g, n) == \A s \in SUBSET S : Cardinality(s) <= n => g[s] = Unfold(g, s)
           Depths == {n \in Nat : \E g \in [SUBSET S -> V] : Right(g, n)}
<1>1. ASSUME NEW g \in [SUBSET S -> V], NEW s \in SUBSET S
      PROVE  Unfold(g, s) \in V
  <2>1. CASE s = {}
    BY <2>1
  <2>2. CASE s # {}
    <3>1. pick[s] \in S /\ s \ {pick[s]} \in SUBSET S
      BY <2>2 DEF Picks
    <3>. QED  BY <2>2, <3>1
  <2>. QED  BY <2>1, <2>2
<1>2. ASSUME NEW s \in SUBSET S
      PROVE  Cardinality(s) \in Nat /\ (Cardinality(s) = 0 <=> s = {})
             /\ \A x \in s : Cardinality(s \ {x}) = Cardinality(s) - 1
  BY SubsetSizes
<1>3. 0 \in Depths
  <2>. DEFINE g == [s \in SUBSET S |-> base]
  <2>1. g \in [SUBSET S -> V]
    OBVIOUS
  <2>2. Right(g, 0)
    BY <1>2
  <2>. HIDE DEF g, Right
  <2>. QED  BY <2>1, <2>2
<1>4. ASSUME NEW n \in Nat, n \in Depths
      PROVE  n + 1 \in Depths
  <2>1. PICK g \in [SUBSET S -> V] : Right(g, n)
    BY <1>4
  <2>. DEFINE h == [s \in SUBSET S |-> Unfold(g, s)]
  <2>2. h \in [SUBSET S -> V]
    <3>. HIDE DEF Unfold
    <3>. QED  BY <1>1, <2>1
  <2>3. ASSUME NEW s \in SUBSET S, Cardinality(s) <= n + 1
        PROVE  h[s] = Unfold(h, s)
    <3>1. CASE s = {}
      BY <3>1
    <3>2. CASE s # {}
      <4>. DEFINE t == s \ {pick[s]}
      <4>1. t \in SUBSET S /\ pick[s] \in s
        BY <3>2 DEF Picks
      <4>2. Cardinality(t) <= n
        BY <1>2, <2>3, <4>1
      <4>3. g[t] = Unfold(g, t) /\ h[t] = Unfold(g, t)
        <5>. HIDE DEF Unfold, t
        <5>. QED  BY <2>1, <4>1, <4>2
      <4>4. h[s] = step[<<pick[s], g[t]>>] /\ Unfold(h, s) = step[<<pick[s], h[t]>>]
        BY <3>2
      <4>. QED  BY <4>3, <4>4
    <3>. QED  BY <3>1, <3>2
  <2>4. Right(h, n + 1)
    <3>. HIDE DEF h, Unfold
    <3>. QED  BY <2>3
  <2>. HIDE DEF h, Right
  <2>. QED  BY <2>2, <2>4
<1>5. \A n \in Nat : n \in Depths
  <2>. HIDE DEF Depths
  <2>. QED  BY <1>3, <1>4, SetInduction
<1>6. Cardinality(S) \in Depths
  <2>. HIDE DEF Depths
  <2>. QED  BY <1>5, FS_CardinalityType
<1>7. PICK g \in [SUBSET S -> V] : Right(g, Cardinality(S))
  BY <1>6
<1>8. ASSUME NEW s \in SUBSET S
      PROVE  g[s] = Unfold(g, s)
  BY <1>7, FS_Subset
<1>. QED  BY <1>7, <1>8 DEF IsFold

-----------------------------------------------------------------------------
\* Sums

\* g gives the sum of f over every subset of S: any element may be taken out.
IsSum(g, S, f) ==
    /\ g \in [SUBSET S -> Int]
    /\ g[{}] = 0
    /\ \A s \in SUBSET S : \A x \in s : g[s] = f[x] + g[s \ {x}]

\* A fold with + does not depend on the order it takes the elements in.
LEMMA FoldIsSum ==
    ASSUME NEW S, IsFiniteSet(S), NEW f \in [S -> Int], NEW pick \in Picks(S),
           NEW g \in [SUBSET S -> Int], g[{}] = 0,
           \A s \in (SUBSET S) \ {{}} : g[s] = f[pick[s]] + g[s \ {pick[s]}]
    PROVE  IsSum(g, S, f)
<1>. DEFINE Done == {n \in Nat : \A s \in SUBSET S : Cardinality(s) <= n =>
                                   \A x \in s : g[s] = f[x] + g[s \ {x}]}
<1>1. 0 \in Done
  BY SubsetSizes
<1>2. ASSUME NEW n \in Nat, n \in Done PROVE n + 1 \in Done
  <2>. SUFFICES ASSUME NEW s \in SUBSET S, Cardinality(s) <= n + 1, NEW x \in s
                PROVE  g[s] = f[x] + g[s \ {x}]
    OBVIOUS
  <2>1. PICK y \in s : g[s] = f[y] + g[s \ {y}]
    <3>1. s \in (SUBSET S) \ {{}} /\ pick[s] \in s
      BY DEF Picks
    <3>. QED  BY <3>1
  <2>2. CASE x = y
    BY <2>1, <2>2
  <2>3. CASE x # y
    <3>1. /\ s \ {y} \in SUBSET S /\ s \ {x} \in SUBSET S
          /\ x \in s \ {y} /\ y \in s \ {x} /\ (s \ {y}) \ {x} = (s \ {x}) \ {y}
      BY <2>1, <2>3
    <3>2. Cardinality(s \ {y}) <= n /\ Cardinality(s \ {x}) <= n
      <4>1. /\ Cardinality(s) \in Nat /\ Cardinality(s \ {y}) = Cardinality(s) - 1
            /\ Cardinality(s \ {x}) = Cardinality(s) - 1
        BY <2>1, SubsetSizes
      <4>. QED  BY <4>1
    <3>3. g[s \ {y}] = f[x] + g[(s \ {y}) \ {x}]
      BY <1>2, <3>1, <3>2
    <3>4. g[s \ {x}] = f[y] + g[(s \ {y}) \ {x}]
      <4>1. g[s \ {x}] = f[y] + g[(s \ {x}) \ {y}]
        BY <1>2, <3>1, <3>2
      <4>. QED  BY <3>1, <4>1
    <3>5. f[x] \in Int /\ f[y] \in Int /\ g[(s \ {y}) \ {x}] \in Int
      <4>1. x \in S /\ y \in S /\ (s \ {y}) \ {x} \in SUBSET S
        BY <2>1
      <4>. QED  BY <4>1
    <3>. QED  BY <2>1, <3>3, <3>4, <3>5
  <2>. QED  BY <2>2, <2>3
<1>3. \A n \in Nat : n \in Done
  <2>. HIDE DEF Done
  <2>. QED  BY <1>1, <1>2, SetInduction
<1>4. ASSUME NEW s \in SUBSET S, NEW x \in s PROVE g[s] = f[x] + g[s \ {x}]
  <2>1. Cardinality(s) \in Nat /\ Cardinality(s) <= Cardinality(s)
    BY SubsetSizes
  <2>. QED  BY <1>3, <2>1
<1>. QED  BY <1>4 DEF IsSum

\* Sums over sets that correspond one to one, term by term, are equal.
LEMMA SumReindex ==
    ASSUME NEW S, IsFiniteSet(S), NEW R, NEW f, NEW e, NEW g, NEW h, NEW b \in [S -> R],
           IsSum(g, S, f), IsSum(h, R, e),
           \A x, y \in S : b[x] = b[y] => x = y,
           \A z \in R : \E x \in S : b[x] = z,
           \A x \in S : f[x] = e[b[x]]
    PROVE  g[S] = h[R]
<1>. DEFINE Image(s) == {b[x] : x \in s}
           Done == {n \in Nat : \A s \in SUBSET S : Cardinality(s) = n => g[s] = h[Image(s)]}
<1>1. 0 \in Done
  <2>. SUFFICES ASSUME NEW s \in SUBSET S, Cardinality(s) = 0 PROVE g[s] = h[Image(s)]
    OBVIOUS
  <2>1. s = {} /\ Image(s) = {}
    BY SubsetSizes
  <2>. QED  BY <2>1 DEF IsSum
<1>2. ASSUME NEW n \in Nat, n \in Done PROVE n + 1 \in Done
  <2>. SUFFICES ASSUME NEW s \in SUBSET S, Cardinality(s) = n + 1
                PROVE  g[s] = h[Image(s)]
    <3>. HIDE DEF Image
    <3>. QED  OBVIOUS
  <2>1. PICK x \in s : TRUE
    <3>1. s # {}
      BY SubsetSizes
    <3>. QED  BY <3>1
  <2>2. s \ {x} \in SUBSET S /\ Cardinality(s \ {x}) = n
    <3>1. Cardinality(s \ {x}) = Cardinality(s) - 1
      BY <2>1, SubsetSizes
    <3>. QED  BY <3>1
  <2>3. g[s \ {x}] = h[Image(s \ {x})]
    BY <1>2, <2>2
  <2>4. /\ Image(s) \in SUBSET R /\ b[x] \in Image(s)
        /\ Image(s) \ {b[x]} = Image(s \ {x})
    BY <2>1
  <2>. HIDE DEF Image
  <2>5. g[s] = f[x] + g[s \ {x}]
    BY <2>1 DEF IsSum
  <2>6. h[Image(s)] = e[b[x]] + h[Image(s) \ {b[x]}]
    BY <2>4 DEF IsSum
  <2>. QED  BY <2>1, <2>3, <2>4, <2>5, <2>6
<1>3. \A n \in Nat : n \in Done
  <2>. HIDE DEF Done
  <2>. QED  BY <1>1, <1>2, SetInduction
<1>4. Image(S) = R
  OBVIOUS
<1>5. Cardinality(S) \in Nat
  BY FS_CardinalityType
<1>. QED  BY <1>3, <1>4, <1>5

-----------------------------------------------------------------------------
\* Finite sets of numbers

\* A finite set of numbers has a greatest element.
LEMMA GreatestOf ==
    ASSUME NEW D, IsFiniteSet(D), D \in SUBSET Int, D # {}
    PROVE  \E m \in D : \A y \in D : m >= y
<1>. DEFINE Done == {n \in Nat : \A s \in SUBSET D : Cardinality(s) = n /\ s # {} =>
                                   \E m \in s : \A y \in s : m >= y}
<1>1. 0 \in Done
  BY SubsetSizes
<1>2. ASSUME NEW n \in Nat, n \in Done PROVE n + 1 \in Done
  <2>. SUFFICES ASSUME NEW s \in SUBSET D, Cardinality(s) = n + 1, s # {}
                PROVE  \E m \in s : \A y \in s : m >= y
    OBVIOUS
  <2>1. PICK x \in s : TRUE
    OBVIOUS
  <2>. DEFINE t == s \ {x}
  <2>2. t \in SUBSET D /\ Cardinality(t) = n
    <3>1. Cardinality(s \ {x}) = Cardinality(s) - 1
      BY <2>1, SubsetSizes
    <3>. QED  BY <3>1
  <2>3. CASE t = {}
    <3>1. \A y \in s : y = x /\ x \in Int
      BY <2>1, <2>3
    <3>. QED  BY <2>1, <3>1
  <2>4. CASE t # {}
    <3>1. PICK m \in t : \A y \in t : m >= y
      BY <1>2, <2>2, <2>4
    <3>2. m \in Int /\ x \in Int /\ m \in s /\ \A y \in s : y = x \/ y \in t
      BY <2>1, <3>1
    <3>3. CASE m >= x
      BY <3>1, <3>2, <3>3
    <3>4. CASE ~(m >= x)
      <4>1. \A y \in s : y \in Int /\ x >= y
        BY <3>1, <3>2, <3>4
      <4>. QED  BY <2>1, <4>1
    <3>. QED  BY <3>3, <3>4
  <2>. QED  BY <2>3, <2>4
<1>3. \A n \in Nat : n \in Done
  <2>. HIDE DEF Done
  <2>. QED  BY <1>1, <1>2, SetInduction
<1>4. D \in SUBSET D /\ Cardinality(D) \in Nat
  BY FS_CardinalityType
<1>. QED  BY <1>3, <1>4

\* The values of a function on 1..n are finitely many.
LEMMA FiniteValues ==
    ASSUME NEW n \in Nat, NEW g, DOMAIN g = 1..n, g = [i \in 1..n |-> g[i]]
    PROVE  IsFiniteSet({g[i] : i \in 1..n})
<1>. DEFINE T == {g[i] : i \in 1..n}
<1>1. g \in Surjection(1..n, T)
  BY DEF Surjection
<1>2. IsFiniteSet(1..n)
  BY FS_Interval
<1>. HIDE DEF T
<1>3. IsFiniteSet(T)
  BY <1>1, <1>2, FS_Surjection
<1>. QED  BY <1>3 DEF T

\* A finite set of numbers has one of every rank.
Below(D, x) == {y \in D : y < x}

LEMMA RankExists ==
    ASSUME NEW D, IsFiniteSet(D), D \in SUBSET Int
    PROVE  \A i \in 1..Cardinality(D) : \E x \in D : Cardinality(Below(D, x)) = i - 1
<1>. DEFINE Ranked(s) == \A i \in 1..Cardinality(s) : \E x \in s : Cardinality(Below(s, x)) = i - 1
            Done == {n \in Nat : \A s \in SUBSET D : Cardinality(s) = n => Ranked(s)}
<1>1. 0 \in Done
  OBVIOUS
<1>2. ASSUME NEW n \in Nat, n \in Done PROVE n + 1 \in Done
  <2>. SUFFICES ASSUME NEW s \in SUBSET D, Cardinality(s) = n + 1, NEW i \in 1..(n + 1)
                PROVE  \E x \in s : Cardinality(Below(s, x)) = i - 1
    OBVIOUS
  <2>1. IsFiniteSet(s) /\ s \in SUBSET Int /\ s # {}
    <3>1. IsFiniteSet(s)
      BY FS_Subset
    <3>2. Cardinality(s) = 0 <=> s = {}
      BY SubsetSizes
    <3>. QED  BY <3>1, <3>2
  <2>2. PICK m \in s : \A y \in s : m >= y
    BY <2>1, GreatestOf
  <2>. DEFINE t == s \ {m}
  <2>3. t \in SUBSET D /\ Cardinality(t) = n
    <3>1. Cardinality(t) = Cardinality(s) - 1
      BY <2>2, SubsetSizes
    <3>. QED  BY <3>1
  <2>4. CASE i = n + 1
    <3>1. Below(s, m) = t
      <4>1. \A y \in s : y \in Int /\ m \in Int /\ (y < m <=> y # m)
        BY <2>1, <2>2
      <4>. QED  BY <4>1 DEF Below
    <3>. QED  BY <2>2, <2>3, <2>4, <3>1
  <2>5. CASE i # n + 1
    <3>1. i \in 1..n
      BY <2>5
    <3>2. PICK x \in t : Cardinality(Below(t, x)) = i - 1
      BY <1>2, <2>3, <3>1
    <3>3. Below(s, x) = Below(t, x)
      <4>1. ~(m < x)
        BY <2>1, <2>2, <3>2
      <4>. QED  BY <4>1 DEF Below
    <3>. QED  BY <3>2, <3>3
  <2>. QED  BY <2>4, <2>5
<1>3. \A n \in Nat : n \in Done
  <2>. HIDE DEF Done
  <2>. QED  BY <1>1, <1>2, SetInduction
<1>4. D \in SUBSET D /\ Cardinality(D) \in Nat
  BY FS_CardinalityType
<1>5. Ranked(D)
  <2>. HIDE DEF Ranked
  <2>. QED  BY <1>3, <1>4
<1>. QED  BY <1>5
=============================================================================
