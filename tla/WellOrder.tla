----------------------------- MODULE WellOrder -----------------------------
(***************************************************************************)
(* Facts that the proofs of several components rest on.                     *)
(*                                                                          *)
(* Order: a non-empty set of natural numbers has a least element, and one   *)
(* with a bound has a greatest one, so the Min and the Max of the models    *)
(* are what their names say.                                                *)
(*                                                                          *)
(* Recursion: a function that is defined on the subsets of a finite set,    *)
(* one element at a time, exists and is what its equation says; so a fold   *)
(* of the community modules stays in a set that its step stays in.          *)
(*                                                                          *)
(* Sums: the fold of + over a function is additive, monotone, at least each *)
(* of its terms, changes by what one of them changes, scales with its terms *)
(* and may be taken key by key.                                             *)
(*                                                                          *)
(* Division: a number is divided in one way, multiples of d are d apart,    *)
(* and of the words of a bit vector that wraps around, a slot that is not   *)
(* too old falls on its own.                                                *)
(*                                                                          *)
(* None of this follows from an induction rule the provers could apply; all *)
(* of it comes from the well-foundedness of the strict subset ordering on   *)
(* finite sets, which the library states without an operator as parameter.  *)
(***************************************************************************)
EXTENDS Integers, FiniteSets, FiniteSetsExt, FiniteSetTheorems, TLAPS

\* The least-number principle: of the initial segments that the elements of S
\* stand for, one has no smaller one.
LEMMA LeastNatural ==
  ASSUME NEW S \in SUBSET Nat, S # {}
  PROVE  \E x \in S : \A y \in S : x <= y
<1> DEFINE Segments == {0 .. k : k \in S}
<1>1. Segments \subseteq FiniteSubsetsOf(Nat) /\ Segments # {}
  <2>1. ASSUME NEW k \in S
        PROVE  0 .. k \in FiniteSubsetsOf(Nat)
    <3>1. 0 .. k \in SUBSET Nat
      OBVIOUS
    <3>2. IsFiniteSet(0 .. k)
      BY FS_Interval
    <3> QED BY <3>1, <3>2 DEF FiniteSubsetsOf
  <2> QED BY <2>1
<1>2. IsWellFoundedOn(StrictSubsetOrdering(Nat), FiniteSubsetsOf(Nat))
  BY FS_StrictSubsetOrderingWellFounded
<1>3. PICK m \in Segments : \A y \in Segments : ~(<<y, m>> \in StrictSubsetOrdering(Nat))
  <2> HIDE DEF Segments
  <2> QED BY <1>1, <1>2, WFMin
<1>4. PICK x \in S : m = 0 .. x
  BY <1>3
<1>5. ASSUME NEW y \in S PROVE x <= y
  <2>1. SUFFICES ASSUME y < x PROVE FALSE
    OBVIOUS
  <2>2. 0 .. y \in Segments
    OBVIOUS
  <2>3. 0 .. y \subseteq 0 .. x /\ 0 .. y # 0 .. x
    BY <2>1
  <2>4. <<0 .. y, 0 .. x>> \in StrictSubsetOrdering(Nat)
    BY <2>3 DEF StrictSubsetOrdering
  <2> QED BY <1>3, <1>4, <2>2, <2>4
<1> QED BY <1>5

\* Seen from an upper bound, the least distance belongs to the greatest element.
LEMMA GreatestBelow ==
  ASSUME NEW N \in Nat, NEW S \in SUBSET (0 .. N), S # {}
  PROVE  \E x \in S : \A y \in S : x >= y
<1> DEFINE D == {N - s : s \in S}
<1>1. D \in SUBSET Nat /\ D # {}
  <2>1. ASSUME NEW s \in S PROVE N - s \in Nat
    BY s \in 0 .. N
  <2> QED BY <2>1
<1>2. PICK d \in D : \A e \in D : d <= e
  <2> HIDE DEF D
  <2> QED BY <1>1, LeastNatural
<1>3. PICK x \in S : d = N - x
  BY <1>2
<1>4. \A y \in S : x >= y
  BY <1>2, <1>3
<1> QED BY <1>4

\* Max of a bounded set is a member of it and an upper bound.
LEMMA MaxBelow ==
  ASSUME NEW N \in Nat, NEW S \in SUBSET (0 .. N), S # {}
  PROVE  Max(S) \in S /\ \A y \in S : Max(S) >= y
BY GreatestBelow DEF Max

\* Min of a set of natural numbers is a member of it and a lower bound.
LEMMA MinNatural ==
  ASSUME NEW S \in SUBSET Nat, S # {}
  PROVE  Min(S) \in S /\ \A y \in S : Min(S) <= y
BY LeastNatural DEF Min
\* What a function makes of a finite set is finite.
LEMMA ImageFinite ==
  ASSUME NEW S, IsFiniteSet(S), NEW f
  PROVE  IsFiniteSet({f[x] : x \in S})
<1> DEFINE T == {f[x] : x \in S}
           m == [x \in S |-> f[x]]
<1>1. m \in Surjection(S, T)
  BY DEF Surjection
<1> HIDE DEF m, T
<1>2. IsFiniteSet(T)
  BY <1>1, FS_Surjection
<1> QED BY <1>2 DEF T
-----------------------------------------------------------------------------
(* Recursion over the subsets of a finite set, which is how the folds of the *)
(* community modules are defined.                                            *)

\* f starts with base, and g makes each of its values from the one before.
Along(f, base, g, N) == f[0] = base /\ \A n \in 1 .. N : f[n] = g[<<n, f[n - 1]>>]

\* A function that is defined along the numbers up to N exists, which a recursive
\* definition alone does not say.
LEMMA Recursion ==
  ASSUME NEW N \in Nat, NEW T, NEW base \in T, NEW g \in [(1 .. N) \X T -> T]
  PROVE  \E f \in [0 .. N -> T] : Along(f, base, g, N)
<1> DEFINE Solves(f, m) == Along(f, base, g, m)
           Bad == {m \in 0 .. N : ~ \E f \in [0 .. m -> T] : Solves(f, m)}
<1>1. ASSUME Bad # {} PROVE FALSE
  <2>1. Bad \in SUBSET Nat
    OBVIOUS
  <2>2. PICK m \in Bad : \A k \in Bad : m <= k
    <3> HIDE DEF Bad
    <3> QED BY <1>1, <2>1, LeastNatural
  <2>3. m \in 0 .. N /\ ~ \E f \in [0 .. m -> T] : Solves(f, m)
    OBVIOUS
  <2>4. CASE m = 0
    <3> DEFINE f == [i \in 0 .. m |-> base]
    <3>1. f \in [0 .. m -> T] /\ Solves(f, m)
      BY <2>4 DEF Along
    <3> QED BY <2>3, <3>1
  <2>5. CASE m # 0
    <3>0. m - 1 \in 0 .. N /\ ~(m <= m - 1)
      BY <2>3, <2>5
    <3>9. m - 1 \notin Bad
      <4> HIDE DEF Bad
      <4> QED BY <2>2, <3>0
    <3>1. m - 1 \in 0 .. N /\ m - 1 \notin Bad
      BY <3>0, <3>9
    <3>2. PICK h \in [0 .. m - 1 -> T] : Solves(h, m - 1)
      BY <3>1
    <3> DEFINE f == [i \in 0 .. m |-> IF i = m THEN g[<<m, h[m - 1]>>] ELSE h[i]]
    <3>3. h[m - 1] \in T /\ m \in 1 .. N
      BY <2>3, <2>5
    <3>4. g[<<m, h[m - 1]>>] \in T
      BY <3>3
    <3>5. f \in [0 .. m -> T]
      BY <2>3, <3>4
    <3>6. f[0] = base
      BY <2>3, <2>5, <3>2 DEF Along
    <3>7. ASSUME NEW n \in 1 .. m PROVE f[n] = g[<<n, f[n - 1]>>]
      <4>1. CASE n = m
        <5>1. m \in 0 .. m /\ m - 1 \in 0 .. m /\ m - 1 # m
          BY <2>3, <2>5
        <5>2. f[m] = g[<<m, h[m - 1]>>] /\ f[m - 1] = h[m - 1]
          BY <5>1
        <5> HIDE DEF f
        <5> QED BY <4>1, <5>2
      <4>2. CASE n # m
        <5>1. n \in 1 .. m - 1 /\ n - 1 \in 0 .. m - 1 /\ n - 1 # m /\ n - 1 \in 0 .. m
          BY <2>3, <4>2
        <5>2. f[n] = h[n] /\ f[n - 1] = h[n - 1]
          BY <4>2, <5>1
        <5>3. h[n] = g[<<n, h[n - 1]>>]
          BY <3>2, <5>1 DEF Along
        <5> QED BY <5>2, <5>3
      <4> QED BY <4>1, <4>2
    <3> HIDE DEF f
    <3>8. Solves(f, m)
      BY <3>6, <3>7 DEF Along
    <3> QED BY <2>3, <3>5, <3>8
  <2> QED BY <2>4, <2>5
<1>2. N \in 0 .. N /\ N \notin Bad
  <2>1. Bad = {}
    BY <1>1
  <2> QED BY <2>1
<1> QED BY <1>2

\* What the first value has, and each value from the one before, the last one has.
LEMMA Inherits ==
  ASSUME NEW N \in Nat, NEW T, NEW f, f[0] \in T,
         \A n \in 1 .. N : f[n - 1] \in T => f[n] \in T
  PROVE  f[N] \in T
<1> DEFINE Bad == {n \in 0 .. N : f[n] \notin T}
<1>1. ASSUME Bad # {} PROVE FALSE
  <2>1. Bad \in SUBSET Nat
    OBVIOUS
  <2>2. PICK n \in Bad : \A j \in Bad : n <= j
    <3> HIDE DEF Bad
    <3> QED BY <1>1, <2>1, LeastNatural
  <2>3. n \in 0 .. N /\ f[n] \notin T /\ n # 0
    OBVIOUS
  <2>4. n \in 1 .. N /\ n - 1 \in 0 .. N /\ ~(n <= n - 1)
    BY <2>3
  <2>5. n - 1 \notin Bad
    <3> HIDE DEF Bad
    <3> QED BY <2>2, <2>4
  <2>6. f[n - 1] \in T
    BY <2>4, <2>5
  <2> QED BY <2>3, <2>4, <2>6
<1>2. Bad = {}
  BY <1>1
<1> QED BY <1>2

\* What holds of the empty set, and of a set when it holds of the set without the
\* element that is picked from it, holds of every subset.
LEMMA SubsetInduction ==
  ASSUME NEW S, IsFiniteSet(S), NEW pick, NEW B,
         \A s \in SUBSET S : s # {} => pick[s] \in s,
         {} \in B,
         \A s \in SUBSET S : s # {} /\ s \ {pick[s]} \in B => s \in B
  PROVE  \A s \in SUBSET S : s \in B
<1> SUFFICES ASSUME NEW b \in SUBSET S, b \notin B PROVE FALSE
  OBVIOUS
<1> DEFINE Sizes == {Cardinality(s) : s \in {r \in SUBSET S : r \notin B}}
<1>1. \A s \in SUBSET S : IsFiniteSet(s) /\ Cardinality(s) \in Nat
  BY FS_Subset, FS_CardinalityType
<1>2. Sizes \in SUBSET Nat /\ Sizes # {}
  BY <1>1
<1>3. PICK n \in Sizes : \A m \in Sizes : n <= m
  <2> HIDE DEF Sizes
  <2> QED BY <1>2, LeastNatural
<1>4. PICK s \in SUBSET S : s \notin B /\ n = Cardinality(s)
  BY <1>3
<1>5. s # {}
  BY <1>4
<1>6. s \ {pick[s]} \in SUBSET S /\ s \ {pick[s]} \notin B
  BY <1>4, <1>5
<1>7. Cardinality(s \ {pick[s]}) = n - 1
  BY <1>1, <1>4, <1>5, FS_RemoveElement
<1>8. Cardinality(s \ {pick[s]}) \in Sizes
  BY <1>6
<1>9. n \in Nat /\ n <= n - 1
  <2> HIDE DEF Sizes
  <2> QED BY <1>2, <1>3, <1>7, <1>8
<1> QED BY <1>9

\* f computes on the subsets of S by taking the picked elements in with g.
Folds(f, S, base, pick, g) ==
  \A s \in SUBSET S : f[s] = IF s = {} THEN base ELSE g[<<f[s \ {pick[s]}], pick[s]>>]

\* A function on the subsets can be defined by such a recursion.
LEMMA SubsetRecursion ==
  ASSUME NEW S, IsFiniteSet(S), NEW T, NEW base \in T, NEW pick, NEW g \in [T \X S -> T],
         \A s \in SUBSET S : s # {} => pick[s] \in s
  PROVE  \E f \in [SUBSET S -> T] : Folds(f, S, base, pick, g)
<1> DEFINE Small(n) == {s \in SUBSET S : Cardinality(s) <= n}
           Solves(f, n) == \A s \in Small(n) :
             f[s] = IF s = {} THEN base ELSE g[<<f[s \ {pick[s]}], pick[s]>>]
           Bad == {n \in Nat : ~ \E f \in [Small(n) -> T] : Solves(f, n)}
<1>1. \A s \in SUBSET S : IsFiniteSet(s) /\ Cardinality(s) \in Nat
  BY FS_Subset, FS_CardinalityType
<1>2. \A s \in SUBSET S : s # {} =>
        s \ {pick[s]} \in SUBSET S /\ Cardinality(s \ {pick[s]}) = Cardinality(s) - 1
  BY <1>1, FS_RemoveElement
<1>3. Bad = {}
  <2> SUFFICES ASSUME Bad # {} PROVE FALSE
    OBVIOUS
  <2>1. PICK n \in Bad : \A m \in Bad : n <= m
    <3>1. Bad \in SUBSET Nat
      OBVIOUS
    <3> HIDE DEF Bad
    <3> QED BY <3>1, LeastNatural
  <2>2. CASE n = 0
    <3> DEFINE f == [s \in Small(0) |-> base]
    <3>1. \A s \in Small(0) : s = {}
      <4>1. ASSUME NEW s \in Small(0) PROVE s = {}
        <5>1. Cardinality(s) = 0 /\ IsFiniteSet(s)
          BY <1>1
        <5> QED BY <5>1, FS_EmptySet
      <4> QED BY <4>1
    <3>2. f \in [Small(0) -> T] /\ Solves(f, 0)
      BY <3>1
    <3> QED BY <2>1, <2>2, <3>2
  <2>3. CASE n # 0
    <3>0. n \in Nat /\ Bad \subseteq Nat
      OBVIOUS
    <3>1. n \in Nat /\ n - 1 \in Nat /\ n - 1 \notin Bad
      <4> HIDE DEF Bad
      <4> QED BY <2>1, <2>3, <3>0
    <3>2. PICK f \in [Small(n - 1) -> T] : Solves(f, n - 1)
      BY <3>1
    <3> DEFINE h == [s \in Small(n) |->
                       IF s \in Small(n - 1) THEN f[s] ELSE g[<<f[s \ {pick[s]}], pick[s]>>]]
    <3>3. ASSUME NEW s \in Small(n), s # {}
          PROVE  s \ {pick[s]} \in Small(n - 1) /\ pick[s] \in S
      BY <1>1, <1>2, <3>1, <3>3
    <3>4. {} \in Small(n - 1)
      BY <3>1, FS_EmptySet
    <3>5. h \in [Small(n) -> T]
      <4>1. ASSUME NEW s \in Small(n), s \notin Small(n - 1)
            PROVE  g[<<f[s \ {pick[s]}], pick[s]>>] \in T
        <5>1. s # {}
          BY <3>4, <4>1
        <5>2. f[s \ {pick[s]}] \in T /\ pick[s] \in S
          BY <3>2, <3>3, <5>1
        <5> QED BY <5>2
      <4> HIDE DEF Small
      <4> QED BY <3>2, <4>1
    <3>6. \A s \in Small(n - 1) : s \in Small(n)
      BY <1>1, <3>1
    <3>7. Solves(h, n)
      <4> SUFFICES ASSUME NEW s \in Small(n)
                   PROVE  h[s] = IF s = {} THEN base ELSE g[<<h[s \ {pick[s]}], pick[s]>>]
        OBVIOUS
      <4>1. CASE s = {}
        BY <3>2, <3>4, <3>6, <4>1
      <4>2. CASE s # {}
        <5>1. s \ {pick[s]} \in Small(n - 1)
          BY <3>3, <4>2
        <5>2. h[s \ {pick[s]}] = f[s \ {pick[s]}]
          <6> HIDE DEF Small
          <6> QED BY <3>6, <5>1
        <5>3. s \in Small(n - 1) => f[s] = g[<<f[s \ {pick[s]}], pick[s]>>]
          <6> HIDE DEF Small
          <6> QED BY <3>2, <4>2
        <5> HIDE DEF Small
        <5> QED BY <4>2, <5>2, <5>3
      <4> QED BY <4>1, <4>2
    <3> HIDE DEF h
    <3> QED BY <2>1, <3>5, <3>7
  <2> QED BY <2>2, <2>3
<1> DEFINE N == Cardinality(S)
<1>4. Small(N) = SUBSET S
  <2>1. \A s \in SUBSET S : Cardinality(s) <= N
    BY FS_Subset
  <2> QED BY <2>1
<1>5. N \in Nat
  BY FS_CardinalityType
<1>6. PICK f \in [Small(N) -> T] : Solves(f, N)
  BY <1>3, <1>5
<1> HIDE DEF N, Small
<1> QED BY <1>4, <1>6 DEF Folds

\* Such a function stays in a set that the recursion does not leave.
LEMMA FoldStays ==
  ASSUME NEW S, IsFiniteSet(S), NEW T, NEW pick, NEW f,
         \A s \in SUBSET S : s # {} => pick[s] \in s,
         f[{}] \in T,
         \A s \in SUBSET S : s # {} /\ f[s \ {pick[s]}] \in T => f[s] \in T
  PROVE  \A s \in SUBSET S : f[s] \in T
<1> DEFINE B == {s \in SUBSET S : f[s] \in T}
<1>1. {} \in B /\ \A s \in SUBSET S : s # {} /\ s \ {pick[s]} \in B => s \in B
  OBVIOUS
<1>2. \A s \in SUBSET S : s \in B
  <2> HIDE DEF B
  <2> QED BY <1>1, SubsetInduction
<1> QED BY <1>2
-----------------------------------------------------------------------------
(* Sums *)

\* The sums of the values of h over the subsets of D, one value after the other.
SumsOf(D, h) ==
  CHOOSE f : f = [s \in SUBSET D |->
                    IF s = {} THEN 0
                    ELSE h[CHOOSE x \in s : TRUE] + f[s \ {CHOOSE x \in s : TRUE}]]

SumOf(h) == SumsOf(DOMAIN h, h)[DOMAIN h]

\* Such a function exists, and adds one element after the other.
LEMMA SumsAdd ==
  ASSUME NEW D, IsFiniteSet(D), NEW h \in [D -> Int]
  PROVE  /\ SumOf(h) = SumsOf(D, h)[D]
         /\ SumsOf(D, h) \in [SUBSET D -> Int]
         /\ SumsOf(D, h)[{}] = 0
         /\ \A s \in SUBSET D : s # {} =>
              /\ (CHOOSE x \in s : TRUE) \in s
              /\ SumsOf(D, h)[s] = h[CHOOSE x \in s : TRUE] + SumsOf(D, h)[s \ {CHOOSE x \in s : TRUE}]
<1> DEFINE first(s) == CHOOSE x \in s : TRUE
           pick == [s \in SUBSET D |-> first(s)]
           iter == SumsOf(D, h)
           g == [p \in Int \X D |-> h[p[2]] + p[1]]
<1>1. SumOf(h) = iter[D]
  BY DEF SumOf
<1>2. \A s \in SUBSET D : s # {} => pick[s] \in s /\ pick[s] = first(s)
  OBVIOUS
<1>3. g \in [Int \X D -> Int]
  OBVIOUS
<1>4. PICK f \in [SUBSET D -> Int] : \A s \in SUBSET D :
        f[s] = IF s = {} THEN 0 ELSE g[<<f[s \ {pick[s]}], pick[s]>>]
  <2>1. \A s \in SUBSET D : s # {} => pick[s] \in s
    BY <1>2
  <2> DEFINE T == Int
             zero == 0
  <2>2. g \in [T \X D -> T] /\ zero \in T
    BY <1>3
  <2>3. \E f \in [SUBSET D -> T] : Folds(f, D, zero, pick, g)
    <3> HIDE DEF pick, g, T, zero
    <3> QED BY <2>1, <2>2, SubsetRecursion
  <2> QED BY <2>3 DEF Folds
<1>5. ASSUME NEW s \in SUBSET D, s # {}
      PROVE  g[<<f[s \ {pick[s]}], pick[s]>>] = h[first(s)] + f[s \ {first(s)}]
  <2>1. pick[s] \in D /\ pick[s] = first(s)
    BY <1>2, <1>5
  <2>2. f[s \ {pick[s]}] \in Int
    BY <1>4
  <2>3. g[<<f[s \ {pick[s]}], pick[s]>>] = h[pick[s]] + f[s \ {pick[s]}]
    <3> HIDE DEF pick
    <3> QED BY <2>1, <2>2
  <2> HIDE DEF pick, g
  <2> QED BY <2>1, <2>3
<1>6. f = [s \in SUBSET D |-> IF s = {} THEN 0 ELSE h[first(s)] + f[s \ {first(s)}]]
  <2> HIDE DEF first, pick, g
  <2> QED BY <1>4, <1>5
<1>7. iter = [s \in SUBSET D |-> IF s = {} THEN 0 ELSE h[first(s)] + iter[s \ {first(s)}]]
  BY <1>6 DEF SumsOf
<1> DEFINE B == {s \in SUBSET D : iter[s] \in Int}
<1>8. \A s \in SUBSET D : s \in B
  <2>1. {} \in B
    BY <1>7
  <2>2. ASSUME NEW s \in SUBSET D, s # {}, s \ {pick[s]} \in B PROVE s \in B
    <3>1. pick[s] = first(s) /\ first(s) \in D
      BY <1>2, <2>2
    <3>2. iter[s] = h[first(s)] + iter[s \ {first(s)}]
      BY <1>7, <2>2
    <3>3. iter[s \ {first(s)}] \in Int
      BY <2>2, <3>1
    <3> QED BY <3>1, <3>2, <3>3
  <2>3. \A s \in SUBSET D : s # {} => pick[s] \in s
    BY <1>2
  <2> HIDE DEF B, pick
  <2> QED BY <2>1, <2>2, <2>3, SubsetInduction
<1>9. iter \in [SUBSET D -> Int]
  <2> HIDE DEF iter, first
  <2> QED BY <1>7, <1>8
<1>10. \A s \in SUBSET D : s # {} => first(s) \in s /\ iter[s] = h[first(s)] + iter[s \ {first(s)}]
  <2> HIDE DEF iter, first
  <2> QED BY <1>2, <1>7
<1>11. iter[{}] = 0
  BY <1>7
<1> QED BY <1>1, <1>9, <1>10, <1>11

\* Terms that are not negative add up to something that is not negative.
LEMMA SumNatural ==
  ASSUME NEW D, IsFiniteSet(D), NEW h \in [D -> Nat]
  PROVE  SumOf(h) \in Nat
<1> DEFINE first(s) == CHOOSE x \in s : TRUE
           pick == [s \in SUBSET D |-> first(s)]
           F == SumsOf(D, h)
<1>1. /\ F[{}] = 0 /\ SumOf(h) = F[D]
      /\ \A s \in SUBSET D : s # {} => first(s) \in s /\ F[s] = h[first(s)] + F[s \ {first(s)}]
  <2>1. h \in [D -> Int]
    OBVIOUS
  <2> QED BY <2>1, SumsAdd
<1>2. \A s \in SUBSET D : s # {} => pick[s] \in s /\ pick[s] = first(s)
  BY <1>1
<1> HIDE DEF F, first
<1>3. \A s \in SUBSET D : s # {} /\ F[s \ {pick[s]}] \in Nat => F[s] \in Nat
  BY <1>1, <1>2
<1>4. F[{}] \in Nat
  BY <1>1
<1> DEFINE T == Nat
<1>5. \A s \in SUBSET D : F[s] \in T
  <2>1. \A s \in SUBSET D : s # {} => pick[s] \in s
    BY <1>2
  <2>2. F[{}] \in T /\ \A s \in SUBSET D : s # {} /\ F[s \ {pick[s]}] \in T => F[s] \in T
    BY <1>3, <1>4
  <2> HIDE DEF pick, T
  <2> QED BY <2>1, <2>2, FoldStays
<1> QED BY <1>1, <1>5

\* Two sums whose terms are ordered are ordered.
LEMMA SumOrdered ==
  ASSUME NEW D, IsFiniteSet(D), NEW h \in [D -> Int], NEW k \in [D -> Int],
         \A x \in D : h[x] <= k[x]
  PROVE  SumOf(h) \in Int /\ SumOf(k) \in Int /\ SumOf(h) <= SumOf(k)
<1> DEFINE first(s) == CHOOSE x \in s : TRUE
           pick == [s \in SUBSET D |-> first(s)]
           F == SumsOf(D, h)
           G == SumsOf(D, k)
           B == {s \in SUBSET D : F[s] <= G[s]}
<1>1. /\ F \in [SUBSET D -> Int] /\ F[{}] = 0 /\ SumOf(h) = F[D]
      /\ \A s \in SUBSET D : s # {} => first(s) \in s /\ F[s] = h[first(s)] + F[s \ {first(s)}]
  BY SumsAdd
<1>2. /\ G \in [SUBSET D -> Int] /\ G[{}] = 0 /\ SumOf(k) = G[D]
      /\ \A s \in SUBSET D : s # {} => G[s] = k[first(s)] + G[s \ {first(s)}]
  BY SumsAdd
<1>3. \A s \in SUBSET D : s # {} => pick[s] \in s /\ pick[s] = first(s)
  BY <1>1
<1> HIDE DEF F, G, first
<1>4. {} \in B
  BY <1>1, <1>2
<1>5. ASSUME NEW s \in SUBSET D, s # {}, s \ {pick[s]} \in B PROVE s \in B
  <2>1. pick[s] = first(s) /\ first(s) \in D
    BY <1>3, <1>5
  <2>2. F[s \ {first(s)}] <= G[s \ {first(s)}] /\ h[first(s)] <= k[first(s)]
    BY <1>5, <2>1
  <2>3. F[s \ {first(s)}] \in Int /\ G[s \ {first(s)}] \in Int
    BY <1>1, <1>2
  <2> QED BY <1>1, <1>2, <1>5, <2>1, <2>2, <2>3
<1>6. D \in B
  <2>1. \A s \in SUBSET D : s \in B
    <3> HIDE DEF B, pick
    <3>1. \A s \in SUBSET D : s # {} => pick[s] \in s
      BY <1>3
    <3>2. \A s \in SUBSET D : s # {} /\ s \ {pick[s]} \in B => s \in B
      BY <1>5
    <3> QED BY <1>4, <3>1, <3>2, SubsetInduction
  <2> QED BY <2>1
<1> QED BY <1>1, <1>2, <1>6

\* The sum of the sums of two functions' values is the sum of their sums.
LEMMA SumOfSums ==
  ASSUME NEW D, IsFiniteSet(D), NEW h \in [D -> Int], NEW k \in [D -> Int]
  PROVE  SumOf([x \in D |-> h[x] + k[x]]) = SumOf(h) + SumOf(k)
<1> DEFINE first(s) == CHOOSE x \in s : TRUE
           pick == [s \in SUBSET D |-> first(s)]
           both == [x \in D |-> h[x] + k[x]]
           F == SumsOf(D, h)
           G == SumsOf(D, k)
           H == SumsOf(D, both)
           B == {s \in SUBSET D : H[s] = F[s] + G[s]}
<1>1. /\ F \in [SUBSET D -> Int] /\ F[{}] = 0 /\ SumOf(h) = F[D]
      /\ \A s \in SUBSET D : s # {} => first(s) \in s /\ F[s] = h[first(s)] + F[s \ {first(s)}]
  BY SumsAdd
<1>2. /\ G \in [SUBSET D -> Int] /\ G[{}] = 0 /\ SumOf(k) = G[D]
      /\ \A s \in SUBSET D : s # {} => G[s] = k[first(s)] + G[s \ {first(s)}]
  BY SumsAdd
<1>3. /\ H \in [SUBSET D -> Int] /\ H[{}] = 0 /\ SumOf(both) = H[D]
      /\ \A s \in SUBSET D : s # {} => H[s] = both[first(s)] + H[s \ {first(s)}]
  <2>1. both \in [D -> Int]
    OBVIOUS
  <2> HIDE DEF both
  <2> QED BY <2>1, SumsAdd
<1>4. \A s \in SUBSET D : s # {} => pick[s] \in s /\ pick[s] = first(s)
  BY <1>1
<1>5. \A x \in D : both[x] = h[x] + k[x]
  OBVIOUS
<1> HIDE DEF F, G, H, first, both
<1>6. {} \in B
  BY <1>1, <1>2, <1>3
<1>7. ASSUME NEW s \in SUBSET D, s # {}, s \ {pick[s]} \in B PROVE s \in B
  <2>1. pick[s] = first(s) /\ first(s) \in D
    BY <1>4, <1>7
  <2>2. H[s \ {first(s)}] = F[s \ {first(s)}] + G[s \ {first(s)}]
    BY <1>7, <2>1
  <2>3. F[s \ {first(s)}] \in Int /\ G[s \ {first(s)}] \in Int
    BY <1>1, <1>2
  <2>4. h[first(s)] \in Int /\ k[first(s)] \in Int
    BY <2>1
  <2> QED BY <1>1, <1>2, <1>3, <1>5, <1>7, <2>1, <2>2, <2>3, <2>4
<1>8. D \in B
  <2>1. \A s \in SUBSET D : s \in B
    <3> HIDE DEF B, pick
    <3> QED BY <1>4, <1>6, <1>7, SubsetInduction
  <2> QED BY <2>1
<1> QED BY <1>1, <1>2, <1>3, <1>8 DEF both

\* A function that is zero but at one point adds up to its value there.
LEMMA SumAtPoint ==
  ASSUME NEW D, IsFiniteSet(D), NEW a \in D, NEW d \in Int
  PROVE  SumOf([x \in D |-> IF x = a THEN d ELSE 0]) = d
<1> DEFINE first(s) == CHOOSE x \in s : TRUE
           pick == [s \in SUBSET D |-> first(s)]
           h == [x \in D |-> IF x = a THEN d ELSE 0]
           F == SumsOf(D, h)
           B == {s \in SUBSET D : F[s] = IF a \in s THEN d ELSE 0}
<1>1. /\ F[{}] = 0 /\ SumOf(h) = F[D]
      /\ \A s \in SUBSET D : s # {} => first(s) \in s /\ F[s] = h[first(s)] + F[s \ {first(s)}]
  <2>1. h \in [D -> Int]
    OBVIOUS
  <2> HIDE DEF h
  <2> QED BY <2>1, SumsAdd
<1>2. \A s \in SUBSET D : s # {} => pick[s] \in s /\ pick[s] = first(s)
  BY <1>1
<1>3. \A x \in D : h[x] = IF x = a THEN d ELSE 0
  OBVIOUS
<1> HIDE DEF F, first, h
<1>4. {} \in B
  BY <1>1
<1>5. ASSUME NEW s \in SUBSET D, s # {}, s \ {pick[s]} \in B PROVE s \in B
  <2>1. pick[s] = first(s) /\ first(s) \in s /\ first(s) \in D
    BY <1>2, <1>5
  <2>2. F[s \ {first(s)}] = IF a \in s \ {first(s)} THEN d ELSE 0
    BY <1>5, <2>1
  <2>3. F[s] = h[first(s)] + F[s \ {first(s)}]
    BY <1>1, <1>5
  <2>4. CASE a = first(s)
    BY <1>3, <2>1, <2>2, <2>3, <2>4
  <2>5. CASE a # first(s)
    BY <1>3, <2>1, <2>2, <2>3, <2>5
  <2> QED BY <2>4, <2>5
<1>6. D \in B
  <2>1. \A s \in SUBSET D : s \in B
    <3>1. B \in SUBSET SUBSET D
      OBVIOUS
    <3> HIDE DEF B, pick
    <3>2. \A s \in SUBSET D : s # {} => pick[s] \in s
      BY <1>2
    <3> QED BY <1>4, <1>5, <3>1, <3>2, SubsetInduction
  <2> QED BY <2>1
<1> QED BY <1>1, <1>6 DEF h

\* No term that is not negative is above the sum of such terms.
LEMMA TermBelowSum ==
  ASSUME NEW D, IsFiniteSet(D), NEW h \in [D -> Nat], NEW a \in D
  PROVE  SumOf(h) \in Nat /\ h[a] <= SumOf(h)
<1> DEFINE d == h[a]
           point == [x \in D |-> IF x = a THEN d ELSE 0]
<1>1. h \in [D -> Int] /\ d \in Nat /\ point \in [D -> Int] /\ \A x \in D : point[x] <= h[x]
  OBVIOUS
<1>2. SumOf(point) = d
  <2> HIDE DEF d
  <2> QED BY <1>1, SumAtPoint
<1> HIDE DEF point
<1>3. SumOf(point) <= SumOf(h)
  BY <1>1, SumOrdered
<1> QED BY <1>2, <1>3, SumNatural

\* Scaling the terms scales the sum.
LEMMA SumScaled ==
  ASSUME NEW D, IsFiniteSet(D), NEW h \in [D -> Int], NEW c \in Int
  PROVE  SumOf([x \in D |-> h[x] * c]) = SumOf(h) * c
<1> DEFINE first(s) == CHOOSE x \in s : TRUE
           pick == [s \in SUBSET D |-> first(s)]
           scaled == [x \in D |-> h[x] * c]
           F == SumsOf(D, h)
           G == SumsOf(D, scaled)
           B == {s \in SUBSET D : G[s] = F[s] * c}
<1>1. /\ F \in [SUBSET D -> Int] /\ F[{}] = 0 /\ SumOf(h) = F[D]
      /\ \A s \in SUBSET D : s # {} => first(s) \in s /\ F[s] = h[first(s)] + F[s \ {first(s)}]
  BY SumsAdd
<1>2. /\ G[{}] = 0 /\ SumOf(scaled) = G[D]
      /\ \A s \in SUBSET D : s # {} => G[s] = scaled[first(s)] + G[s \ {first(s)}]
  <2>1. scaled \in [D -> Int]
    OBVIOUS
  <2> HIDE DEF scaled
  <2> QED BY <2>1, SumsAdd
<1>3. \A s \in SUBSET D : s # {} => pick[s] \in s /\ pick[s] = first(s)
  BY <1>1
<1>4. \A x \in D : scaled[x] = h[x] * c
  OBVIOUS
<1> HIDE DEF F, G, first, scaled
<1>5. {} \in B
  BY <1>1, <1>2
<1>6. ASSUME NEW s \in SUBSET D, s # {}, s \ {pick[s]} \in B PROVE s \in B
  <2>1. pick[s] = first(s) /\ first(s) \in D
    BY <1>3, <1>6
  <2>2. G[s \ {first(s)}] = F[s \ {first(s)}] * c
    BY <1>6, <2>1
  <2>3. F[s \ {first(s)}] \in Int /\ h[first(s)] \in Int
    BY <1>1, <2>1
  <2>4. \A x, y \in Int : x * c + y * c = (x + y) * c
    OBVIOUS
  <2>5. G[s] = h[first(s)] * c + F[s \ {first(s)}] * c
    BY <1>2, <1>4, <1>6, <2>1, <2>2
  <2>6. F[s] = h[first(s)] + F[s \ {first(s)}]
    BY <1>1, <1>6
  <2>7. h[first(s)] * c + F[s \ {first(s)}] * c = (h[first(s)] + F[s \ {first(s)}]) * c
    BY <2>3, <2>4
  <2>8. G[s] = F[s] * c
    BY <2>5, <2>6, <2>7
  <2> QED BY <2>8
<1>7. D \in B
  <2>1. \A s \in SUBSET D : s \in B
    <3> HIDE DEF B, pick
    <3>1. \A s \in SUBSET D : s # {} => pick[s] \in s
      BY <1>3
    <3>2. \A s \in SUBSET D : s # {} /\ s \ {pick[s]} \in B => s \in B
      BY <1>6
    <3> QED BY <1>5, <3>1, <3>2, SubsetInduction
  <2> QED BY <2>1
<1> QED BY <1>1, <1>2, <1>7 DEF scaled

\* The terms of one key.
OfKey(D, h, key, c) == [x \in D |-> IF key[x] = c THEN h[x] ELSE 0]

\* Nothing adds up to nothing.
LEMMA SumOfZeros ==
  ASSUME NEW D, IsFiniteSet(D)
  PROVE  SumOf([x \in D |-> 0]) = 0
<1> DEFINE z == [x \in D |-> 0]
<1>1. z \in [D -> Int] /\ z = [x \in D |-> z[x] * 0]
  OBVIOUS
<1>2. SumOf(z) \in Int
  BY <1>1, SumOrdered
<1>3. SumOf(z) = SumOf(z) * 0
  <2> HIDE DEF z
  <2>1. SumOf([x \in D |-> z[x] * 0]) = SumOf(z) * 0
    BY <1>1, SumScaled
  <2> QED BY <1>1, <2>1
<1> QED BY <1>2, <1>3

\* Terms may be added up key by key.
LEMMA SumByKey ==
  ASSUME NEW D, IsFiniteSet(D), NEW K, IsFiniteSet(K), NEW key \in [D -> K],
         NEW h \in [D -> Int]
  PROVE  SumOf([c \in K |-> SumOf(OfKey(D, h, key, c))]) = SumOf(h)
<1> DEFINE first(s) == CHOOSE x \in s : TRUE
           pick == [s \in SUBSET D |-> first(s)]
           part(s) == [x \in D |-> IF x \in s THEN h[x] ELSE 0]
           rows(s) == [c \in K |-> SumOf(OfKey(D, part(s), key, c))]
           B == {s \in SUBSET D : SumOf(rows(s)) = SumOf(part(s))}
<1>1. \A s \in SUBSET D : s # {} => pick[s] \in s /\ pick[s] = first(s)
  OBVIOUS
<1>2. \A s \in SUBSET D : part(s) \in [D -> Int]
  OBVIOUS
<1>3. ASSUME NEW g \in [D -> Int], NEW c PROVE SumOf(OfKey(D, g, key, c)) \in Int
  <2>1. OfKey(D, g, key, c) \in [D -> Int]
    BY DEF OfKey
  <2> QED BY <2>1, SumOrdered
<1>4. {} \in B
  <2>1. part({}) = [x \in D |-> 0]
    OBVIOUS
  <2>2. SumOf(part({})) = 0
    BY <2>1, SumOfZeros
  <2>3. \A c \in K : OfKey(D, part({}), key, c) = [x \in D |-> 0]
    BY <2>1 DEF OfKey
  <2>4. rows({}) = [c \in K |-> 0]
    <3> HIDE DEF part
    <3> QED BY <2>3, SumOfZeros
  <2>5. SumOf(rows({})) = 0
    BY <2>4, SumOfZeros
  <2> QED BY <2>2, <2>5
<1>5. ASSUME NEW s \in SUBSET D, s # {}, s \ {pick[s]} \in B PROVE s \in B
  <2> DEFINE a == pick[s]
             r == s \ {a}
             d == h[a]
             point == [x \in D |-> IF x = a THEN d ELSE 0]
             k == key[a]
             atKey == [c \in K |-> IF c = k THEN d ELSE 0]
  <2>1. a \in s /\ a \in D /\ d \in Int /\ k \in K /\ r \in SUBSET D
    BY <1>1, <1>5
  <2> HIDE DEF a
  <2>2. part(s) = [x \in D |-> part(r)[x] + point[x]]
    <3>1. ASSUME NEW x \in D PROVE part(s)[x] = part(r)[x] + point[x]
      <4>1. h[x] \in Int
        OBVIOUS
      <4>2. CASE x = a
        BY <2>1, <4>1, <4>2
      <4>3. CASE x # a
        BY <2>1, <4>1, <4>3
      <4> QED BY <4>2, <4>3
    <3> QED BY <3>1
  <2>3. point \in [D -> Int] /\ part(r) \in [D -> Int] /\ part(s) \in [D -> Int]
    BY <1>2, <2>1
  <2>4. SumOf(point) = d
    <3> HIDE DEF d
    <3> QED BY <2>1, SumAtPoint
  <2>5. SumOf(part(s)) = SumOf(part(r)) + d
    <3> HIDE DEF point, part, d, r
    <3>1. SumOf([x \in D |-> part(r)[x] + point[x]]) = SumOf(part(r)) + SumOf(point)
      BY <2>3, SumOfSums
    <3> QED BY <2>2, <2>4, <3>1
  <2>6. ASSUME NEW c \in K
        PROVE  SumOf(OfKey(D, part(s), key, c)) = SumOf(OfKey(D, part(r), key, c)) + atKey[c]
    <3> DEFINE here == IF c = k THEN d ELSE 0
               pt == [x \in D |-> IF x = a THEN here ELSE 0]
               u == OfKey(D, part(r), key, c)
    <3>1. here \in Int /\ atKey[c] = here
      BY <2>1
    <3>2. SumOf(pt) = here
      <4> HIDE DEF here
      <4> QED BY <2>1, <3>1, SumAtPoint
    <3>3. \A x \in D : part(s)[x] = part(r)[x] + point[x]
      <4> HIDE DEF point, part, r
      <4> QED BY <2>2
    <3>4. u \in [D -> Int] /\ pt \in [D -> Int]
      <4>1. u \in [D -> Int]
        <5> HIDE DEF part, r
        <5> QED BY <2>3 DEF OfKey
      <4> QED BY <3>1, <4>1
    <3>5. OfKey(D, part(s), key, c) = [x \in D |-> u[x] + pt[x]]
      <4>1. ASSUME NEW x \in D
            PROVE  (IF key[x] = c THEN part(s)[x] ELSE 0) = u[x] + pt[x]
        <5>1. u[x] = (IF key[x] = c THEN part(r)[x] ELSE 0) /\ part(r)[x] \in Int
          <6> HIDE DEF part, r
          <6> QED BY <2>3 DEF OfKey
        <5>2. pt[x] = IF x = a THEN here ELSE 0
          OBVIOUS
        <5>3. part(s)[x] = part(r)[x] + (IF x = a THEN d ELSE 0)
          <6>1. point[x] = IF x = a THEN d ELSE 0
            OBVIOUS
          <6> QED BY <3>3, <6>1
        <5> HIDE DEF part, r, d, u, pt, point
        <5>4. CASE x = a
          BY <2>1, <5>1, <5>2, <5>3, <5>4
        <5>5. CASE x # a
          BY <2>1, <5>1, <5>2, <5>3, <5>5
        <5> QED BY <5>4, <5>5
      <4> HIDE DEF part, u, pt
      <4> QED BY <4>1 DEF OfKey
    <3>6. SumOf([x \in D |-> u[x] + pt[x]]) = SumOf(u) + SumOf(pt)
      <4> HIDE DEF u, pt
      <4> QED BY <3>4, SumOfSums
    <3> HIDE DEF part, pt, atKey, here
    <3> QED BY <3>1, <3>2, <3>5, <3>6
  <2>7. atKey \in [K -> Int] /\ SumOf(atKey) = d
    <3>1. atKey \in [K -> Int]
      BY <2>1
    <3>2. SumOf(atKey) = d
      <4> HIDE DEF d, k
      <4> QED BY <2>1, SumAtPoint
    <3> QED BY <3>1, <3>2
  <2>8. rows(r) \in [K -> Int]
    <3> HIDE DEF part, r
    <3> QED BY <1>3, <2>3
  <2>9. rows(s) = [c \in K |-> rows(r)[c] + atKey[c]]
    <3> HIDE DEF part, r, atKey
    <3> QED BY <2>6
  <2>10. SumOf(rows(s)) = SumOf(rows(r)) + d
    <3>1. SumOf([c \in K |-> rows(r)[c] + atKey[c]]) = SumOf(rows(r)) + SumOf(atKey)
      <4> HIDE DEF rows, r, atKey
      <4> QED BY <2>7, <2>8, SumOfSums
    <3> HIDE DEF rows, r, atKey, d
    <3> QED BY <2>7, <2>9, <3>1
  <2>11. SumOf(rows(r)) = SumOf(part(r))
    <3>1. r \in B
      BY <1>5 DEF a
    <3> HIDE DEF rows, part, r
    <3> QED BY <3>1
  <2>12. SumOf(rows(s)) = SumOf(part(s))
    <3> HIDE DEF rows, part, r, d
    <3> QED BY <2>5, <2>10, <2>11
  <2> HIDE DEF rows, part
  <2> QED BY <2>12
<1>6. D \in B
  <2>1. \A s \in SUBSET D : s \in B
    <3> HIDE DEF B, pick
    <3>1. \A s \in SUBSET D : s # {} => pick[s] \in s
      BY <1>1
    <3>2. \A s \in SUBSET D : s # {} /\ s \ {pick[s]} \in B => s \in B
      BY <1>5
    <3> QED BY <1>4, <3>1, <3>2, SubsetInduction
  <2> QED BY <2>1
<1>7. part(D) = h
  OBVIOUS
<1>8. SumOf(rows(D)) = SumOf(part(D))
  <2> HIDE DEF rows, part
  <2> QED BY <1>6
<1> HIDE DEF part
<1> QED BY <1>7, <1>8

\* Terms that are zero may be left out.
LEMMA SumExtended ==
  ASSUME NEW D, IsFiniteSet(D), NEW E \in SUBSET D, NEW g \in [E -> Int]
  PROVE  SumOf([x \in D |-> IF x \in E THEN g[x] ELSE 0]) = SumOf(g)
<1> DEFINE h == [x \in D |-> IF x \in E THEN g[x] ELSE 0]
           first(s) == CHOOSE x \in s : TRUE
           pick == [s \in SUBSET D |-> first(s)]
           F == SumsOf(D, h)
           part(s) == [x \in E |-> IF x \in s THEN h[x] ELSE 0]
           B == {s \in SUBSET D : F[s] = SumOf(part(s))}
<1>0. IsFiniteSet(E)
  BY FS_Subset
<1>1. /\ F \in [SUBSET D -> Int] /\ F[{}] = 0 /\ SumOf(h) = F[D]
      /\ \A s \in SUBSET D : s # {} => first(s) \in s /\ F[s] = h[first(s)] + F[s \ {first(s)}]
  <2>1. h \in [D -> Int]
    OBVIOUS
  <2> HIDE DEF h
  <2> QED BY <2>1, SumsAdd
<1>2. \A s \in SUBSET D : s # {} => pick[s] \in s /\ pick[s] = first(s)
  BY <1>1
<1> HIDE DEF F, first
<1>8. \A x \in D : h[x] \in Int /\ h[x] = IF x \in E THEN g[x] ELSE 0
  OBVIOUS
<1> HIDE DEF h
<1>3. {} \in B
  <2>1. part({}) = [x \in E |-> 0]
    OBVIOUS
  <2>2. SumOf(part({})) = 0
    BY <1>0, <2>1, SumOfZeros
  <2> HIDE DEF part
  <2> QED BY <1>1, <2>2
<1>4. ASSUME NEW s \in SUBSET D, s # {}, s \ {pick[s]} \in B PROVE s \in B
  <2> DEFINE a == pick[s]
             r == s \ {a}
             d == h[a]
             point == [x \in E |-> IF x = a THEN d ELSE 0]
  <2>1. a \in s /\ a \in D /\ d \in Int /\ r \in SUBSET D /\ (a \notin E => d = 0) /\ a = first(s)
    BY <1>2, <1>4, <1>8
  <2> HIDE DEF a
  <2>2. F[s] = d + F[r]
    BY <1>1, <1>4, <2>1
  <2>3. F[r] = SumOf(part(r))
    <3>1. r \in B
      BY <1>4 DEF a
    <3> HIDE DEF part
    <3> QED BY <3>1
  <2>4. /\ part(r) \in [E -> Int] /\ point \in [E -> Int]
        /\ part(s) = [x \in E |-> part(r)[x] + point[x]]
    <3>1. \A x \in E : h[x] \in Int
      BY <1>8
    <3>2. part(r) \in [E -> Int] /\ point \in [E -> Int]
      BY <2>1, <3>1
    <3>3. ASSUME NEW x \in E PROVE part(s)[x] = part(r)[x] + point[x]
      <4>1. CASE x = a
        BY <2>1, <3>1, <4>1
      <4>2. CASE x # a
        BY <2>1, <3>1, <4>2
      <4> QED BY <4>1, <4>2
    <3> QED BY <3>2, <3>3
  <2>5. SumOf(point) = d
    <3>1. CASE a \in E
      <4> HIDE DEF d
      <4> QED BY <1>0, <2>1, <3>1, SumAtPoint
    <3>2. CASE a \notin E
      <4>1. point = [x \in E |-> 0]
        BY <3>2
      <4>2. SumOf(point) = 0
        BY <1>0, <4>1, SumOfZeros
      <4> QED BY <2>1, <3>2, <4>2
    <3> QED BY <3>1, <3>2
  <2>6. SumOf(part(s)) = SumOf(part(r)) + SumOf(point) /\ SumOf(part(r)) \in Int
    <3> HIDE DEF part, point, r
    <3>1. SumOf([x \in E |-> part(r)[x] + point[x]]) = SumOf(part(r)) + SumOf(point)
      BY <1>0, <2>4, SumOfSums
    <3>2. SumOf(part(r)) \in Int
      BY <1>0, <2>4, SumOrdered
    <3> QED BY <2>4, <3>1, <3>2
  <2>7. F[s] = SumOf(part(s))
    <3> HIDE DEF part, point, r, d
    <3> QED BY <2>1, <2>2, <2>3, <2>5, <2>6
  <2> HIDE DEF part
  <2> QED BY <2>7
<1>5. D \in B
  <2>1. \A s \in SUBSET D : s \in B
    <3> HIDE DEF B, pick
    <3>1. \A s \in SUBSET D : s # {} => pick[s] \in s
      BY <1>2
    <3>2. \A s \in SUBSET D : s # {} /\ s \ {pick[s]} \in B => s \in B
      BY <1>4
    <3> QED BY <1>3, <3>1, <3>2, SubsetInduction
  <2> QED BY <2>1
<1>6. part(D) = g
  BY <1>8
<1>7. F[D] = SumOf(part(D))
  <2> HIDE DEF part
  <2> QED BY <1>5
<1> QED BY <1>1, <1>6, <1>7 DEF h
-----------------------------------------------------------------------------
(* Division *)

\* Quotient and remainder are what they divide into.
LEMMA Divided ==
  ASSUME NEW d \in Nat \ {0}, NEW x \in Int
  PROVE  /\ x \div d \in Int /\ x % d \in 0 .. d - 1
         /\ x = d * (x \div d) + (x % d)
<1>1. x \div d \in Int
  OBVIOUS
<1>2. x % d \in 0 .. d - 1
  OBVIOUS
<1>3. x = d * (x \div d) + (x % d)
  OBVIOUS
<1> QED BY <1>1, <1>2, <1>3

\* A product with a positive factor is at least the other factor's sign allows.
LEMMA Multiples ==
  ASSUME NEW d \in Nat \ {0}, NEW q \in Int
  PROVE  /\ d * q \in Int
         /\ q >= 1 => d * q >= d
         /\ q <= -1 => d * q <= -d
<1>1. d * q \in Int
  OBVIOUS
<1>2. ASSUME q >= 1 PROVE d * q >= d
  <2>1. q - 1 \in Nat
    BY <1>2
  <2>2. d * (q - 1) \in Nat
    BY <2>1
  <2>3. d * q = d * (q - 1) + d
    OBVIOUS
  <2> QED BY <1>1, <2>2, <2>3
<1>3. ASSUME q <= -1 PROVE d * q <= -d
  <2>1. -1 - q \in Nat
    BY <1>3
  <2>2. d * (-1 - q) \in Nat
    BY <2>1
  <2>3. d * q = -d - d * (-1 - q)
    OBVIOUS
  <2> QED BY <1>1, <2>2, <2>3
<1> QED BY <1>1, <1>2, <1>3

\* There is one way to divide.
LEMMA DividedOnce ==
  ASSUME NEW d \in Nat \ {0}, NEW x \in Int, NEW q \in Int, NEW r \in 0 .. d - 1, x = d * q + r
  PROVE  x \div d = q /\ x % d = r
<1> DEFINE a == x \div d
           b == x % d
<1>1. a \in Int /\ b \in 0 .. d - 1 /\ x = d * a + b
  BY Divided
<1> HIDE DEF a, b
<1>2. d * (q - a) = b - r
  <2>1. d * q \in Int /\ d * a \in Int /\ d * (q - a) = d * q - d * a
    BY <1>1
  <2> QED BY <1>1, <2>1
<1>3. q - a \in Int
  BY <1>1
<1>4. ~(q - a >= 1) /\ ~(q - a <= -1)
  BY <1>1, <1>2, <1>3, Multiples
<1>5. q = a
  BY <1>1, <1>3, <1>4
<1>6. b = r
  <2>1. d * q \in Int
    OBVIOUS
  <2> QED BY <1>1, <1>5, <2>1
<1> QED BY <1>5, <1>6 DEF a, b

\* Within the slots that the bit vector holds, the slots of a word are those that follow
\* its first one.
LEMMA SameWord ==
  ASSUME NEW B \in Nat \ {0}, NEW M \in Nat \ {0}, M % B = 0,
         NEW s \in Int, NEW i \in Int, i % B = 0, s - i < M, i - s <= M - B
  PROVE  (s % M) \div B = (i % M) \div B <=> s \in i .. i + B - 1
<1> DEFINE K == M \div B
           u == s \div M
           v == s % M
           x == i \div M
           y == i % M
           q == i \div B
           w == q - K * x
<1>0. K \in Int /\ M = B * K /\ B * K \in Int
  <2> DEFINE z == M % B
  <2>1. K \in Int /\ M = B * K + z /\ z = 0
    BY Divided
  <2> HIDE DEF K, z
  <2>2. B * K \in Int
    BY <2>1
  <2> QED BY <2>1, <2>2
<1>1. u \in Int /\ v \in 0 .. M - 1 /\ s = M * u + v
  BY Divided
<1>2. x \in Int /\ y \in 0 .. M - 1 /\ i = M * x + y
  BY Divided
<1>3. q \in Int /\ i = B * q
  <2>1. q \in Int /\ i = B * q + (i % B)
    BY Divided
  <2> DEFINE z == i % B
  <2>2. z = 0 /\ i = B * q + z
    BY <2>1
  <2> HIDE DEF q, z
  <2>3. B * q \in Int
    BY <2>1
  <2> QED BY <2>1, <2>2, <2>3
<1> HIDE DEF K, u, v, x, y, q
<1>4. w \in Int /\ y = B * w
  <2>1. w \in Int
    BY <1>0, <1>2, <1>3
  <2>2. B * w = B * q - (B * K) * x
    BY <1>0, <1>2, <1>3
  <2>3. B * q \in Int /\ M * x \in Int
    BY <1>2, <1>3
  <2> QED BY <1>0, <1>2, <1>3, <2>1, <2>2, <2>3
<1> HIDE DEF w
<1>5. y \div B = w
  <2>1. 0 \in 0 .. B - 1 /\ y = B * w + 0 /\ y \in Int
    BY <1>2, <1>4, Multiples
  <2> QED BY <1>4, <2>1, DividedOnce
<1>6. y + B <= M
  <2>1. M - y = B * (K - w) /\ K - w \in Int
    <3>1. B * K \in Int /\ B * w \in Int /\ B * (K - w) = B * K - B * w
      BY <1>0, <1>4
    <3> QED BY <1>0, <1>4, <3>1
  <2>2. K - w >= 1
    <3>1. CASE K - w <= -1
      BY <1>2, <2>1, <3>1, Multiples
    <3>2. CASE K - w = 0
      <4>1. B * (K - w) = 0
        BY <3>2
      <4> QED BY <1>2, <2>1, <4>1
    <3> QED BY <2>1, <3>1, <3>2
  <2>3. B * (K - w) >= B
    BY <2>1, <2>2, Multiples
  <2> QED BY <1>2, <2>1, <2>3
<1>7. ASSUME v \div B = w PROVE s \in i .. i + B - 1
  <2> DEFINE r == v % B
  <2>1. r \in 0 .. B - 1 /\ v = B * w + r
    <3>1. v \in Int
      BY <1>1
    <3>2. r \in 0 .. B - 1 /\ v = B * (v \div B) + r
      BY <3>1, Divided
    <3> HIDE DEF r
    <3> QED BY <1>7, <3>2
  <2> HIDE DEF r
  <2>2. v = y + r
    BY <1>2, <1>4, <2>1
  <2>3. s - i = M * (u - x) + r
    <3>1. M * (u - x) = M * u - M * x /\ M * u \in Int /\ M * x \in Int
      BY <1>1, <1>2
    <3> QED BY <1>1, <1>2, <2>1, <2>2, <3>1
  <2>4. u - x \in Int
    BY <1>1, <1>2
  <2>5. ~(u - x >= 1)
    BY <2>1, <2>3, <2>4, Multiples
  <2>6. ~(u - x <= -1)
    BY <2>1, <2>3, <2>4, Multiples
  <2>7. u - x = 0
    BY <2>4, <2>5, <2>6
  <2>8. s - i = r
    <3>1. M * (u - x) = 0
      BY <2>7
    <3> QED BY <2>1, <2>3, <3>1
  <2> QED BY <2>1, <2>8
<1>8. ASSUME s \in i .. i + B - 1 PROVE v \div B = w
  <2> DEFINE r == s - i
  <2>1. r \in 0 .. B - 1
    BY <1>8
  <2>2. s = M * x + (y + r)
    <3>1. M * x \in Int
      BY <1>2
    <3> QED BY <1>2, <2>1, <3>1
  <2> HIDE DEF r
  <2>3. y + r \in 0 .. M - 1
    BY <1>2, <1>6, <2>1
  <2> DEFINE z == y + r
  <2>4. s % M = z
    <3>1. z \in 0 .. M - 1 /\ s = M * x + z /\ x \in Int
      BY <1>2, <2>2, <2>3
    <3> HIDE DEF z
    <3> QED BY <3>1, DividedOnce
  <2>5. v = B * w + r /\ v \in Int
    BY <1>1, <1>4, <2>4 DEF v
  <2> QED BY <1>4, <2>1, <2>5, DividedOnce
<1> QED BY <1>5, <1>7, <1>8 DEF v, y

\* Multiples of d are d apart.
LEMMA Aligned ==
  ASSUME NEW d \in Nat \ {0}, NEW x \in Int, NEW y \in Int, y % d = 0
  PROVE  /\ x % d = 0 => (x - y) % d = 0
         /\ (x - y) % d = 0 => x % d = 0
         /\ x % d = 0 /\ x > y => x >= y + d
<1> DEFINE b == y \div d
<1>1. b \in Int /\ y = d * b + (y % d)
  BY Divided
<1>2. y = d * b /\ d * b \in Int
  <2> DEFINE z == y % d
  <2>1. z = 0 /\ y = d * b + z
    BY <1>1
  <2> HIDE DEF b, z
  <2>2. d * b \in Int
    BY <1>1
  <2> QED BY <2>1, <2>2
<1> HIDE DEF b
<1>3. ASSUME x % d = 0 PROVE (x - y) % d = 0 /\ (x > y => x >= y + d)
  <2> DEFINE a == x \div d
             z == x % d
  <2>1. a \in Int /\ x = d * a + z /\ z = 0
    BY <1>3, Divided
  <2> HIDE DEF a, z
  <2>2. d * a \in Int /\ x = d * a /\ x - y = d * (a - b) /\ a - b \in Int
    <3>1. d * a \in Int /\ d * (a - b) = d * a - d * b /\ a - b \in Int
      BY <1>1, <2>1
    <3> QED BY <1>2, <2>1, <3>1
  <2> DEFINE m == x - y
             n == a - b
  <2>3. m \in Int /\ n \in Int /\ m = d * n + 0 /\ m = d * n /\ 0 \in 0 .. d - 1
    <3>1. m \in Int /\ n \in Int /\ m = d * n
      BY <2>2
    <3> HIDE DEF m, n
    <3> QED BY <3>1
  <2> HIDE DEF m, n
  <2>4. m % d = 0
    BY <2>3, DividedOnce
  <2>5. ASSUME m > 0 PROVE m >= d
    <3>1. ~(n <= -1)
      BY <2>3, <2>5, Multiples
    <3>2. n # 0
      BY <2>3, <2>5
    <3>3. n >= 1
      BY <2>3, <3>1, <3>2
    <3> QED BY <2>3, <3>3, Multiples
  <2> QED BY <2>4, <2>5 DEF m
<1>4. ASSUME (x - y) % d = 0 PROVE x % d = 0
  <2> DEFINE m == x - y
             a == m \div d
             z == m % d
  <2>1. m \in Int
    OBVIOUS
  <2>2. a \in Int /\ m = d * a + z /\ z = 0
    <3> HIDE DEF m
    <3>1. a \in Int /\ m = d * a + z
      BY <2>1, Divided
    <3>2. z = 0
      BY <1>4 DEF m
    <3> QED BY <3>1, <3>2
  <2> HIDE DEF a, z
  <2>3. x = d * a + d * b
    <3>1. d * a \in Int
      BY <2>2
    <3> QED BY <1>2, <2>2, <3>1
  <2> HIDE DEF m
  <2> DEFINE n == a + b
  <2>4. n \in Int /\ x = d * n + 0 /\ 0 \in 0 .. d - 1
    <3>1. n \in Int
      BY <1>1, <2>2
    <3>2. d * n = d * a + d * b /\ d * n \in Int
      BY <1>1, <2>2
    <3> QED BY <2>3, <3>1, <3>2
  <2> HIDE DEF n
  <2> QED BY <2>4, DividedOnce
<1> QED BY <1>3, <1>4

\* Without its remainder, a number is the multiple of d that it follows.
LEMMA RoundedDown ==
  ASSUME NEW d \in Nat \ {0}, NEW x \in Int
  PROVE  /\ x - (x % d) \in Int /\ (x - (x % d)) % d = 0
         /\ x - (x % d) <= x /\ x < x - (x % d) + d
<1> DEFINE q == x \div d
           r == x % d
           y == x - r
<1>1. q \in Int /\ r \in 0 .. d - 1 /\ x = d * q + r
  BY Divided
<1> HIDE DEF q, r
<1>2. y \in Int /\ y <= x /\ x < y + d
  BY <1>1
<1>3. y = d * q + 0 /\ 0 \in 0 .. d - 1
  <2>1. d * q \in Int
    BY <1>1
  <2> QED BY <1>1, <2>1
<1> HIDE DEF y
<1>4. y % d = 0
  BY <1>1, <1>2, <1>3, DividedOnce
<1> QED BY <1>2, <1>4 DEF y, r

\* A number has one such multiple.
LEMMA RoundedOnce ==
  ASSUME NEW d \in Nat \ {0}, NEW x \in Int, NEW y \in Int, y % d = 0, y <= x, x < y + d
  PROVE  x - (x % d) = y
<1> DEFINE z == x - (x % d)
<1>1. z \in Int /\ z % d = 0 /\ z <= x /\ x < z + d
  BY RoundedDown
<1> HIDE DEF z
<1>2. z > y => z >= y + d
  BY <1>1, Aligned
<1>3. y > z => y >= z + d
  BY <1>1, Aligned
<1>4. z = y
  BY <1>1, <1>2, <1>3
<1> QED BY <1>4 DEF z
=============================================================================
