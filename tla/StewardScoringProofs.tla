------------------------ MODULE StewardScoringProofs ------------------------
(***************************************************************************)
(* The arrays of a scoring cycle for every number of validators, every     *)
(* score and every order of additions, removals and cranks.                *)
(*                                                                         *)
(* The sorted indices are a listing of the scored validators, best first   *)
(* (Lists): an insertion puts one more in its place, a removal closes up   *)
(* its place and renames the ones above it, and what is left over behind   *)
(* the listing from an earlier cycle is never looked at. With the bounds   *)
(* of the pool this is the invariant ScoringInv, from which the order and  *)
(* the simulation of DelegationCycle follow.                               *)
(***************************************************************************)
EXTENDS StewardScoring, WellOrder
-----------------------------------------------------------------------------
(* The invariant *)

\* The first n sorted indices are the members of S, each of them once, best first.
Lists(sorted, scs, S, n) ==
  /\ \A p \in 0 .. n - 1 : sorted[p] \in S
  /\ \A i \in S : \E p \in 0 .. n - 1 : sorted[p] = i
  /\ \A p, q \in 0 .. n - 1 : sorted[p] = sorted[q] => p = q
  /\ \A p, q \in 0 .. n - 1 : p <= q => scs[sorted[p]] >= scs[sorted[q]]

\* A listing of finitely many.
Listed(sorted, scs, S) ==
  /\ IsFiniteSet(S)
  /\ Lists(sorted, scs, S, Cardinality(S))

\* The pool, and the validators added since scoring began, are those of the list.
PoolInv ==
  /\ num_pool_validators \in Nat /\ validators_added \in Nat
  /\ owners \in Seq(Votes) /\ Len(owners) <= MaxValidators
  /\ Len(owners) = num_pool_validators + validators_added
  /\ \A j, k \in 1 .. Len(owners) : owners[j] = owners[k] => j = k

\* The arrays, and where they are in use.
ArraysInv ==
  /\ scores \in [Indices -> Nat]
  /\ sorted_score_indices \in [Indices -> Nat]
  /\ delegations \in [Indices -> Nat]
  /\ \A i \in Indices : i >= num_pool_validators => delegations[i] = 0

\* The state machine as far as scoring goes.
CycleInv ==
  /\ tag \in {"ComputeScores", "ComputeDelegations", "Other"}
  /\ progress \subseteq 0 .. num_pool_validators - 1
  /\ tag # "ComputeScores" => progress = {}
  /\ (tag = "ComputeScores" /\ progress # {}) \/ tag = "ComputeDelegations"
       => delegations = NoDelegations

\* The inductive invariant of a scoring cycle.
ScoringInv ==
  /\ PoolInv
  /\ ArraysInv
  /\ CycleInv
  /\ Listed(sorted_score_indices, scores, Scored)
-----------------------------------------------------------------------------
(* Listings *)

\* A listing of length n is one of n members.
LEMMA ListsCount ==
  ASSUME NEW S, NEW n \in Nat, NEW sorted, NEW scs, Lists(sorted, scs, S, n)
  PROVE  IsFiniteSet(S) /\ Cardinality(S) = n
<1> DEFINE place == [k \in 1 .. n |-> sorted[k - 1]]
<1>1. ASSUME NEW k \in 1 .. n PROVE place[k] \in S
  <2>1. k - 1 \in 0 .. n - 1
    OBVIOUS
  <2> QED BY <2>1 DEF Lists
<1>2. ASSUME NEW j \in 1 .. n, NEW k \in 1 .. n, place[j] = place[k] PROVE j = k
  <2>1. j - 1 \in 0 .. n - 1 /\ k - 1 \in 0 .. n - 1 /\ sorted[j - 1] = sorted[k - 1]
    BY <1>2
  <2>2. j - 1 = k - 1
    BY <2>1 DEF Lists
  <2> QED BY <2>2
<1>3. ASSUME NEW i \in S PROVE \E k \in 1 .. n : place[k] = i
  <2>1. PICK p \in 0 .. n - 1 : sorted[p] = i
    BY DEF Lists
  <2>2. p + 1 \in 1 .. n /\ place[p + 1] = i
    BY <2>1
  <2> QED BY <2>2
<1>4. place \in [1 .. n -> S]
  BY <1>1
<1> HIDE DEF place
<1>5. place \in Bijection(1 .. n, S)
  BY <1>2, <1>3, <1>4 DEF Bijection, Injection, Surjection, IsInjective
<1>6. ExistsBijection(1 .. n, S)
  BY <1>5 DEF ExistsBijection
<1>7. IsFiniteSet(S)
  BY <1>6, FS_NatBijection
<1>8. Cardinality(S) = n
  BY <1>6, FS_CountingElements
<1> QED BY <1>7, <1>8

\* Where an index with a score goes: behind those as good, before those below.
LEMMA InsertPlace ==
  ASSUME NEW S \in SUBSET Indices, NEW n \in 0 .. MaxValidators - 1,
         NEW sorted \in [Indices -> Nat], NEW scs \in [Indices -> Int], Lists(sorted, scs, S, n),
         NEW score \in Int
  PROVE  LET below == {p \in 0 .. n - 1 : scs[sorted[p]] < score}
             at    == IF below = {} THEN n ELSE Min(below)
         IN  /\ at \in 0 .. n
             /\ \A p \in 0 .. n - 1 : IF p < at THEN scs[sorted[p]] >= score ELSE scs[sorted[p]] < score
<1> DEFINE below == {p \in 0 .. n - 1 : scs[sorted[p]] < score}
           at    == IF below = {} THEN n ELSE Min(below)
<1>0. MaxValidators \in Nat /\ n \in Nat
  BY ScoringAssumption
<1>1. \A p \in 0 .. n - 1 : sorted[p] \in Indices /\ scs[sorted[p]] \in Int
  BY DEF Lists
<1>2. CASE below = {}
  BY <1>0, <1>1, <1>2
<1>3. CASE below # {}
  <2>1. Min(below) \in below /\ \A y \in below : Min(below) <= y
    BY <1>0, <1>3, MinNatural
  <2>2. ASSUME NEW p \in 0 .. n - 1, ~(p < Min(below)) PROVE scs[sorted[p]] < score
    <3>1. scs[sorted[Min(below)]] >= scs[sorted[p]] /\ scs[sorted[Min(below)]] < score
      BY <2>1, <2>2 DEF Lists
    <3> QED BY <1>1, <2>1, <3>1
  <2>3. ASSUME NEW p \in 0 .. n - 1, p < Min(below) PROVE scs[sorted[p]] >= score
    <3>1. ~(Min(below) <= p)
      BY <2>1, <2>3
    <3>2. ~(scs[sorted[p]] < score)
      BY <2>1, <3>1
    <3> QED BY <1>1, <3>2
  <2> HIDE DEF below
  <2> QED BY <1>3, <2>1, <2>2, <2>3 DEF below
<1> QED BY <1>2, <1>3

\* An insertion lists one more.
LEMMA InsertLists ==
  ASSUME NEW S \in SUBSET Indices, NEW n \in 0 .. MaxValidators - 1,
         NEW sorted \in [Indices -> Nat], NEW scs \in [Indices -> Int], Lists(sorted, scs, S, n),
         NEW i \in Indices, i \notin S
  PROVE  LET g == InsertSortedIndex(sorted, scs, i, scs[i], n)
         IN  g \in [Indices -> Nat] /\ Lists(g, scs, S \cup {i}, n + 1)
<1> DEFINE below == {p \in 0 .. n - 1 : scs[sorted[p]] < scs[i]}
           at    == IF below = {} THEN n ELSE Min(below)
           g     == InsertSortedIndex(sorted, scs, i, scs[i], n)
<1>0. MaxValidators \in Nat /\ n \in Nat /\ scs[i] \in Int /\ Indices = 0 .. MaxValidators - 1
  BY ScoringAssumption DEF Indices
<1>1. /\ at \in 0 .. n
      /\ \A p \in 0 .. n - 1 : IF p < at THEN scs[sorted[p]] >= scs[i] ELSE scs[sorted[p]] < scs[i]
  BY <1>0, InsertPlace
<1>2. g = [p \in Indices |-> IF p < at \/ p > n THEN sorted[p]
                             ELSE IF p = at THEN i ELSE sorted[p - 1]]
  BY DEF InsertSortedIndex
<1> HIDE DEF below, at, g
<1>3. \A p \in 0 .. n : /\ p \in Indices
                        /\ p < at => p \in 0 .. n - 1 /\ g[p] = sorted[p]
                        /\ p = at => g[p] = i
                        /\ p > at => p - 1 \in 0 .. n - 1 /\ ~(p - 1 < at) /\ g[p] = sorted[p - 1]
  BY <1>0, <1>1, <1>2
<1>4. \A p \in 0 .. n - 1 : sorted[p] \in S /\ sorted[p] # i /\ scs[sorted[p]] \in Int
  BY DEF Lists
<1>5. g \in [Indices -> Nat]
  <2>1. ASSUME NEW p \in Indices PROVE g[p] \in Nat
    <3>1. CASE p < at \/ p > n
      BY <1>2, <3>1
    <3>2. CASE ~(p < at \/ p > n)
      <4>1. p \in 0 .. n
        BY <1>0, <3>2
      <4>2. g[p] = i \/ (p - 1 \in 0 .. n - 1 /\ g[p] = sorted[p - 1])
        BY <1>0, <1>1, <1>3, <3>2, <4>1
      <4> QED BY <1>0, <1>4, <4>2
    <3> QED BY <3>1, <3>2
  <2> QED BY <1>2, <2>1
<1>6. \A p \in 0 .. n : g[p] \in S \cup {i}
  BY <1>1, <1>3, <1>4
<1>7. ASSUME NEW j \in S \cup {i} PROVE \E p \in 0 .. n : g[p] = j
  <2>1. CASE j = i
    BY <1>1, <1>3, <2>1
  <2>2. CASE j \in S
    <3>1. PICK q \in 0 .. n - 1 : sorted[q] = j
      BY <2>2 DEF Lists
    <3>2. CASE q < at
      <4>1. q \in 0 .. n /\ g[q] = j
        BY <1>0, <1>3, <3>1, <3>2
      <4> QED BY <4>1
    <3>3. CASE ~(q < at)
      <4>1. q + 1 \in 0 .. n /\ q + 1 > at /\ (q + 1) - 1 = q
        BY <1>0, <1>1, <3>3
      <4>2. g[q + 1] = j
        BY <1>3, <3>1, <4>1
      <4> QED BY <4>1, <4>2
    <3> QED BY <3>2, <3>3
  <2> QED BY <2>1, <2>2
<1>8. ASSUME NEW p \in 0 .. n, NEW q \in 0 .. n, g[p] = g[q] PROVE p = q
  <2>1. \A a, b \in 0 .. n - 1 : sorted[a] = sorted[b] => a = b
    BY DEF Lists
  <2>2. p \in Int /\ q \in Int /\ at \in Int
    BY <1>0, <1>1
  <2>3. p = at => q = at
    BY <1>3, <1>4, <1>8, <2>2
  <2>4. q = at => p = at
    BY <1>3, <1>4, <1>8, <2>2
  <2>5. ASSUME p # at, q # at PROVE p = q
    <3> DEFINE a == IF p < at THEN p ELSE p - 1
               b == IF q < at THEN q ELSE q - 1
    <3>1. a \in 0 .. n - 1 /\ b \in 0 .. n - 1 /\ g[p] = sorted[a] /\ g[q] = sorted[b]
      BY <1>3, <2>2, <2>5
    <3>2. a = b
      BY <1>8, <2>1, <3>1
    <3> QED BY <2>2, <2>5, <3>2
  <2> QED BY <2>3, <2>4, <2>5
<1>9. ASSUME NEW p \in 0 .. n, NEW q \in 0 .. n, p <= q PROVE scs[g[p]] >= scs[g[q]]
  <2>1. \A a, b \in 0 .. n - 1 : a <= b => scs[sorted[a]] >= scs[sorted[b]]
    BY DEF Lists
  <2>2. p \in Int /\ q \in Int /\ at \in Int
    BY <1>0, <1>1
  <2>3. CASE p < at /\ q < at
    BY <1>3, <1>9, <2>1, <2>3
  <2>4. CASE p < at /\ q = at
    BY <1>1, <1>3, <2>4
  <2>5. CASE p < at /\ q > at
    <3>1. p \in 0 .. n - 1 /\ q - 1 \in 0 .. n - 1 /\ p <= q - 1
      BY <1>3, <2>2, <2>5
    <3> QED BY <1>3, <2>1, <2>5, <3>1
  <2>6. CASE p = at /\ q = at
    BY <1>0, <1>3, <2>6
  <2>7. CASE p = at /\ q > at
    <3>1. q - 1 \in 0 .. n - 1 /\ ~(q - 1 < at) /\ g[q] = sorted[q - 1] /\ g[p] = i
      BY <1>3, <2>7
    <3>2. scs[sorted[q - 1]] < scs[i]
      BY <1>1, <3>1
    <3> QED BY <1>0, <1>4, <3>1, <3>2
  <2>8. CASE p > at
    <3>1. q > at /\ p - 1 <= q - 1
      BY <1>9, <2>2, <2>8
    <3> QED BY <1>3, <2>1, <2>8, <3>1
  <2> QED BY <1>9, <2>2, <2>3, <2>4, <2>5, <2>6, <2>7, <2>8
<1>10. (n + 1) - 1 = n
  BY <1>0
<1>11. Lists(g, scs, S \cup {i}, n + 1)
  BY <1>6, <1>7, <1>8, <1>9, <1>10 DEF Lists
<1> QED BY <1>5, <1>11 DEF g

\* A member of a listing of a part of the pool is at a place of the pool.
LEMMA ListsShort ==
  ASSUME NEW m \in 0 .. MaxValidators, NEW S \in SUBSET (0 .. m - 1), NEW n \in Nat,
         NEW sorted, NEW scs, Lists(sorted, scs, S, n)
  PROVE  n <= m /\ \A index \in (0 .. m - 1) \ S : n < m
<1>0. MaxValidators \in Nat /\ m \in Nat
  BY ScoringAssumption
<1>1. IsFiniteSet(0 .. m - 1) /\ Cardinality(0 .. m - 1) = m
  <2>1. 0 \in Int /\ m - 1 \in Int
    BY <1>0
  <2>2. /\ IsFiniteSet(0 .. m - 1)
        /\ Cardinality(0 .. m - 1) = IF 0 > m - 1 THEN 0 ELSE (m - 1) - 0 + 1
    BY <2>1, FS_Interval
  <2> QED BY <1>0, <2>2
<1>2. IsFiniteSet(S) /\ Cardinality(S) = n
  BY ListsCount
<1>3. Cardinality(S) <= Cardinality(0 .. m - 1)
  BY <1>1, FS_Subset
<1>4. ASSUME NEW index \in (0 .. m - 1) \ S PROVE Cardinality(S) # Cardinality(0 .. m - 1)
  <2>1. S # 0 .. m - 1
    BY <1>4
  <2> QED BY <1>1, <2>1, FS_Subset
<1> QED BY <1>0, <1>1, <1>2, <1>3, <1>4

\* The size of a pool of m after a removal, of a validator that may have been added to it.
Left(m, index) == IF index < m THEN m - 1 ELSE m

\* What the indices become when index leaves the pool.
Lower(i, index) == IF i > index THEN i - 1 ELSE i

\* What is left of a set of indices.
Lowered(S, index) == {Lower(i, index) : i \in S \ {index}}

\* Indices that stay get different ones.
LEMMA LowerInjective ==
  ASSUME NEW i \in Int, NEW j \in Int, NEW index \in Int, i # index, j # index,
         Lower(i, index) = Lower(j, index)
  PROVE  i = j
BY DEF Lower

\* Bits of a part of the pool, shifted.
LEMMA BitsShifted ==
  ASSUME NEW m \in 0 .. MaxValidators, NEW S \in SUBSET (0 .. m - 1), NEW index \in Indices,
         NEW num, num = Left(m, index)
  PROVE  /\ ShiftBits(S, index, num) = Lowered(S, index)
         /\ ShiftBits(S, index, num) \subseteq 0 .. num - 1
<1>0. MaxValidators \in Nat /\ m \in Nat /\ index \in Nat /\ Indices = 0 .. MaxValidators - 1 /\ num = (IF index < m THEN m - 1 ELSE m) /\ num \in Int
  BY ScoringAssumption DEF Left, Indices
<1>1. ASSUME NEW i \in S, i # index
      PROVE  Lower(i, index) \in ShiftBits(S, index, num)
  <2>1. i \in Int /\ i < m /\ 0 <= i
    BY <1>0
  <2>2. CASE i > index
    <3>1. Lower(i, index) = i - 1 /\ i - 1 \in Indices /\ i - 1 # num /\ index <= i - 1 /\ i - 1 < num /\ (i - 1) + 1 \in S
      BY <1>0, <2>1, <2>2 DEF Lower
    <3> QED BY <3>1 DEF ShiftBits
  <2>3. CASE ~(i > index)
    <3>1. Lower(i, index) = i /\ i \in Indices /\ i # num /\ ~(index <= i)
      BY <1>0, <1>1, <2>1, <2>3 DEF Lower
    <3> QED BY <3>1 DEF ShiftBits
  <2> QED BY <2>2, <2>3
<1>2. ASSUME NEW i \in ShiftBits(S, index, num)
      PROVE  i \in 0 .. num - 1 /\ \E j \in S \ {index} : Lower(j, index) = i
  <2>1. i \in Indices /\ i # num /\ IF index <= i /\ i < num THEN i + 1 \in S ELSE i \in S
    BY DEF ShiftBits
  <2>2. CASE index <= i /\ i < num
    <3>1. i + 1 \in S \ {index} /\ Lower(i + 1, index) = i
      BY <1>0, <2>1, <2>2 DEF Lower
    <3> QED BY <1>0, <2>1, <2>2, <3>1
  <2>3. CASE ~(index <= i /\ i < num)
    <3>1. i \in S
      BY <2>1, <2>3
    <3>2. i < num /\ i \in 0 .. num - 1 /\ i # index /\ Lower(i, index) = i
      BY <1>0, <2>1, <2>3, <3>1 DEF Lower
    <3> QED BY <3>1, <3>2
  <2> QED BY <2>2, <2>3
<1> QED BY <1>1, <1>2 DEF Lowered

\* A shifted array at a lowered index.
LEMMA ArrayShifted ==
  ASSUME NEW m \in 0 .. MaxValidators, NEW index \in Indices, NEW num, num = Left(m, index),
         NEW a, NEW default, NEW i \in (0 .. m - 1) \ {index}
  PROVE  Lower(i, index) \in Indices /\ ShiftArray(a, index, num, default)[Lower(i, index)] = a[i]
<1>0. /\ MaxValidators \in Nat /\ m \in Nat /\ index \in Nat /\ Indices = 0 .. MaxValidators - 1 /\ num = (IF index < m THEN m - 1 ELSE m) /\ num \in Int
      /\ i \in Int
  BY ScoringAssumption DEF Left, Indices
<1>1. CASE i > index
  <2>1. Lower(i, index) = i - 1 /\ i - 1 \in Indices /\ i - 1 # num /\ index <= i - 1 /\ i - 1 < num /\ (i - 1) + 1 = i
    BY <1>0, <1>1 DEF Lower
  <2> QED BY <2>1 DEF ShiftArray
<1>2. CASE ~(i > index)
  <2>1. Lower(i, index) = i /\ i \in Indices /\ i # num /\ ~(index <= i)
    BY <1>0, <1>2 DEF Lower
  <2> QED BY <2>1 DEF ShiftArray
<1> QED BY <1>1, <1>2

\* g is what is left of the first n sorted indices, in their order and lowered.
ClosesUp(g, sorted, S, n, index) ==
  /\ index \notin S => \A p \in 0 .. n - 1 : g[p] = Lower(sorted[p], index)
  /\ index \in S =>
       \E q \in 0 .. n - 1 :
         /\ sorted[q] = index
         /\ \A p \in 0 .. n - 2 : g[p] = Lower(sorted[IF p < q THEN p ELSE p + 1], index)

\* The sorted indices close up behind the place of index, if it was listed.
LEMMA SortedShifted ==
  ASSUME NEW m \in 0 .. MaxValidators, NEW S \in SUBSET (0 .. m - 1), NEW n \in Nat,
         NEW sorted \in [Indices -> Nat], NEW scs, Lists(sorted, scs, S, n),
         NEW index \in Indices, NEW num, num = Left(m, index)
  PROVE  /\ ShiftSorted(sorted, index, num) \in [Indices -> Nat]
         /\ ClosesUp(ShiftSorted(sorted, index, num), sorted, S, n, index)
<1> DEFINE found   == {p \in Indices : sorted[p] = index}
           first   == Min(found)
           closed  == IF found = {} THEN sorted
                      ELSE [p \in Indices |-> IF first <= p /\ p < num THEN sorted[p + 1] ELSE sorted[p]]
           lowered == [p \in Indices |-> IF p < num /\ closed[p] > index THEN closed[p] - 1 ELSE closed[p]]
           g       == ShiftSorted(sorted, index, num)
<1>0. /\ MaxValidators \in Nat \ {0} /\ m \in Nat /\ index \in Nat /\ Indices = 0 .. MaxValidators - 1 /\ num = (IF index < m THEN m - 1 ELSE m) /\ num \in Nat
      /\ num \in Indices /\ NoIndex \in Nat
  BY ScoringAssumption DEF Left, Indices, NoIndex
<1>1. n <= m /\ (index \in (0 .. m - 1) \ S => n < m)
  BY ListsShort
<1>2. g = [lowered EXCEPT ![num] = NoIndex]
  BY DEF ShiftSorted
<1>3. found # {} => first \in found /\ \A y \in found : first <= y
  <2>1. found \in SUBSET Nat
    BY <1>0
  <2> QED BY <2>1, MinNatural
<1>4. \A p \in Indices : first <= p /\ p < num => p + 1 \in Indices
  BY <1>0
<1> HIDE DEF found, first
<1>5. closed \in [Indices -> Nat]
  BY <1>4
<1>6. \A p \in Indices : /\ p < num => lowered[p] = Lower(closed[p], index)
                         /\ lowered[p] \in Nat
  <2> SUFFICES ASSUME NEW p \in Indices
               PROVE  (p < num => lowered[p] = Lower(closed[p], index)) /\ lowered[p] \in Nat
    OBVIOUS
  <2>1. closed[p] \in Nat /\ lowered[p] = IF p < num /\ closed[p] > index THEN closed[p] - 1 ELSE closed[p]
    BY <1>5
  <2> HIDE DEF closed, lowered
  <2> QED BY <1>0, <2>1 DEF Lower
<1>7. lowered \in [Indices -> Nat]
  <2>1. lowered = [p \in Indices |-> lowered[p]]
    OBVIOUS
  <2> HIDE DEF lowered
  <2> QED BY <1>6, <2>1
<1>8. /\ g \in [Indices -> Nat]
      /\ \A p \in Indices : p < num => g[p] = Lower(closed[p], index)
  <2>1. \A p \in Indices : p < num => p # num
    BY <1>0
  <2> HIDE DEF lowered, closed, g
  <2>2. g \in [Indices -> Nat]
    BY <1>0, <1>2, <1>7
  <2>3. \A p \in Indices : p < num => g[p] = lowered[p]
    BY <1>0, <1>2, <1>7, <2>1
  <2> QED BY <1>6, <2>2, <2>3
<1>9. ASSUME index \notin S, NEW p \in 0 .. n - 1 PROVE g[p] = Lower(sorted[p], index)
  <2>1. p \in Indices /\ p < num
    BY <1>0, <1>1, <1>9
  <2>2. found # {} => ~(first <= p)
    <3> SUFFICES ASSUME found # {}, first <= p PROVE FALSE
      OBVIOUS
    <3>1. first \in found /\ first \in Indices /\ sorted[first] = index
      BY <1>3 DEF found
    <3>2. first \in 0 .. n - 1
      BY <1>0, <2>1, <3>1
    <3> QED BY <1>9, <3>1, <3>2 DEF Lists
  <2>3. closed[p] = sorted[p]
    BY <2>1, <2>2
  <2> QED BY <1>8, <2>1, <2>3
<1>10. ASSUME index \in S
       PROVE  \E q \in 0 .. n - 1 :
                /\ sorted[q] = index
                /\ \A p \in 0 .. n - 2 : g[p] = Lower(sorted[IF p < q THEN p ELSE p + 1], index)
  <2>1. PICK q \in 0 .. n - 1 : sorted[q] = index
    BY <1>10 DEF Lists
  <2>2. q \in found /\ q \in Indices
    BY <1>0, <1>1, <2>1 DEF found
  <2>3. first = q
    <3>1. first \in found /\ first <= q
      BY <1>3, <2>2
    <3>2. first \in 0 .. n - 1 /\ sorted[first] = index
      BY <1>0, <3>1, <2>1 DEF found
    <3> QED BY <2>1, <3>2 DEF Lists
  <2>4. ASSUME NEW p \in 0 .. n - 2 PROVE g[p] = Lower(sorted[IF p < q THEN p ELSE p + 1], index)
    <3>1. p \in Indices /\ p < num /\ p \in Int /\ q \in Int
      BY <1>0, <1>1, <1>10, <2>1
    <3>2. closed[p] = sorted[IF p < q THEN p ELSE p + 1]
      BY <2>2, <2>3, <3>1
    <3> QED BY <1>8, <3>1, <3>2
  <2> QED BY <2>1, <2>4
<1> HIDE DEF g
<1>11. g = ShiftSorted(sorted, index, num)
  BY DEF g
<1>12. ClosesUp(g, sorted, S, n, index)
  BY <1>9, <1>10 DEF ClosesUp
<1> QED BY <1>8, <1>11, <1>12

\* A removal leaves a listing of those that stay, under their new indices.
LEMMA RemoveLists ==
  ASSUME NEW m \in 0 .. MaxValidators, NEW S \in SUBSET (0 .. m - 1), NEW n \in Nat,
         NEW sorted \in [Indices -> Nat], NEW scs \in [Indices -> Int], Lists(sorted, scs, S, n),
         NEW index \in Indices, NEW num, num = Left(m, index)
  PROVE  Lists(ShiftSorted(sorted, index, num), ShiftArray(scs, index, num, 0),
               Lowered(S, index), IF index \in S THEN n - 1 ELSE n)
<1>a. ClosesUp(ShiftSorted(sorted, index, num), sorted, S, n, index)
  BY SortedShifted
<1> DEFINE g == ShiftSorted(sorted, index, num)
           a == ShiftArray(scs, index, num, 0)
           T == Lowered(S, index)
           k == IF index \in S THEN n - 1 ELSE n
<1>0. /\ index \in Nat /\ m \in Nat /\ \A i \in S : i \in Int
  BY ScoringAssumption DEF Indices
<1>1. \E from \in [0 .. k - 1 -> 0 .. n - 1] :
        /\ \A p \in 0 .. k - 1 : g[p] = Lower(sorted[from[p]], index) /\ sorted[from[p]] # index
        /\ \A p, q \in 0 .. k - 1 : p < q => from[p] < from[q]
        /\ \A j \in 0 .. n - 1 : sorted[j] # index => \E p \in 0 .. k - 1 : from[p] = j
  <2>1. CASE index \notin S
    <3> DEFINE from == [p \in 0 .. k - 1 |-> p]
    <3>1. k = n
      BY <2>1
    <3>2. \A p \in 0 .. n - 1 : g[p] = Lower(sorted[p], index)
      BY <1>a, <2>1 DEF ClosesUp
    <3>3. \A p \in 0 .. n - 1 : sorted[p] # index
      BY <2>1 DEF Lists
    <3> HIDE DEF k, g
    <3>4. from \in [0 .. k - 1 -> 0 .. n - 1]
      BY <3>1
    <3>5. /\ \A p \in 0 .. k - 1 : g[p] = Lower(sorted[from[p]], index) /\ sorted[from[p]] # index
          /\ \A p, q \in 0 .. k - 1 : p < q => from[p] < from[q]
          /\ \A j \in 0 .. n - 1 : sorted[j] # index => \E p \in 0 .. k - 1 : from[p] = j
      BY <3>1, <3>2, <3>3
    <3> HIDE DEF from
    <3> QED BY <3>4, <3>5
  <2>2. CASE index \in S
    <3>1. k - 1 = n - 2 /\ k = n - 1
      BY <2>2
    <3>2. PICK q \in 0 .. n - 1 :
            /\ sorted[q] = index
            /\ \A p \in 0 .. n - 2 : g[p] = Lower(sorted[IF p < q THEN p ELSE p + 1], index)
      BY <1>a, <2>2 DEF ClosesUp
    <3>3. \A p \in 0 .. n - 1 : p # q => sorted[p] # index
      BY <3>2 DEF Lists
    <3> DEFINE from == [p \in 0 .. k - 1 |-> IF p < q THEN p ELSE p + 1]
    <3> HIDE DEF k, g
    <3>4. from \in [0 .. k - 1 -> 0 .. n - 1] /\ \A p \in 0 .. k - 1 : from[p] # q
      BY <3>1, <3>2
    <3>5. \A p \in 0 .. k - 1 : g[p] = Lower(sorted[from[p]], index)
      BY <3>1, <3>2
    <3>6. \A p, r \in 0 .. k - 1 : p < r => from[p] < from[r]
      BY <3>1, <3>2
    <3>7. ASSUME NEW j \in 0 .. n - 1, sorted[j] # index PROVE \E p \in 0 .. k - 1 : from[p] = j
      <4>1. j # q /\ j \in Int /\ q \in Int
        BY <3>2, <3>7
      <4>2. CASE j < q
        <5>1. j \in 0 .. k - 1 /\ from[j] = j
          BY <3>1, <3>2, <4>1, <4>2
        <5> QED BY <5>1
      <4>3. CASE j > q
        <5>1. j - 1 \in 0 .. k - 1 /\ from[j - 1] = j
          BY <3>1, <3>2, <4>1, <4>3
        <5> QED BY <5>1
      <4> QED BY <4>1, <4>2, <4>3
    <3> HIDE DEF from
    <3> QED BY <3>3, <3>4, <3>5, <3>6, <3>7
  <2> QED BY <2>1, <2>2
<1>2. PICK from \in [0 .. k - 1 -> 0 .. n - 1] :
        /\ \A p \in 0 .. k - 1 : g[p] = Lower(sorted[from[p]], index) /\ sorted[from[p]] # index
        /\ \A p, q \in 0 .. k - 1 : p < q => from[p] < from[q]
        /\ \A j \in 0 .. n - 1 : sorted[j] # index => \E p \in 0 .. k - 1 : from[p] = j
  BY <1>1
<1>3. k \in Int
  OBVIOUS
<1> HIDE DEF k, g, a
<1>4. \A p \in 0 .. k - 1 : /\ from[p] \in 0 .. n - 1 /\ sorted[from[p]] \in S \ {index} /\ sorted[from[p]] \in Int
  BY <1>0, <1>2 DEF Lists
<1>5. \A p \in 0 .. k - 1 : g[p] \in T
  BY <1>2, <1>4 DEF Lowered
<1>6. ASSUME NEW i \in T PROVE \E p \in 0 .. k - 1 : g[p] = i
  <2>1. PICK j \in S \ {index} : i = Lower(j, index)
    BY <1>6 DEF Lowered
  <2>2. PICK q \in 0 .. n - 1 : sorted[q] = j
    BY <2>1 DEF Lists
  <2>3. PICK p \in 0 .. k - 1 : from[p] = q
    BY <1>2, <2>1, <2>2
  <2> QED BY <1>2, <2>1, <2>2, <2>3
<1>7. ASSUME NEW p \in 0 .. k - 1, NEW q \in 0 .. k - 1, g[p] = g[q] PROVE p = q
  <2>1. Lower(sorted[from[p]], index) = Lower(sorted[from[q]], index)
    BY <1>2, <1>7
  <2>2. sorted[from[p]] = sorted[from[q]]
    <3> DEFINE i == sorted[from[p]]
               j == sorted[from[q]]
    <3>1. i \in Int /\ j \in Int /\ index \in Int /\ i # index /\ j # index /\ Lower(i, index) = Lower(j, index)
      BY <1>0, <1>4, <2>1
    <3> HIDE DEF i, j
    <3>2. i = j
      BY <3>1, LowerInjective
    <3> QED BY <3>2 DEF i, j
  <2>3. from[p] = from[q]
    BY <1>4, <2>2 DEF Lists
  <2>4. ~(p < q) /\ ~(q < p)
    <3>1. from[p] \in Int /\ ~(from[p] < from[q]) /\ ~(from[q] < from[p])
      BY <1>4, <2>3
    <3> QED BY <1>2, <3>1
  <2> QED BY <1>3, <2>4
<1>8. ASSUME NEW p \in 0 .. k - 1, NEW q \in 0 .. k - 1, p <= q PROVE a[g[p]] >= a[g[q]]
  <2>1. ASSUME NEW r \in 0 .. k - 1 PROVE a[g[r]] = scs[sorted[from[r]]]
    <3> DEFINE i == sorted[from[r]]
    <3>1. i \in (0 .. m - 1) \ {index}
      BY <1>4
    <3>2. g[r] = Lower(i, index)
      BY <1>2
    <3> HIDE DEF i
    <3>3. ShiftArray(scs, index, num, 0)[Lower(i, index)] = scs[i]
      BY <3>1, ArrayShifted
    <3> QED BY <3>2, <3>3 DEF a, i
  <2>2. from[p] <= from[q]
    <3>1. CASE p = q
      BY <1>4, <3>1
    <3>2. CASE p < q
      BY <1>2, <1>4, <3>2
    <3> QED BY <1>3, <1>8, <3>1, <3>2
  <2>3. scs[sorted[from[p]]] >= scs[sorted[from[q]]]
    BY <1>4, <2>2 DEF Lists
  <2> QED BY <2>1, <2>3
<1>9. Lists(g, a, T, k)
  BY <1>5, <1>6, <1>7, <1>8 DEF Lists
<1> QED BY <1>9 DEF g, a, k
-----------------------------------------------------------------------------
(* The invariant is inductive *)

\* What the invariant says of sizes and scored validators.
LEMMA PoolFacts ==
  ASSUME ScoringInv
  PROVE  /\ MaxValidators \in Nat \ {0} /\ Indices = 0 .. MaxValidators - 1
         /\ num_pool_validators \in 0 .. MaxValidators
         /\ Scored \in SUBSET (0 .. num_pool_validators - 1)
         /\ IsFiniteSet(Scored) /\ Cardinality(Scored) \in Nat
         /\ Lists(sorted_score_indices, scores, Scored, Cardinality(Scored))
<1>1. MaxValidators \in Nat \ {0} /\ Indices = 0 .. MaxValidators - 1
  BY ScoringAssumption DEF Indices
<1>2. num_pool_validators \in 0 .. MaxValidators
  BY <1>1 DEF ScoringInv, PoolInv
<1>3. Scored \in SUBSET (0 .. num_pool_validators - 1)
  BY DEF ScoringInv, CycleInv, Scored
<1>4. IsFiniteSet(Scored) /\ Lists(sorted_score_indices, scores, Scored, Cardinality(Scored))
  BY DEF ScoringInv, Listed
<1>5. Cardinality(Scored) \in Nat
  BY <1>4, FS_CardinalityType
<1> QED BY <1>1, <1>2, <1>3, <1>4, <1>5

\* Nothing is listed in a state that is not about scores.
LEMMA NothingListed ==
  ASSUME NEW sorted, NEW scs
  PROVE  Listed(sorted, scs, {})
<1>1. IsFiniteSet({}) /\ Cardinality({}) = 0
  BY FS_EmptySet
<1>2. Lists(sorted, scs, {}, 0)
  BY DEF Lists
<1> QED BY <1>1, <1>2 DEF Listed

\* The invariant holds at first.
LEMMA InitScoring == Init => ScoringInv
<1> SUFFICES ASSUME Init PROVE ScoringInv
  OBVIOUS
<1>1. MaxValidators \in Nat \ {0} /\ NoIndex \in Nat
  BY ScoringAssumption DEF NoIndex
<1>2. PoolInv
  <2>1. Len(InitialPool) \in Nat
    BY ScoringAssumption
  <2> QED BY <2>1, ScoringAssumption DEF Init, PoolInv
<1>3. ArraysInv
  BY <1>1 DEF Init, ArraysInv, NoDelegations
<1>4. CycleInv
  BY DEF Init, CycleInv
<1>5. Scored = {}
  BY DEF Init, Scored
<1> QED BY <1>2, <1>3, <1>4, <1>5, NothingListed DEF ScoringInv

\* A transition out of ComputeScores, or none.
LEMMA ScoringEnds ==
  ASSUME NEW bits, NEW n \in Nat, bits \subseteq 0 .. n - 1, NEW d, EndScoring(bits, n, d),
         num_pool_validators' = n, tag = "ComputeScores"
  PROVE  /\ tag' \in {"ComputeScores", "ComputeDelegations"}
         /\ Scored' = bits
         /\ progress' \subseteq 0 .. n - 1
         /\ tag' # "ComputeScores" => progress' = {} /\ delegations' = NoDelegations
         /\ tag' = "ComputeScores" => delegations' = d
<1>1. CASE IsComplete(bits, n)
  <2>1. bits = 0 .. n - 1
    BY <1>1 DEF IsComplete
  <2>2. tag' = "ComputeDelegations" /\ progress' = {} /\ delegations' = NoDelegations
    BY <1>1 DEF EndScoring
  <2> QED BY <2>1, <2>2 DEF Scored
<1>2. CASE ~IsComplete(bits, n)
  <2>1. tag' = "ComputeScores" /\ progress' = bits /\ delegations' = d
    BY <1>2 DEF EndScoring
  <2> QED BY <2>1 DEF Scored
<1> QED BY <1>1, <1>2

\* The first score of a cycle.
LEMMA ScoreAfterResetKeeps ==
  ASSUME ScoringInv, NEW i \in Indices, i < Len(owners), NEW score \in 0 .. MaxScore,
         tag = "ComputeScores", ScoreAfterReset(i, score), owners' = owners
  PROVE  /\ ScoringInv' /\ Scored' = {i} /\ delegations' = NoDelegations
         /\ scores' \in [Indices -> Int] /\ scores'[i] = score
<1>1. /\ MaxValidators \in Nat \ {0} /\ Indices = 0 .. MaxValidators - 1 /\ i \in Nat /\ score \in Int
      /\ sorted_score_indices \in [Indices -> Nat]
  BY PoolFacts, ScoringAssumption DEF ScoringInv, ArraysInv
<1>2. /\ owners \in Seq(Votes) /\ Len(owners) \in Nat /\ Len(owners) <= MaxValidators
      /\ \A j, k \in 1 .. Len(owners) : owners[j] = owners[k] => j = k
  BY DEF ScoringInv, PoolInv
<1>3. /\ num_pool_validators' = Len(owners) /\ validators_added' = 0
      /\ EndScoring({i}, Len(owners), NoDelegations)
  BY DEF ScoreAfterReset, CountPool
<1>4. /\ tag' \in {"ComputeScores", "ComputeDelegations"}
      /\ Scored' = {i} /\ progress' \subseteq 0 .. Len(owners) - 1
      /\ tag' # "ComputeScores" => progress' = {}
      /\ delegations' = NoDelegations
  <2>1. {i} \subseteq 0 .. Len(owners) - 1
    BY <1>1, <1>2
  <2> QED BY <1>2, <1>3, <2>1, ScoringEnds
<1>5. PoolInv'
  BY <1>2, <1>3 DEF PoolInv
<1>6. scores' \in [Indices -> Nat] /\ scores' \in [Indices -> Int] /\ scores'[i] = score
  <2>1. scores' = [j \in Indices |-> IF j = i THEN score ELSE 0]
    BY DEF ScoreAfterReset
  <2>2. score \in Nat
    BY ScoringAssumption
  <2> QED BY <1>1, <2>1, <2>2
<1>7. /\ sorted_score_indices' \in [Indices -> Nat]
      /\ Lists(sorted_score_indices', scores', {} \cup {i}, 0 + 1)
  <2>1. sorted_score_indices' = InsertSortedIndex(sorted_score_indices, scores', i, scores'[i], 0)
    BY <1>6 DEF ScoreAfterReset
  <2>2. Lists(sorted_score_indices, scores', {}, 0) /\ 0 \in 0 .. MaxValidators - 1
    BY <1>1 DEF Lists
  <2> DEFINE new == scores'
             g == InsertSortedIndex(sorted_score_indices, new, i, new[i], 0)
  <2>3. {} \in SUBSET Indices /\ i \notin {} /\ new \in [Indices -> Int] /\ Lists(sorted_score_indices, new, {}, 0)
    BY <1>6, <2>2
  <2> HIDE DEF new
  <2>4. g \in [Indices -> Nat]
    BY <1>1, <2>2, <2>3, InsertLists
  <2>5. Lists(g, new, {} \cup {i}, 0 + 1)
    BY <1>1, <2>2, <2>3, InsertLists
  <2> QED BY <2>1, <2>4, <2>5 DEF new
<1>8. Listed(sorted_score_indices', scores', {i})
  <2>1. IsFiniteSet({i}) /\ Cardinality({i}) = 1
    BY FS_Singleton
  <2>2. {} \cup {i} = {i} /\ 0 + 1 = 1
    OBVIOUS
  <2> QED BY <1>7, <2>1, <2>2 DEF Listed
<1>9. ArraysInv'
  BY <1>4, <1>6, <1>7 DEF ArraysInv, NoDelegations
<1>10. CycleInv'
  BY <1>3, <1>4 DEF CycleInv
<1>11. (Listed(sorted_score_indices, scores, Scored))'
  BY <1>4, <1>8
<1> QED BY <1>4, <1>5, <1>6, <1>9, <1>10, <1>11 DEF ScoringInv

\* A further one.
LEMMA ScoreInProgressKeeps ==
  ASSUME ScoringInv, NEW i \in Indices, i < num_pool_validators, NEW score \in 0 .. MaxScore,
         tag = "ComputeScores", progress # {}, ScoreInProgress(i, score), owners' = owners
  PROVE  /\ ScoringInv' /\ Scored' = progress \cup {i} /\ delegations' = delegations
         /\ i \in progress => scores' = scores
         /\ i \notin progress => scores' = [scores EXCEPT ![i] = score]
<1>1. /\ MaxValidators \in Nat \ {0} /\ Indices = 0 .. MaxValidators - 1 /\ i \in Nat /\ score \in Int
      /\ sorted_score_indices \in [Indices -> Nat] /\ scores \in [Indices -> Nat] /\ score \in Nat
      /\ num_pool_validators \in 0 .. MaxValidators /\ num_pool_validators \in Nat
      /\ progress \subseteq 0 .. num_pool_validators - 1
      /\ delegations = NoDelegations
  BY PoolFacts, ScoringAssumption DEF ScoringInv, ArraysInv, PoolInv, CycleInv
<1>2. num_pool_validators' = num_pool_validators /\ validators_added' = validators_added
  BY DEF ScoreInProgress, counts
<1>3. PoolInv'
  BY <1>2 DEF ScoringInv, PoolInv
<1>4. /\ tag' \in {"ComputeScores", "ComputeDelegations"}
      /\ Scored' = progress \cup {i} /\ progress' \subseteq 0 .. num_pool_validators - 1
      /\ tag' # "ComputeScores" => progress' = {}
      /\ delegations' = NoDelegations
  <2>1. progress \cup {i} \subseteq 0 .. num_pool_validators - 1
    BY <1>1
  <2>2. EndScoring(progress \cup {i}, num_pool_validators, delegations)
    BY DEF ScoreInProgress
  <2> QED BY <1>1, <1>2, <2>1, <2>2, ScoringEnds
<1>5. Scored = progress
  BY DEF Scored
<1>6. CASE i \in progress
  <2>1. scores' = scores /\ sorted_score_indices' = sorted_score_indices /\ progress \cup {i} = progress
    BY <1>6 DEF ScoreInProgress
  <2>2. ArraysInv'
    BY <1>1, <1>4, <2>1 DEF ArraysInv, NoDelegations
  <2>3. CycleInv'
    BY <1>2, <1>4 DEF CycleInv
  <2>4. (Listed(sorted_score_indices, scores, Scored))'
    BY <1>4, <1>5, <2>1 DEF ScoringInv
  <2> QED BY <1>1, <1>3, <1>4, <1>6, <2>1, <2>2, <2>3, <2>4 DEF ScoringInv
<1>7. CASE i \notin progress
  <2> DEFINE n == Cardinality(progress)
  <2>1. /\ scores' = [scores EXCEPT ![i] = score]
        /\ sorted_score_indices' = InsertSortedIndex(sorted_score_indices, scores', i, score, n)
    BY <1>7 DEF ScoreInProgress
  <2>2. /\ scores' \in [Indices -> Nat] /\ scores' \in [Indices -> Int] /\ scores'[i] = score
        /\ \A j \in progress : scores'[j] = scores[j]
    BY <1>1, <1>7, <2>1
  <2>3. n \in Nat /\ Lists(sorted_score_indices, scores, progress, n)
    BY <1>5, PoolFacts
  <2> HIDE DEF n
  <2>4. n \in 0 .. MaxValidators - 1
    <3>1. i \in (0 .. num_pool_validators - 1) \ progress
      BY <1>1, <1>7
    <3>2. n < num_pool_validators
      BY <1>1, <2>3, <3>1, ListsShort
    <3> QED BY <1>1, <2>3, <3>2
  <2>5. Lists(sorted_score_indices, scores', progress, n)
    <3>1. \A p \in 0 .. n - 1 : sorted_score_indices[p] \in progress
      BY <2>3 DEF Lists
    <3> QED BY <2>2, <2>3, <3>1 DEF Lists
  <2>6. progress \in SUBSET Indices
    BY <1>1
  <2>7. /\ sorted_score_indices' \in [Indices -> Nat]
        /\ Lists(sorted_score_indices', scores', progress \cup {i}, n + 1)
    <3> DEFINE new == scores'
               g == InsertSortedIndex(sorted_score_indices, new, i, new[i], n)
    <3>1. new \in [Indices -> Int] /\ Lists(sorted_score_indices, new, progress, n)
      BY <2>2, <2>5
    <3>2. sorted_score_indices' = g
      BY <2>1, <2>2
    <3> HIDE DEF new
    <3>3. g \in [Indices -> Nat]
      BY <1>1, <1>7, <2>4, <2>6, <3>1, InsertLists
    <3>4. Lists(g, new, progress \cup {i}, n + 1)
      BY <1>1, <1>7, <2>4, <2>6, <3>1, InsertLists
    <3> QED BY <3>2, <3>3, <3>4 DEF new
  <2>8. Listed(sorted_score_indices', scores', progress \cup {i})
    <3>1. n + 1 \in Nat
      BY <2>3
    <3>2. IsFiniteSet(progress \cup {i}) /\ Cardinality(progress \cup {i}) = n + 1
      BY <2>7, <3>1, ListsCount
    <3> QED BY <2>7, <3>2 DEF Listed
  <2>9. ArraysInv'
    BY <1>1, <1>4, <2>2, <2>7 DEF ArraysInv, NoDelegations
  <2>10. CycleInv'
    BY <1>2, <1>4 DEF CycleInv
  <2>11. (Listed(sorted_score_indices, scores, Scored))'
    BY <1>4, <2>8
  <2> QED BY <1>1, <1>3, <1>4, <1>7, <2>1, <2>9, <2>10, <2>11 DEF ScoringInv
<1> QED BY <1>6, <1>7

\* The list of owners without one.
Rest(own, index) == [k \in 1 .. Len(own) - 1 |-> IF k <= index THEN own[k] ELSE own[k + 1]]

\* Everybody else stays on it.
LEMMA OwnersShifted ==
  ASSUME NEW own \in Seq(Votes), NEW index \in Nat, index < Len(own),
         \A j, k \in 1 .. Len(own) : own[j] = own[k] => j = k,
         NEW o, o = Rest(own, index)
  PROVE  /\ o \in Seq(Votes) /\ Len(o) = Len(own) - 1
         /\ \A j, k \in 1 .. Len(o) : o[j] = o[k] => j = k
         /\ \A i \in (0 .. Len(own) - 1) \ {index} :
              Lower(i, index) \in 0 .. Len(o) - 1 /\ o[Lower(i, index) + 1] = own[i + 1]
<1> DEFINE n == Len(own)
<1>0. o = [k \in 1 .. n - 1 |-> IF k <= index THEN own[k] ELSE own[k + 1]]
  BY DEF Rest
<1>1. n \in Nat /\ \A k \in 1 .. n : own[k] \in Votes
  OBVIOUS
<1>2. \A j, k \in 1 .. n : own[j] = own[k] => j = k
  OBVIOUS
<1>3. index < n
  OBVIOUS
<1> HIDE DEF n
<1>4. \A k \in 1 .. n - 1 : o[k] \in Votes
  BY <1>0, <1>1
<1>5. n - 1 \in Nat
  BY <1>1, <1>3
<1>6. o \in Seq(Votes) /\ Len(o) = n - 1
  <2>1. o \in [1 .. n - 1 -> Votes]
    BY <1>0, <1>4
  <2> QED BY <1>5, <2>1
<1>7. ASSUME NEW j \in 1 .. n - 1, NEW k \in 1 .. n - 1, o[j] = o[k] PROVE j = k
  <2> DEFINE a == IF j <= index THEN j ELSE j + 1
             b == IF k <= index THEN k ELSE k + 1
  <2>1. a \in 1 .. n /\ b \in 1 .. n /\ own[a] = own[b]
    BY <1>0, <1>1, <1>3, <1>7
  <2>2. a = b
    BY <1>2, <2>1
  <2> QED BY <1>1, <2>2
<1>8. ASSUME NEW i \in (0 .. n - 1) \ {index}
      PROVE  Lower(i, index) \in 0 .. (n - 1) - 1 /\ o[Lower(i, index) + 1] = own[i + 1]
  BY <1>0, <1>1, <1>3 DEF Lower
<1>9. /\ \A j, k \in 1 .. Len(o) : o[j] = o[k] => j = k
      /\ \A i \in (0 .. n - 1) \ {index} : Lower(i, index) \in 0 .. Len(o) - 1 /\ o[Lower(i, index) + 1] = own[i + 1]
  BY <1>6, <1>7, <1>8
<1> QED BY <1>6, <1>9 DEF n

\* remove_validator, for the validators of the pool and the ones added to it.
LEMMA RemoveKeeps ==
  ASSUME ScoringInv, NEW index \in Indices, RemoveValidator(index)
  PROVE  /\ ScoringInv'
         /\ index \in 0 .. Len(owners) - 1
         /\ Scored' = Lowered(Scored, index)
<1> DEFINE m == num_pool_validators
           num == Left(m, index)
<1>1. /\ MaxValidators \in Nat \ {0} /\ Indices = 0 .. MaxValidators - 1
      /\ m \in 0 .. MaxValidators /\ m \in Nat /\ index \in Nat
      /\ Scored \in SUBSET (0 .. m - 1) /\ IsFiniteSet(Scored) /\ Cardinality(Scored) \in Nat
      /\ Lists(sorted_score_indices, scores, Scored, Cardinality(Scored))
  BY PoolFacts
<1>2. /\ validators_added \in Nat /\ owners \in Seq(Votes) /\ Len(owners) <= MaxValidators
      /\ Len(owners) = m + validators_added
      /\ \A j, k \in 1 .. Len(owners) : owners[j] = owners[k] => j = k
  BY DEF ScoringInv, PoolInv
<1>3. /\ num_pool_validators' = num
      /\ validators_added' = IF index < m THEN validators_added ELSE validators_added - 1
      /\ scores' = ShiftArray(scores, index, num, 0)
      /\ delegations' = ShiftArray(delegations, index, num, 0)
      /\ progress' = ShiftBits(progress, index, num)
      /\ sorted_score_indices' = ShiftSorted(sorted_score_indices, index, num)
      /\ owners' = Rest(owners, index)
      /\ tag' = tag
  BY DEF RemoveValidator, Left, Rest
<1>4. index < Len(owners)
  BY <1>2 DEF RemoveValidator, StateLength
<1>5. num = (IF index < m THEN m - 1 ELSE m) /\ num \in Nat /\ num \in Indices
  BY <1>1, <1>2, <1>4 DEF Left
<1> HIDE DEF m, num
<1>6. PoolInv'
  <2>1. /\ owners' \in Seq(Votes) /\ Len(owners') = Len(owners) - 1
        /\ \A j, k \in 1 .. Len(owners') : owners'[j] = owners'[k] => j = k
    <3> DEFINE rest == owners'
    <3>1. rest = Rest(owners, index)
      BY <1>3
    <3> HIDE DEF rest
    <3>2. rest \in Seq(Votes) /\ Len(rest) = Len(owners) - 1
      BY <1>1, <1>2, <1>4, <3>1, OwnersShifted
    <3>3. \A j, k \in 1 .. Len(rest) : rest[j] = rest[k] => j = k
      BY <1>1, <1>2, <1>4, <3>1, OwnersShifted
    <3> QED BY <3>2, <3>3 DEF rest
  <2>2. num_pool_validators' \in Nat /\ validators_added' \in Nat
    BY <1>1, <1>2, <1>3, <1>4, <1>5
  <2>3. Len(owners') = num_pool_validators' + validators_added' /\ Len(owners') <= MaxValidators
    BY <1>1, <1>2, <1>3, <1>4, <1>5, <2>1
  <2> QED BY <2>1, <2>2, <2>3 DEF PoolInv
<1>7. /\ scores' \in [Indices -> Nat] /\ delegations' \in [Indices -> Nat]
      /\ \A i \in Indices : i >= num => delegations'[i] = 0
      /\ delegations = NoDelegations => delegations' = NoDelegations
  <2>1. /\ scores \in [Indices -> Nat] /\ delegations \in [Indices -> Nat]
        /\ \A i \in Indices : i >= m => delegations[i] = 0
    BY DEF ScoringInv, ArraysInv, m
  <2>2. \A i \in Indices : index <= i /\ i < num => i + 1 \in Indices
    BY <1>1, <1>5
  <2>3. scores' \in [Indices -> Nat]
    BY <1>3, <2>1, <2>2 DEF ShiftArray
  <2>4. delegations' \in [Indices -> Nat]
    BY <1>3, <2>1, <2>2 DEF ShiftArray
  <2>5. ASSUME NEW i \in Indices, i >= num PROVE delegations'[i] = 0
    <3>1. i # num => ~(i < num) /\ i >= m
      BY <1>1, <1>5, <2>5
    <3> QED BY <1>3, <2>1, <3>1 DEF ShiftArray
  <2>6. delegations = NoDelegations => delegations' = NoDelegations
    BY <1>3, <2>2 DEF ShiftArray, NoDelegations
  <2> QED BY <2>3, <2>4, <2>5, <2>6
<1>8. /\ sorted_score_indices' \in [Indices -> Nat]
      /\ Lists(sorted_score_indices', scores', Lowered(Scored, index),
               IF index \in Scored THEN Cardinality(Scored) - 1 ELSE Cardinality(Scored))
  <2>1. sorted_score_indices \in [Indices -> Nat] /\ scores \in [Indices -> Int] /\ num = Left(m, index)
    BY DEF ScoringInv, ArraysInv, num
  <2>2. sorted_score_indices' \in [Indices -> Nat]
    BY <1>1, <1>3, <2>1, SortedShifted
  <2>3. Lists(sorted_score_indices', scores', Lowered(Scored, index),
              IF index \in Scored THEN Cardinality(Scored) - 1 ELSE Cardinality(Scored))
    BY <1>1, <1>3, <2>1, RemoveLists
  <2> QED BY <2>2, <2>3
<1>9. progress \in SUBSET (0 .. m - 1) /\ num = Left(m, index)
  BY DEF ScoringInv, CycleInv, m, num
<1>10. progress' = Lowered(progress, index) /\ progress' \subseteq 0 .. num - 1
  BY <1>1, <1>3, <1>9, BitsShifted
<1>11. Scored' = Lowered(Scored, index)
  <2>1. CASE tag = "ComputeScores"
    BY <1>3, <1>10, <2>1 DEF Scored
  <2>2. CASE tag = "ComputeDelegations"
    <3>1. Scored = 0 .. m - 1 /\ Scored' = 0 .. num - 1
      BY <1>3, <2>2 DEF Scored, m
    <3>2. Lowered(0 .. m - 1, index) \subseteq 0 .. num - 1
      BY <1>1, <1>5 DEF Lower, Lowered
    <3>3. ASSUME NEW j \in 0 .. num - 1 PROVE \E i \in (0 .. m - 1) \ {index} : Lower(i, index) = j
      <4>1. CASE j < index
        <5>1. j \in (0 .. m - 1) \ {index} /\ Lower(j, index) = j
          BY <1>1, <1>5, <4>1 DEF Lower
        <5> QED BY <5>1
      <4>2. CASE ~(j < index)
        <5>1. j + 1 \in (0 .. m - 1) \ {index} /\ Lower(j + 1, index) = j
          BY <1>1, <1>5, <4>2 DEF Lower
        <5> QED BY <5>1
      <4> QED BY <4>1, <4>2
    <3> QED BY <3>1, <3>2, <3>3 DEF Lowered
  <2>3. CASE tag \notin {"ComputeScores", "ComputeDelegations"}
    BY <1>3, <2>3 DEF Scored, Lowered
  <2> QED BY <2>1, <2>2, <2>3
<1>12. Listed(sorted_score_indices', scores', Scored')
  <2> DEFINE k == IF index \in Scored THEN Cardinality(Scored) - 1 ELSE Cardinality(Scored)
  <2>1. k \in Nat
    <3>1. index \in Scored => Cardinality(Scored) # 0
      BY <1>1, FS_EmptySet
    <3> QED BY <1>1, <3>1
  <2>2. Lists(sorted_score_indices', scores', Scored', k)
    BY <1>8, <1>11
  <2> HIDE DEF k
  <2>3. IsFiniteSet(Scored') /\ Cardinality(Scored') = k
    BY <2>1, <2>2, ListsCount
  <2> QED BY <2>2, <2>3 DEF Listed
<1>13. ArraysInv'
  BY <1>3, <1>7, <1>8 DEF ArraysInv
<1>14. CycleInv'
  <2>1. progress' # {} => progress # {}
    BY <1>10 DEF Lowered
  <2>2. /\ tag \in {"ComputeScores", "ComputeDelegations", "Other"}
        /\ tag # "ComputeScores" => progress = {}
        /\ (tag = "ComputeScores" /\ progress # {}) \/ tag = "ComputeDelegations" => delegations = NoDelegations
    BY DEF ScoringInv, CycleInv
  <2> QED BY <1>3, <1>7, <1>10, <2>1, <2>2 DEF CycleInv
<1>15. (Listed(sorted_score_indices, scores, Scored))'
  BY <1>12
<1>16. index \in 0 .. Len(owners) - 1
  BY <1>1, <1>2, <1>4
<1> QED BY <1>6, <1>11, <1>13, <1>14, <1>15, <1>16 DEF ScoringInv

\* Steps that leave the pool and the arrays alone, or only add to the list.
LEMMA QuietKeeps ==
  ASSUME ScoringInv, PoolInv', num_pool_validators' = num_pool_validators,
         scores' = scores, sorted_score_indices' = sorted_score_indices, delegations' = delegations,
         \/ tag' = tag /\ progress' = progress
         \/ tag' \in {"Other", "ComputeScores"} /\ progress' = {}
  PROVE  ScoringInv'
<1>1. ArraysInv'
  BY DEF ScoringInv, ArraysInv
<1>2. CycleInv'
  BY DEF ScoringInv, CycleInv
<1>3. Scored' = Scored \/ Scored' = {}
  BY DEF Scored
<1>4. (Listed(sorted_score_indices, scores, Scored))'
  BY <1>3, NothingListed DEF ScoringInv
<1> QED BY <1>1, <1>2, <1>4 DEF ScoringInv

\* Delegations are made from the listing of the pool.
LEMMA DelegationsKeep ==
  ASSUME ScoringInv, ComputeDelegations
  PROVE  /\ ScoringInv' /\ Scored' = {} /\ owners' = owners
         /\ NumSelected \in 0 .. num_pool_validators
         /\ Selected \subseteq 0 .. num_pool_validators - 1
         /\ delegations' = [i \in Indices |-> IF i \in Selected THEN NumSelected ELSE 0]
<1>1. /\ MaxValidators \in Nat \ {0} /\ Indices = 0 .. MaxValidators - 1 /\ NumDelegationValidators \in Nat \ {0}
      /\ num_pool_validators \in 0 .. MaxValidators /\ num_pool_validators \in Nat
      /\ sorted_score_indices \in [Indices -> Nat]
  BY PoolFacts, ScoringAssumption DEF ScoringInv, ArraysInv
<1>2. tag = "ComputeDelegations" /\ tag' = "Other" /\ progress' = progress
  BY DEF ComputeDelegations
<1>3. Scored' = {} /\ delegations = NoDelegations /\ progress = {}
  BY <1>2 DEF Scored, ScoringInv, CycleInv
<1>4. LastValidIndex \in Nat
  <2> DEFINE zeros == {p \in 0 .. num_pool_validators - 1 : scores[sorted_score_indices[p]] = 0}
  <2>1. zeros \in SUBSET Nat
    OBVIOUS
  <2>2. zeros # {} => Min(zeros) \in Nat
    BY <2>1, MinNatural
  <2> QED BY <1>1, <2>2 DEF LastValidIndex
<1>5. NumSelected \in 0 .. num_pool_validators
  BY <1>1, <1>4 DEF NumSelected, ComputeDelegations
<1>6. Selected \subseteq 0 .. num_pool_validators - 1
  <2> SUFFICES ASSUME NEW p \in 0 .. NumSelected - 1
               PROVE  sorted_score_indices[p] \in 0 .. num_pool_validators - 1
    BY DEF Selected
  <2>1. p \in 0 .. num_pool_validators - 1 /\ p \in Indices
    BY <1>1, <1>5
  <2>2. sorted_score_indices[p] < num_pool_validators /\ sorted_score_indices[p] \in Nat
    BY <1>1, <2>1 DEF ComputeDelegations, InRange
  <2> QED BY <1>1, <2>2
<1>7. delegations' = [i \in Indices |-> IF i \in Selected THEN NumSelected ELSE 0]
  BY <1>3 DEF ComputeDelegations, NoDelegations
<1>8. /\ num_pool_validators' = num_pool_validators /\ validators_added' = validators_added /\ owners' = owners
      /\ scores' = scores /\ sorted_score_indices' = sorted_score_indices
  BY DEF ComputeDelegations, counts
<1>9. PoolInv'
  BY <1>8 DEF ScoringInv, PoolInv
<1>10. ArraysInv'
  <2>1. delegations' \in [Indices -> Nat]
    BY <1>1, <1>5, <1>7
  <2>2. \A i \in Indices : i >= num_pool_validators => i \notin Selected
    BY <1>1, <1>6
  <2>3. \A i \in Indices : i >= num_pool_validators => delegations'[i] = 0
    BY <1>7, <2>2
  <2> QED BY <1>8, <2>1, <2>3 DEF ScoringInv, ArraysInv
<1>11. CycleInv'
  BY <1>2, <1>3 DEF CycleInv
<1>12. (Listed(sorted_score_indices, scores, Scored))'
  BY <1>3, NothingListed
<1> QED BY <1>3, <1>5, <1>6, <1>7, <1>8, <1>9, <1>10, <1>11, <1>12 DEF ScoringInv

\* The transition that is left to whoever comes next.
LEMMA TransitionKeeps ==
  ASSUME ScoringInv, TransitionComputeScores
  PROVE  ScoringInv' /\ Scored' = Scored /\ delegations' = delegations
<1>1. /\ tag = "ComputeScores" /\ IsComplete(progress, num_pool_validators)
      /\ EndScoring(progress, num_pool_validators, delegations)
      /\ num_pool_validators' = num_pool_validators /\ validators_added' = validators_added /\ owners' = owners
      /\ scores' = scores /\ sorted_score_indices' = sorted_score_indices
  BY DEF TransitionComputeScores, counts
<1>2. num_pool_validators \in Nat /\ progress \subseteq 0 .. num_pool_validators - 1
  BY DEF ScoringInv, PoolInv, CycleInv
<1>3. /\ tag' \in {"ComputeScores", "ComputeDelegations"} /\ Scored' = progress
      /\ progress' \subseteq 0 .. num_pool_validators - 1
      /\ tag' # "ComputeScores" => progress' = {} /\ delegations' = NoDelegations
      /\ tag' = "ComputeScores" => delegations' = delegations
  BY <1>1, <1>2, ScoringEnds
<1>4. Scored = progress
  BY <1>1 DEF Scored
<1>5. delegations = NoDelegations
  <2>1. CASE progress # {}
    BY <1>1, <2>1 DEF ScoringInv, CycleInv
  <2>2. CASE progress = {}
    <3>1. num_pool_validators = 0
      <4>1. ~(0 \in 0 .. num_pool_validators - 1)
        BY <1>1, <2>2 DEF IsComplete
      <4> QED BY <1>2, <4>1
    <3>2. \A i \in Indices : i >= 0
      BY ScoringAssumption DEF Indices
    <3> QED BY <3>1, <3>2 DEF ScoringInv, ArraysInv, NoDelegations
  <2> QED BY <2>1, <2>2
<1>6. delegations' = NoDelegations
  BY <1>3, <1>5
<1>7. PoolInv'
  BY <1>1 DEF ScoringInv, PoolInv
<1>8. ArraysInv'
  BY <1>1, <1>5, <1>6 DEF ScoringInv, ArraysInv
<1>9. CycleInv'
  BY <1>1, <1>3, <1>6 DEF CycleInv
<1>10. (Listed(sorted_score_indices, scores, Scored))'
  BY <1>1, <1>3, <1>4 DEF ScoringInv
<1> QED BY <1>3, <1>4, <1>5, <1>6, <1>7, <1>8, <1>9, <1>10 DEF ScoringInv

\* A validator joins the list.
LEMMA AddKeeps ==
  ASSUME ScoringInv, NEW v \in Votes, AddValidator(v)
  PROVE  ScoringInv'
<1>1. /\ owners \in Seq(Votes) /\ num_pool_validators \in Nat /\ validators_added \in Nat
      /\ Len(owners) = num_pool_validators + validators_added
      /\ \A j, k \in 1 .. Len(owners) : owners[j] = owners[k] => j = k
      /\ MaxValidators \in Nat
  BY ScoringAssumption DEF ScoringInv, PoolInv
<1>2. /\ owners' = Append(owners, v) /\ Len(owners) < MaxValidators
      /\ \A k \in 1 .. Len(owners) : owners[k] # v
      /\ validators_added' = validators_added + 1 /\ num_pool_validators' = num_pool_validators
      /\ tag' = tag /\ progress' = progress
      /\ scores' = scores /\ sorted_score_indices' = sorted_score_indices /\ delegations' = delegations
  BY DEF AddValidator, arrays
<1>3. /\ owners' \in Seq(Votes) /\ Len(owners') = Len(owners) + 1
      /\ \A k \in 1 .. Len(owners) : owners'[k] = owners[k]
      /\ owners'[Len(owners) + 1] = v
  BY <1>1, <1>2
<1>4. \A j, k \in 1 .. Len(owners') : owners'[j] = owners'[k] => j = k
  <2>1. \A j \in 1 .. Len(owners') : j \in 1 .. Len(owners) \/ j = Len(owners) + 1
    BY <1>1, <1>3
  <2> QED BY <1>1, <1>2, <1>3, <2>1
<1>5. PoolInv'
  BY <1>1, <1>2, <1>3, <1>4 DEF PoolInv
<1> QED BY <1>2, <1>5, QuietKeeps

\* Every step keeps the invariant.
LEMMA StepScoring == ScoringInv /\ [KeeperNext]_vars => ScoringInv'
<1> SUFFICES ASSUME ScoringInv, [KeeperNext]_vars PROVE ScoringInv'
  OBVIOUS
<1>0. ASSUME num_pool_validators' = num_pool_validators, validators_added' = validators_added, owners' = owners
      PROVE  PoolInv'
  BY <1>0 DEF ScoringInv, PoolInv
<1>1. ASSUME NEW i \in Indices, NEW score \in 0 .. MaxScore, NEW late \in BOOLEAN,
             i < num_pool_validators, ComputeScore(i, score, late)
      PROVE  ScoringInv'
  <2>1. i < Len(owners) /\ tag = "ComputeScores" /\ owners' = owners
    BY <1>1 DEF ComputeScore
  <2>2. CASE progress = {} \/ late
    <3>1. ScoreAfterReset(i, score)
      BY <1>1, <2>2 DEF ComputeScore
    <3> QED BY <2>1, <3>1, ScoreAfterResetKeeps
  <2>3. CASE ~(progress = {} \/ late)
    <3>1. ScoreInProgress(i, score) /\ progress # {}
      BY <1>1, <2>3 DEF ComputeScore
    <3> QED BY <1>1, <2>1, <3>1, ScoreInProgressKeeps
  <2> QED BY <2>2, <2>3
<1>2. CASE TransitionComputeScores
  BY <1>2, TransitionKeeps
<1>3. CASE ComputeDelegations
  BY <1>3, DelegationsKeep
<1>4. CASE TransitionIdle
  <2>1. /\ num_pool_validators' = num_pool_validators /\ validators_added' = validators_added /\ owners' = owners
        /\ scores' = scores /\ sorted_score_indices' = sorted_score_indices /\ delegations' = delegations
        /\ tag' \in {"Other", "ComputeScores"} /\ progress' = {}
    BY <1>4 DEF TransitionIdle, counts, arrays
  <2> QED BY <1>0, <2>1, QuietKeeps
<1>5. ASSUME NEW v \in Votes, AddValidator(v) PROVE ScoringInv'
  BY <1>5, AddKeeps
<1>6. ASSUME NEW i \in Indices, NEW immediate \in BOOLEAN, MarkForRemoval(i, immediate) PROVE ScoringInv'
  <2>1. /\ num_pool_validators' = num_pool_validators /\ validators_added' = validators_added /\ owners' = owners
        /\ scores' = scores /\ sorted_score_indices' = sorted_score_indices /\ delegations' = delegations
        /\ tag' = tag /\ progress' = progress
    BY <1>6 DEF MarkForRemoval, counts, arrays
  <2> QED BY <1>0, <2>1, QuietKeeps
<1>7. ASSUME NEW i \in Indices, InstantRemoveValidator(i) \/ EpochMaintenanceRemove(i) PROVE ScoringInv'
  <2>1. RemoveValidator(i)
    BY <1>7 DEF InstantRemoveValidator, EpochMaintenanceRemove
  <2> QED BY <2>1, RemoveKeeps
<1>8. CASE StartEpoch
  <2>1. /\ num_pool_validators' = num_pool_validators /\ validators_added' = validators_added /\ owners' = owners
        /\ scores' = scores /\ sorted_score_indices' = sorted_score_indices /\ delegations' = delegations
        /\ tag' \in {"Other", "ComputeScores"} /\ progress' = {}
    BY <1>8 DEF StartEpoch, counts, arrays
  <2> QED BY <1>0, <2>1, QuietKeeps
<1>9. CASE NextEpoch \/ UNCHANGED vars
  <2>1. /\ num_pool_validators' = num_pool_validators /\ validators_added' = validators_added /\ owners' = owners
        /\ scores' = scores /\ sorted_score_indices' = sorted_score_indices /\ delegations' = delegations
        /\ tag' = tag /\ progress' = progress
    BY <1>9 DEF NextEpoch, counts, arrays, vars
  <2> QED BY <1>0, <2>1, QuietKeeps
<1> QED BY <1>1, <1>2, <1>3, <1>4, <1>5, <1>6, <1>7, <1>8, <1>9 DEF KeeperNext, Others

\* The arrays of a scoring cycle keep their invariant, for every pool, whoever is scored,
\* added and removed in whatever order.
THEOREM ScoringKept == KeeperSpec => []ScoringInv
<1>1. Init => ScoringInv
  BY InitScoring
<1>2. ScoringInv /\ [KeeperNext]_vars => ScoringInv'
  BY StepScoring
<1> QED BY <1>1, <1>2, PTL DEF KeeperSpec

\* While a cycle is scored, the sorted indices list exactly the scored validators, best
\* first, whatever was left in the array by earlier cycles and whoever left in the meantime.
THEOREM SpecSortedDescending == KeeperSpec => []SortedDescending
<1>1. ScoringInv => SortedDescending
  <2> SUFFICES ASSUME ScoringInv PROVE SortedDescending
    OBVIOUS
  <2> DEFINE n == Cardinality(Scored)
  <2>1. Lists(sorted_score_indices, scores, Scored, n)
    BY PoolFacts
  <2> HIDE DEF n
  <2>2. {sorted_score_indices[p] : p \in 0 .. n - 1} = Scored
    BY <2>1 DEF Lists
  <2>3. \A p, q \in 0 .. n - 1 : p <= q => scores[sorted_score_indices[p]] >= scores[sorted_score_indices[q]]
    BY <2>1 DEF Lists
  <2> QED BY <2>2, <2>3 DEF SortedDescending, n
<1> QED BY <1>1, ScoringKept, PTL
-----------------------------------------------------------------------------
(* The refinement of DelegationCycle *)

\* The owners of a set of indices, and the array that is kept for them.
Names(own, S) == {own[i + 1] : i \in S}

Named(own, S, a) == [v \in Names(own, S) |-> a[CHOOSE i \in 0 .. Len(own) - 1 : own[i + 1] = v]]

\* Nobody is on the list twice.
Unique(own) == own \in Seq(Votes) /\ \A j, k \in 1 .. Len(own) : own[j] = own[k] => j = k

\* The indices with a delegation.
Delegated(own, d) == {j \in 0 .. Len(own) - 1 : d[j] > 0}

\* S is a set of indices of the list.
Within(S, own) == S \subseteq 0 .. Len(own) - 1

\* f is a function on D.
On(f, D) == f = [v \in D |-> f[v]]

\* f has what is kept in a at the indices of S, under the names of their owners.
Keeps(f, own, S, a) == On(f, Names(own, S)) /\ \A i \in S : f[own[i + 1]] = a[i]

\* Named does.
LEMMA NamedKeeps ==
  ASSUME NEW own, Unique(own), NEW S, Within(S, own), NEW a
  PROVE  Keeps(Named(own, S, a), own, S, a)
<1>0. S \in SUBSET (0 .. Len(own) - 1) /\ Len(own) \in Nat
  BY DEF Within, Unique
<1>1. ASSUME NEW i \in S PROVE Named(own, S, a)[own[i + 1]] = a[i]
  <2> DEFINE v == own[i + 1]
             c == CHOOSE k \in 0 .. Len(own) - 1 : own[k + 1] = v
  <2>1. v \in Names(own, S) /\ Named(own, S, a)[v] = a[c]
    BY DEF Names, Named
  <2>2. c \in 0 .. Len(own) - 1 /\ own[c + 1] = v
    BY <1>0
  <2> HIDE DEF c
  <2>3. c + 1 \in 1 .. Len(own) /\ i + 1 \in 1 .. Len(own) /\ own[c + 1] = own[i + 1]
    BY <1>0, <2>2
  <2>4. c + 1 = i + 1
    BY <2>3 DEF Unique
  <2>5. c = i
    BY <1>0, <2>2, <2>4
  <2> QED BY <2>1, <2>5
<1>2. On(Named(own, S, a), Names(own, S))
  BY DEF Named, On
<1> QED BY <1>1, <1>2 DEF Keeps

\* Nothing else does.
LEMMA KeepsOnce ==
  ASSUME NEW own, NEW S, NEW a, NEW f, Keeps(f, own, S, a), NEW g, Keeps(g, own, S, a)
  PROVE  f = g
<1>1. ASSUME NEW v \in Names(own, S) PROVE f[v] = g[v]
  <2>1. PICK i \in S : v = own[i + 1]
    BY DEF Names
  <2> QED BY <2>1 DEF Keeps
<1> QED BY <1>1 DEF Keeps, On

\* A removal takes the owner out and leaves the others what they have.
LEMMA NamedWithout ==
  ASSUME NEW m \in 0 .. MaxValidators, NEW own, Unique(own), m <= Len(own), NEW S \in SUBSET (0 .. m - 1),
         NEW index \in Indices, index < Len(own), NEW num, num = Left(m, index), NEW a, NEW default,
         NEW rest, rest = Rest(own, index)
  PROVE  Named(rest, Lowered(S, index), ShiftArray(a, index, num, default)) =
           Cycle!Without(Named(own, S, a), own[index + 1])
<1> DEFINE f == Cycle!Without(Named(own, S, a), own[index + 1])
           b == ShiftArray(a, index, num, default)
           T == Lowered(S, index)
<1>1. /\ MaxValidators \in Nat /\ m \in Nat /\ index \in Nat /\ own \in Seq(Votes) /\ Len(own) \in Nat
      /\ \A j, k \in 1 .. Len(own) : own[j] = own[k] => j = k
  BY ScoringAssumption DEF Indices, Unique
<1>2. /\ rest \in Seq(Votes) /\ Len(rest) = Len(own) - 1 /\ Unique(rest)
      /\ \A i \in (0 .. Len(own) - 1) \ {index} :
           Lower(i, index) \in 0 .. Len(rest) - 1 /\ rest[Lower(i, index) + 1] = own[i + 1]
  <2>1. rest \in Seq(Votes) /\ Len(rest) = Len(own) - 1
    BY <1>1, OwnersShifted
  <2>2. \A j, k \in 1 .. Len(rest) : rest[j] = rest[k] => j = k
    BY <1>1, OwnersShifted
  <2>3. \A i \in (0 .. Len(own) - 1) \ {index} :
          Lower(i, index) \in 0 .. Len(rest) - 1 /\ rest[Lower(i, index) + 1] = own[i + 1]
    BY <1>1, OwnersShifted
  <2> QED BY <2>1, <2>2, <2>3 DEF Unique
<1>3. S \subseteq 0 .. Len(own) - 1
  BY <1>1
<1>4. T \subseteq 0 .. Len(rest) - 1
  BY <1>2, <1>3 DEF Lowered
<1>5. DOMAIN Named(own, S, a) = Names(own, S)
  BY DEF Named
<1>6. Names(rest, T) = Names(own, S) \ {own[index + 1]}
  <2>1. ASSUME NEW i \in S \ {index} PROVE rest[Lower(i, index) + 1] = own[i + 1] /\ own[i + 1] # own[index + 1]
    <3>1. i + 1 \in 1 .. Len(own) /\ index + 1 \in 1 .. Len(own) /\ i + 1 # index + 1
      BY <1>1, <1>3
    <3> QED BY <1>1, <1>2, <1>3, <3>1
  <2>2. ASSUME NEW v \in Names(rest, T) PROVE v \in Names(own, S) \ {own[index + 1]}
    <3>1. PICK i \in S \ {index} : v = rest[Lower(i, index) + 1]
      BY DEF Names, Lowered
    <3> QED BY <2>1, <3>1 DEF Names
  <2>3. ASSUME NEW v \in Names(own, S) \ {own[index + 1]} PROVE v \in Names(rest, T)
    <3>1. PICK i \in S : v = own[i + 1]
      BY DEF Names
    <3>2. i # index
      BY <3>1
    <3>3. Lower(i, index) \in T /\ v = rest[Lower(i, index) + 1]
      BY <2>1, <3>1, <3>2 DEF Lowered
    <3> QED BY <3>3 DEF Names
  <2> QED BY <2>2, <2>3
<1>7. On(f, Names(rest, T)) /\ \A v \in Names(rest, T) : f[v] = Named(own, S, a)[v]
  BY <1>5, <1>6 DEF Cycle!Without, On
<1>8. Within(S, own) /\ Within(T, rest)
  BY <1>3, <1>4 DEF Within
<1>9. Keeps(Named(own, S, a), own, S, a)
  BY <1>8, NamedKeeps
<1>10. ASSUME NEW j \in T PROVE f[rest[j + 1]] = b[j]
  <2>1. PICK i \in S \ {index} : j = Lower(i, index)
    BY DEF Lowered
  <2>2. rest[j + 1] = own[i + 1] /\ rest[j + 1] \in Names(rest, T)
    BY <1>2, <1>3, <2>1 DEF Names
  <2>3. Named(own, S, a)[own[i + 1]] = a[i]
    BY <1>9, <2>1 DEF Keeps
  <2>4. i \in (0 .. m - 1) \ {index}
    OBVIOUS
  <2>5. b[Lower(i, index)] = a[i]
    BY <2>4, ArrayShifted
  <2> QED BY <1>7, <2>1, <2>2, <2>3, <2>5
<1> HIDE DEF f, b, T
<1>11. Keeps(f, rest, T, b) /\ Unique(rest)
  BY <1>2, <1>7, <1>10 DEF Keeps
<1>12. Keeps(Named(rest, T, b), rest, T, b)
  BY <1>8, <1>11, NamedKeeps
<1>13. Named(rest, T, b) = f
  BY <1>11, <1>12, KeepsOnce
<1> QED BY <1>13 DEF f, b, T

\* No index has nothing.
LEMMA NamedNobody ==
  ASSUME NEW own, NEW a
  PROVE  Named(own, {}, a) = Cycle!Nobody
BY DEF Named, Names, Cycle!Nobody

\* The variables of DelegationCycle.
ScoredOf == Named(owners, Scored, scores)
SharesOf == Named(owners, Delegated(owners, delegations), delegations)

\* What the invariant says of the list.
LEMMA ListFacts ==
  ASSUME ScoringInv
  PROVE  /\ Unique(owners) /\ Len(owners) \in Nat /\ num_pool_validators <= Len(owners)
         /\ Within(Scored, owners) /\ Within(Delegated(owners, delegations), owners)
         /\ Delegated(owners, delegations) \in SUBSET (0 .. num_pool_validators - 1)
         /\ Len(owners) <= MaxValidators
<1>1. /\ Unique(owners) /\ Len(owners) \in Nat /\ num_pool_validators <= Len(owners)
      /\ num_pool_validators \in Nat /\ Len(owners) <= MaxValidators
  BY DEF ScoringInv, PoolInv, Unique
<1>2. Within(Scored, owners)
  BY <1>1, PoolFacts DEF Within
<1>3. Within(Delegated(owners, delegations), owners)
  BY DEF Within, Delegated
<1>4. ASSUME NEW j \in Delegated(owners, delegations) PROVE j \in 0 .. num_pool_validators - 1
  <2>1. j \in 0 .. Len(owners) - 1 /\ delegations[j] > 0
    BY DEF Delegated
  <2>2. j \in Indices
    BY <1>1, <2>1, PoolFacts
  <2>3. ~(j >= num_pool_validators)
    BY <2>1, <2>2 DEF ScoringInv, ArraysInv
  <2> QED BY <1>1, <2>1, <2>3
<1> QED BY <1>1, <1>2, <1>3, <1>4

\* Without delegations there are no shares.
LEMMA NoShares ==
  ASSUME NEW own, NEW d, d = NoDelegations, Len(own) <= MaxValidators, Len(own) \in Nat
  PROVE  Delegated(own, d) = {} /\ Named(own, Delegated(own, d), d) = Cycle!Nobody
<1>1. \A j \in 0 .. Len(own) - 1 : j \in Indices
  BY ScoringAssumption DEF Indices
<1>2. Delegated(own, d) = {}
  BY <1>1 DEF Delegated, NoDelegations
<1> QED BY <1>2, NamedNobody

\* The first score opens a cycle.
LEMMA OpensCycle ==
  ASSUME ScoringInv, NEW i \in Indices, i < Len(owners), NEW score \in 0 .. MaxScore,
         tag = "ComputeScores", ScoreAfterReset(i, score), owners' = owners
  PROVE  Cycle!Next
<1> DEFINE v == owners[i + 1]
           f == [u \in {v} |-> score]
<1>1. /\ ScoringInv' /\ Scored' = {i} /\ delegations' = NoDelegations /\ scores'[i] = score
  BY ScoreAfterResetKeeps
<1>2. Unique(owners) /\ Len(owners) \in Nat /\ Len(owners) <= MaxValidators
  BY ListFacts
<1>3. SharesOf' = Cycle!Nobody
  <2> DEFINE d == delegations'
  <2>1. d = NoDelegations
    BY <1>1
  <2> HIDE DEF d
  <2>2. Named(owners, Delegated(owners, d), d) = Cycle!Nobody
    BY <1>2, <2>1, NoShares
  <2> QED BY <2>2 DEF SharesOf, d
<1>4. ScoredOf' = f
  <2> DEFINE a == scores'
  <2>1. Names(owners, {i}) = {v}
    BY DEF Names
  <2>2. a[i] = score
    BY <1>1
  <2> HIDE DEF a
  <2>3. Keeps(f, owners, {i}, a)
    BY <2>1, <2>2 DEF Keeps, On
  <2>4. Within({i}, owners)
    BY <1>2, ScoringAssumption DEF Within, Indices
  <2>5. Keeps(Named(owners, {i}, a), owners, {i}, a)
    BY <1>2, <2>4, NamedKeeps
  <2> HIDE DEF f
  <2>6. Named(owners, {i}, a) = f
    BY <2>3, <2>5, KeepsOnce
  <2> QED BY <1>1, <2>6 DEF ScoredOf, a
<1>5. v \in Votes
  BY <1>2, ScoringAssumption DEF Unique, Indices
<1>6. Cycle!Open(v, score)
  BY <1>3, <1>4 DEF Cycle!Open, ScoredOf, SharesOf, Named, Names, Delegated, Owner, IndexOf
<1> QED BY <1>5, <1>6 DEF Cycle!Next

\* A further score is one more of the cycle, or nothing new.
LEMMA ScoresOne ==
  ASSUME ScoringInv, NEW i \in Indices, i < num_pool_validators, NEW score \in 0 .. MaxScore,
         tag = "ComputeScores", progress # {}, ScoreInProgress(i, score), owners' = owners
  PROVE  Cycle!Next \/ (ScoredOf' = ScoredOf /\ SharesOf' = SharesOf)
<1>1. /\ ScoringInv' /\ Scored' = progress \cup {i} /\ delegations' = delegations
      /\ i \in progress => scores' = scores
      /\ i \notin progress => scores' = [scores EXCEPT ![i] = score]
  BY ScoreInProgressKeeps
<1>2. Scored = progress
  BY DEF Scored
<1>3. SharesOf' = SharesOf
  BY <1>1 DEF SharesOf
<1>4. CASE i \in progress
  <2>1. Scored' = Scored /\ scores' = scores
    BY <1>1, <1>2, <1>4
  <2> QED BY <1>3, <2>1 DEF ScoredOf
<1>5. CASE i \notin progress
  <2> DEFINE v == owners[i + 1]
             S == progress
             T == progress \cup {i}
             a == scores
             b == scores'
             f == [u \in Names(owners, S) \cup {v} |-> IF u = v THEN score ELSE Named(owners, S, a)[u]]
  <2>1. Unique(owners) /\ Len(owners) \in Nat /\ num_pool_validators <= Len(owners) /\ Within(S, owners)
        /\ num_pool_validators \in Nat
    BY <1>2, ListFacts, PoolFacts
  <2>2. i \in 0 .. Len(owners) - 1 /\ i \in Nat
    BY <2>1, PoolFacts
  <2>3. Within(T, owners)
    BY <2>1, <2>2 DEF Within
  <2>4. Keeps(Named(owners, S, a), owners, S, a)
    BY <2>1, NamedKeeps
  <2>5. Keeps(Named(owners, T, b), owners, T, b)
    <3> HIDE DEF b
    <3> QED BY <2>1, <2>3, NamedKeeps
  <2>6. b[i] = score /\ \A j \in S : b[j] = a[j]
    <3>1. scores \in [Indices -> Nat]
      BY DEF ScoringInv, ArraysInv
    <3>2. b = [scores EXCEPT ![i] = score]
      BY <1>1, <1>5
    <3>3. \A j \in S : j \in Indices /\ j # i
      BY <1>2, <1>5, PoolFacts
    <3> HIDE DEF b
    <3> QED BY <3>1, <3>2, <3>3
  <2>7. ASSUME NEW j \in S PROVE owners[j + 1] # v
    <3>1. j \in 0 .. Len(owners) - 1 /\ j # i
      BY <1>5, <2>1, <2>7 DEF Within
    <3>2. j + 1 \in 1 .. Len(owners) /\ i + 1 \in 1 .. Len(owners) /\ j + 1 # i + 1
      BY <2>1, <2>2, <3>1
    <3> QED BY <2>1, <3>2 DEF Unique
  <2>8. Names(owners, T) = Names(owners, S) \cup {v}
    BY DEF Names
  <2>9. ASSUME NEW j \in T PROVE f[owners[j + 1]] = b[j]
    <3>1. CASE j = i
      BY <2>6, <3>1
    <3>2. CASE j \in S
      <4>1. owners[j + 1] # v /\ owners[j + 1] \in Names(owners, S)
        BY <2>7, <3>2 DEF Names
      <4>2. Named(owners, S, a)[owners[j + 1]] = a[j]
        BY <2>4, <3>2 DEF Keeps
      <4> QED BY <2>6, <3>2, <4>1, <4>2
    <3> QED BY <3>1, <3>2
  <2>10. On(f, Names(owners, T))
    BY <2>8 DEF On
  <2>11. DOMAIN Named(owners, S, a) = Names(owners, S)
    BY DEF Named
  <2>12. v \notin Names(owners, S)
    BY <2>7 DEF Names
  <2>13. v \in Votes
    <3>1. i + 1 \in 1 .. Len(owners)
      BY <2>1, <2>2
    <3> QED BY <2>1, <3>1 DEF Unique
  <2> HIDE DEF b
  <2>14. Keeps(f, owners, T, b)
    BY <2>9, <2>10 DEF Keeps
  <2>15. Named(owners, T, b) = f
    <3> HIDE DEF f, T
    <3> QED BY <2>5, <2>14, KeepsOnce
  <2>16. ScoredOf' = [u \in DOMAIN ScoredOf \cup {v} |-> IF u = v THEN score ELSE ScoredOf[u]]
    BY <1>1, <1>2, <2>11, <2>15 DEF ScoredOf, b
  <2>17. v \notin DOMAIN ScoredOf
    BY <1>2, <2>11, <2>12 DEF ScoredOf
  <2> HIDE DEF v
  <2>18. Cycle!Score(v, score)
    BY <1>3, <2>16, <2>17 DEF Cycle!Score, ScoredOf, SharesOf, Named, Names, Delegated, Owner, IndexOf
  <2> QED BY <2>13, <2>18 DEF Cycle!Next, v
<1> QED BY <1>4, <1>5

\* The owners of the indices at the first k places.
Front(own, sorted, k) == Names(own, {sorted[p] : p \in 0 .. k - 1})

\* The k in D have the scores at the first k places, the others on f those behind.
Splits(D, f, sorted, scs, k, n) ==
  /\ IsFiniteSet(D) /\ Cardinality(D) = k
  /\ D \subseteq DOMAIN f
  /\ \A d \in D : \E p \in 0 .. k - 1 : f[d] = scs[sorted[p]]
  /\ \A u \in DOMAIN f \ D : \E q \in k .. n - 1 : f[u] = scs[sorted[q]]

\* The owners at the first k places of a listing of the pool are k, and the
\* others are behind them.
LEMMA FrontIsBest ==
  ASSUME NEW own, Unique(own), NEW n \in Nat, n <= Len(own), NEW sorted, NEW scs \in [Indices -> Nat],
         n <= MaxValidators, Lists(sorted, scs, 0 .. n - 1, n), NEW k \in 0 .. n,
         NEW f, Keeps(f, own, 0 .. n - 1, scs)
  PROVE  Splits(Front(own, sorted, k), f, sorted, scs, k, n)
<1> DEFINE D == Front(own, sorted, k)
           at == [p \in 0 .. n - 1 |-> own[sorted[p] + 1]]
           none == [v \in D |-> 0]
<1>1. Len(own) \in Nat /\ DOMAIN f = Names(own, 0 .. n - 1)
  BY DEF Unique, Keeps, On
<1>2. \A p \in 0 .. n - 1 : sorted[p] \in 0 .. n - 1 /\ f[own[sorted[p] + 1]] = scs[sorted[p]]
  BY DEF Lists, Keeps
<1>3. \A p \in 0 .. k - 1 : p \in 0 .. n - 1
  OBVIOUS
<1>4. Lists(at, none, D, k)
  <2>1. ASSUME NEW p \in 0 .. k - 1 PROVE at[p] \in D
    <3>1. at[p] = own[sorted[p] + 1]
      BY <1>3
    <3> QED BY <3>1 DEF Front, Names
  <2>2. ASSUME NEW v \in D PROVE \E p \in 0 .. k - 1 : at[p] = v
    <3>1. PICK p \in 0 .. k - 1 : v = own[sorted[p] + 1]
      BY DEF Front, Names
    <3> QED BY <1>3, <3>1
  <2>3. ASSUME NEW p \in 0 .. k - 1, NEW q \in 0 .. k - 1, at[p] = at[q] PROVE p = q
    <3>1. p \in 0 .. n - 1 /\ q \in 0 .. n - 1
      BY <1>3
    <3>2. own[sorted[p] + 1] = own[sorted[q] + 1]
      BY <2>3, <3>1
    <3>3. sorted[p] \in 0 .. n - 1 /\ sorted[q] \in 0 .. n - 1
      BY <1>2, <3>1
    <3>4. sorted[p] + 1 \in 1 .. Len(own) /\ sorted[q] + 1 \in 1 .. Len(own)
      <4>1. \A i \in 0 .. n - 1 : i + 1 \in 1 .. Len(own)
        BY <1>1
      <4> QED BY <3>3, <4>1
    <3>5. sorted[p] + 1 = sorted[q] + 1
      BY <3>2, <3>4 DEF Unique
    <3>6. sorted[p] = sorted[q]
      BY <3>3, <3>5
    <3> QED BY <3>1, <3>6 DEF Lists
  <2> HIDE DEF at
  <2>4. \A p \in 0 .. k - 1 : none[at[p]] = 0
    BY <2>1
  <2> HIDE DEF D, none
  <2>5. \A p, q \in 0 .. k - 1 : p <= q => none[at[p]] >= none[at[q]]
    BY <2>4
  <2> QED BY <2>1, <2>2, <2>3, <2>5, Zenon DEF Lists
<1>5. IsFiniteSet(D) /\ Cardinality(D) = k
  <2> HIDE DEF D, at, none
  <2>1. k \in Nat
    OBVIOUS
  <2> QED BY <1>4, <2>1, ListsCount
<1>6. ASSUME NEW d \in D PROVE d \in DOMAIN f /\ \E p \in 0 .. k - 1 : f[d] = scs[sorted[p]]
  <2>1. PICK p \in 0 .. k - 1 : d = own[sorted[p] + 1]
    BY DEF Front, Names
  <2>2. sorted[p] \in 0 .. n - 1 /\ f[d] = scs[sorted[p]]
    BY <1>2, <1>3, <2>1
  <2> QED BY <1>1, <2>1, <2>2 DEF Names
<1>7. ASSUME NEW u \in DOMAIN f \ D PROVE \E q \in k .. n - 1 : f[u] = scs[sorted[q]]
  <2>1. PICK i \in 0 .. n - 1 : u = own[i + 1]
    BY <1>1 DEF Names
  <2>2. PICK q \in 0 .. n - 1 : sorted[q] = i
    BY DEF Lists
  <2>3. ~(q \in 0 .. k - 1)
    BY <2>1, <2>2 DEF Front, Names
  <2>4. q \in k .. n - 1
    BY <2>3
  <2> QED BY <1>2, <2>1, <2>2, <2>4
<1> HIDE DEF D
<1>8. D \subseteq DOMAIN f
  BY <1>6
<1> QED BY <1>5, <1>6, <1>7, <1>8 DEF D, Splits

\* Everybody selected has a score, and everybody with one is, unless the selection is full.
LEMMA SelectedFirst ==
  ASSUME ScoringInv, ComputeDelegations
  PROVE  /\ \A p \in 0 .. NumSelected - 1 : scores[sorted_score_indices[p]] > 0
         /\ \/ NumSelected = NumDelegationValidators
            \/ /\ NumSelected < NumDelegationValidators
               /\ \A q \in NumSelected .. num_pool_validators - 1 : scores[sorted_score_indices[q]] = 0
<1> DEFINE n == num_pool_validators
           at(p) == scores[sorted_score_indices[p]]
           zeros == {p \in 0 .. n - 1 : at(p) = 0}
<1>1. /\ n \in Nat /\ NumSelected \in 0 .. n /\ NumDelegationValidators \in Nat \ {0}
      /\ MaxValidators \in Nat /\ n <= MaxValidators /\ Indices = 0 .. MaxValidators - 1
  BY PoolFacts, DelegationsKeep, ScoringAssumption
<1>2. tag = "ComputeDelegations" /\ Scored = 0 .. n - 1
  BY DEF ComputeDelegations, Scored
<1>3. Cardinality(Scored) = n
  BY <1>1, <1>2, FS_Interval
<1>4. Lists(sorted_score_indices, scores, 0 .. n - 1, n)
  BY <1>2, <1>3, PoolFacts
<1>5. \A p \in 0 .. n - 1 : at(p) \in Nat
  <2>1. scores \in [Indices -> Nat]
    BY DEF ScoringInv, ArraysInv
  <2>2. \A p \in 0 .. n - 1 : sorted_score_indices[p] \in 0 .. n - 1
    BY <1>4 DEF Lists
  <2> QED BY <1>1, <2>1, <2>2
<1>6. \A p, q \in 0 .. n - 1 : p <= q => at(p) >= at(q)
  BY <1>4 DEF Lists
<1>7. LastValidIndex = IF zeros = {} THEN NumDelegationValidators ELSE Min(zeros)
  BY DEF LastValidIndex
<1>8. CASE zeros = {}
  <2>1. NumSelected = NumDelegationValidators
    BY <1>1, <1>7, <1>8 DEF NumSelected
  <2>2. \A p \in 0 .. n - 1 : at(p) > 0
    <3> HIDE DEF at
    <3> QED BY <1>5, <1>8
  <2> QED BY <1>1, <2>1, <2>2
<1>9. CASE zeros # {}
  <2> DEFINE z == Min(zeros)
  <2>1. zeros \subseteq Nat
    OBVIOUS
  <2>2. z \in zeros /\ \A y \in zeros : z <= y
    <3> HIDE DEF zeros
    <3> QED BY <1>9, <2>1, MinNatural
  <2>3. LastValidIndex = z
    BY <1>7, <1>9
  <2> HIDE DEF z, at
  <2>4. z \in 0 .. n - 1 /\ at(z) = 0
    BY <2>2
  <2>5. ASSUME NEW p \in 0 .. n - 1, p < z PROVE at(p) > 0
    <3>1. p \notin zeros
      BY <2>2, <2>4, <2>5
    <3> QED BY <1>5, <3>1
  <2>6. ASSUME NEW q \in 0 .. n - 1, q >= z PROVE at(q) = 0
    <3>1. at(z) >= at(q) /\ at(q) \in Nat
      BY <1>5, <1>6, <2>4, <2>6
    <3> QED BY <2>4, <3>1
  <2> HIDE DEF zeros
  <2>7. NumSelected = IF z < NumDelegationValidators THEN z ELSE NumDelegationValidators
    BY <2>3 DEF NumSelected
  <2>8. \A p \in 0 .. NumSelected - 1 : at(p) > 0
    BY <1>1, <2>4, <2>5, <2>7
  <2>9. NumSelected # NumDelegationValidators =>
          /\ NumSelected < NumDelegationValidators
          /\ \A q \in NumSelected .. n - 1 : at(q) = 0
    BY <1>1, <2>4, <2>6, <2>7
  <2> QED BY <2>8, <2>9 DEF at
<1> QED BY <1>8, <1>9

\* The selection is a best choice of the cycle's.
LEMMA Delegates ==
  ASSUME ScoringInv, ComputeDelegations
  PROVE  Cycle!Next
<1> DEFINE n == num_pool_validators
           k == NumSelected
           D == Front(owners, sorted_score_indices, k)
           f == ScoredOf
           at(p) == scores[sorted_score_indices[p]]
<1>1. /\ n \in Nat /\ k \in 0 .. n /\ NumDelegationValidators \in Nat \ {0}
      /\ MaxValidators \in Nat /\ n <= MaxValidators /\ Indices = 0 .. MaxValidators - 1
  BY PoolFacts, DelegationsKeep, ScoringAssumption
<1>2. tag = "ComputeDelegations" /\ Scored = 0 .. n - 1
  BY DEF ComputeDelegations, Scored
<1>3. Cardinality(Scored) = n
  BY <1>1, <1>2, FS_Interval
<1>4. Lists(sorted_score_indices, scores, 0 .. n - 1, n) /\ scores \in [Indices -> Nat]
  BY <1>2, <1>3, PoolFacts DEF ScoringInv, ArraysInv
<1>5. /\ Unique(owners) /\ Len(owners) \in Nat /\ n <= Len(owners) /\ Len(owners) <= MaxValidators
      /\ Within(Scored, owners)
  BY ListFacts
<1>6. Keeps(f, owners, 0 .. n - 1, scores)
  BY <1>2, <1>5, NamedKeeps DEF ScoredOf
<1>7. /\ IsFiniteSet(D) /\ Cardinality(D) = k
      /\ D \subseteq DOMAIN f
      /\ \A d \in D : \E p \in 0 .. k - 1 : f[d] = at(p)
      /\ \A u \in DOMAIN f \ D : \E q \in k .. n - 1 : f[u] = at(q)
  <2> HIDE DEF n, k, f
  <2>1. Splits(D, f, sorted_score_indices, scores, k, n)
    BY <1>1, <1>4, <1>5, <1>6, FrontIsBest
  <2> QED BY <2>1 DEF Splits
<1>8. /\ \A p \in 0 .. k - 1 : at(p) > 0
      /\ k = NumDelegationValidators
         \/ (k < NumDelegationValidators /\ \A q \in k .. n - 1 : at(q) = 0)
  BY SelectedFirst
<1>9. \A p \in 0 .. n - 1 : at(p) \in Nat
  <2>1. \A p \in 0 .. n - 1 : sorted_score_indices[p] \in 0 .. n - 1
    BY <1>4 DEF Lists
  <2> QED BY <1>1, <1>4, <2>1
<1>10. \A p, q \in 0 .. n - 1 : p <= q => at(p) >= at(q)
  BY <1>4 DEF Lists
<1>11. (\A p \in 0 .. k - 1 : p \in 0 .. n - 1) /\ (\A q \in k .. n - 1 : q \in 0 .. n - 1)
  BY <1>1
<1>12. /\ D \subseteq {v \in DOMAIN f : f[v] > 0}
       /\ \/ D = {v \in DOMAIN f : f[v] > 0} /\ Cardinality(D) <= NumDelegationValidators
          \/ Cardinality(D) = NumDelegationValidators
       /\ \A d \in D, u \in DOMAIN f \ D : f[u] <= f[d]
  <2> HIDE DEF n, k, f, D, at
  <2>1. \A d \in D : f[d] > 0
    BY <1>7, <1>8
  <2>2. ASSUME NEW d \in D, NEW u \in DOMAIN f \ D PROVE f[u] <= f[d]
    <3>1. PICK p \in 0 .. k - 1 : f[d] = at(p)
      BY <1>7
    <3>2. PICK q \in k .. n - 1 : f[u] = at(q)
      BY <1>7
    <3>3. p \in 0 .. n - 1 /\ q \in 0 .. n - 1 /\ p <= q
      BY <1>1, <1>11
    <3>4. at(p) >= at(q) /\ at(p) \in Nat /\ at(q) \in Nat
      BY <1>9, <1>10, <3>3
    <3> QED BY <3>1, <3>2, <3>4
  <2>3. CASE k = NumDelegationValidators
    BY <1>7, <2>1, <2>2, <2>3
  <2>4. CASE k # NumDelegationValidators
    <3>1. \A u \in DOMAIN f \ D : f[u] = 0
      BY <1>7, <1>8, <2>4
    <3>2. D = {v \in DOMAIN f : f[v] > 0}
      BY <1>7, <2>1, <3>1
    <3>3. Cardinality(D) <= NumDelegationValidators
      BY <1>1, <1>7, <1>8, <2>4
    <3> QED BY <2>2, <3>2, <3>3
  <2> QED BY <2>3, <2>4
<1>13. SharesOf = Cycle!Nobody
  <2>1. delegations = NoDelegations
    BY <1>2 DEF ScoringInv, CycleInv
  <2> QED BY <1>5, <2>1, NoShares DEF SharesOf
<1>14. ScoredOf' = Cycle!Nobody
  <2>1. Scored' = {}
    BY DelegationsKeep
  <2> DEFINE a == scores'
             o == owners'
  <2>2. ScoredOf' = Named(o, {}, a)
    BY <2>1 DEF ScoredOf
  <2> HIDE DEF a, o
  <2> QED BY <2>2, NamedNobody
<1>15. SharesOf' = [d \in D |-> Cardinality(D)]
  <2> DEFINE b == delegations'
             S == Delegated(owners, b)
             g == [d \in D |-> k]
  <2>1. owners' = owners /\ b = [i \in Indices |-> IF i \in Selected THEN k ELSE 0] /\ Selected \subseteq 0 .. n - 1
    BY DelegationsKeep
  <2> HIDE DEF b, n, k
  <2>2. ASSUME NEW i \in Selected PROVE k > 0
    <3>1. PICK p \in 0 .. k - 1 : i = sorted_score_indices[p]
      BY DEF Selected, k
    <3> QED BY <1>1
  <2>3. S = Selected
    <3>1. \A i \in 0 .. Len(owners) - 1 : i \in Indices
      BY <1>1, <1>5
    <3>2. \A i \in Selected : i \in 0 .. Len(owners) - 1
      BY <1>1, <1>5, <2>1
    <3>3. \A i \in Selected : b[i] > 0
      BY <1>1, <2>1, <2>2, <3>1, <3>2
    <3>4. \A i \in Indices : b[i] > 0 => i \in Selected
      BY <2>1
    <3> QED BY <3>1, <3>2, <3>3, <3>4 DEF Delegated
  <2>4. D = Names(owners, S)
    BY <2>3 DEF Front, Selected, k
  <2>5. \A i \in S : b[i] = k
    <3>1. \A i \in Selected : i \in Indices
      BY <1>1, <2>1
    <3> HIDE DEF S
    <3> QED BY <2>1, <2>3, <3>1
  <2> HIDE DEF S
  <2>6. Within(S, owners)
    BY DEF Within, Delegated, S
  <2>7. \A i \in S : owners[i + 1] \in D
    BY <2>4 DEF Names
  <2> HIDE DEF D
  <2>8. Keeps(g, owners, S, b)
    <3>1. On(g, Names(owners, S))
      BY <2>4 DEF On
    <3>2. \A i \in S : g[owners[i + 1]] = b[i]
      BY <2>5, <2>7
    <3> QED BY <3>1, <3>2 DEF Keeps
  <2>9. Keeps(Named(owners, S, b), owners, S, b)
    BY <1>5, <2>6, NamedKeeps
  <2> HIDE DEF g
  <2>10. Named(owners, S, b) = g
    BY <2>8, <2>9, KeepsOnce
  <2>11. SharesOf' = Named(owners, S, b)
    BY <2>1 DEF SharesOf, S, b
  <2> QED BY <1>7, <2>10, <2>11 DEF g
<1> HIDE DEF D
<1>16. D \in SUBSET DOMAIN ScoredOf
  BY <1>7
<1>17. Cycle!Cardinality(D) = Cardinality(D)
  BY DEF Cycle!Cardinality, Cardinality
<1>18. Cycle!Best(D)
  BY <1>12, <1>17 DEF Cycle!Best, f, ScoredOf, Named, Names, Owner, IndexOf
<1>19. Cycle!Delegate
  BY <1>13, <1>14, <1>15, <1>16, <1>17, <1>18, ZenonT(60) DEF Cycle!Delegate, ScoredOf, SharesOf, Named, Names, Delegated, Owner, IndexOf
<1> QED BY <1>19 DEF Cycle!Next

\* The delegations of those who stay follow them.
LEMMA DelegatedShifted ==
  ASSUME NEW own, Unique(own), Len(own) <= MaxValidators, NEW m \in Nat, m <= Len(own),
         NEW index \in Indices, index < Len(own), NEW num, num = Left(m, index),
         NEW rest, rest = Rest(own, index), NEW d \in [Indices -> Nat],
         \A i \in Indices : i >= m => d[i] = 0,
         NEW b, b = ShiftArray(d, index, num, 0)
  PROVE  Delegated(rest, b) = Lowered(Delegated(own, d), index)
<1>1. /\ MaxValidators \in Nat /\ Indices = 0 .. MaxValidators - 1 /\ index \in Nat /\ own \in Seq(Votes)
      /\ Len(own) \in Nat /\ m \in 0 .. MaxValidators
      /\ num = (IF index < m THEN m - 1 ELSE m) /\ num \in Nat
      /\ \A j, k \in 1 .. Len(own) : own[j] = own[k] => j = k
  BY ScoringAssumption DEF Indices, Unique, Left
<1>2. /\ Len(rest) = Len(own) - 1
      /\ \A i \in (0 .. Len(own) - 1) \ {index} : Lower(i, index) \in 0 .. Len(rest) - 1
  BY <1>1, OwnersShifted
<1>3. ASSUME NEW i \in Delegated(own, d), i # index PROVE Lower(i, index) \in Delegated(rest, b)
  <2>1. i \in 0 .. Len(own) - 1 /\ d[i] > 0 /\ i \in Indices
    BY <1>1 DEF Delegated
  <2>2. i \in (0 .. m - 1) \ {index}
    <3>1. ~(i >= m)
      BY <2>1
    <3> QED BY <1>1, <1>3, <2>1, <3>1
  <2>3. b[Lower(i, index)] = d[i]
    <3>1. m \in 0 .. MaxValidators
      BY <1>1
    <3>2. ShiftArray(d, index, num, 0)[Lower(i, index)] = d[i]
      BY <2>2, <3>1, ArrayShifted
    <3> QED BY <3>2
  <2>4. Lower(i, index) \in 0 .. Len(rest) - 1
    BY <1>2, <1>3, <2>1
  <2> QED BY <2>1, <2>3, <2>4 DEF Delegated
<1>4. ASSUME NEW j \in Delegated(rest, b) PROVE \E i \in Delegated(own, d) \ {index} : Lower(i, index) = j
  <2>1. j \in 0 .. Len(rest) - 1 /\ b[j] > 0
    BY DEF Delegated
  <2>2. j \in Indices /\ j \in Nat /\ j < Len(own) - 1
    BY <1>1, <1>2, <2>1
  <2>3. b[j] = IF j = num THEN 0 ELSE IF index <= j /\ j < num THEN d[j + 1] ELSE d[j]
    BY <2>2 DEF ShiftArray
  <2>4. j < num
    <3>1. j # num
      BY <2>1, <2>3
    <3>2. j > num => d[j] = 0
      BY <1>1, <2>2
    <3> QED BY <1>1, <2>1, <2>2, <2>3, <3>1, <3>2
  <2>5. CASE j < index
    <3>1. j \in 0 .. Len(own) - 1 /\ j # index /\ Lower(j, index) = j
      BY <1>1, <2>2, <2>5 DEF Lower
    <3>2. d[j] > 0
      BY <1>1, <2>1, <2>2, <2>3, <2>4, <2>5
    <3> QED BY <3>1, <3>2 DEF Delegated
  <2>6. CASE ~(j < index)
    <3>1. j + 1 \in 0 .. Len(own) - 1 /\ j + 1 # index /\ Lower(j + 1, index) = j
      BY <1>1, <2>2, <2>6 DEF Lower
    <3>2. d[j + 1] > 0
      BY <1>1, <2>1, <2>2, <2>3, <2>4, <2>6
    <3> QED BY <3>1, <3>2 DEF Delegated
  <2> QED BY <2>5, <2>6
<1> QED BY <1>3, <1>4 DEF Lowered

\* Whoever is removed leaves the cycle.
LEMMA Leaves ==
  ASSUME ScoringInv, NEW index \in Indices, RemoveValidator(index)
  PROVE  Cycle!Next
<1> DEFINE m == num_pool_validators
           num == Left(m, index)
           v == owners[index + 1]
           rest == owners'
           a == scores'
           b == delegations'
           D == Delegated(owners, delegations)
<1>1. /\ MaxValidators \in Nat \ {0} /\ Indices = 0 .. MaxValidators - 1
      /\ m \in 0 .. MaxValidators /\ m \in Nat /\ index \in Nat
      /\ Scored \in SUBSET (0 .. m - 1)
  BY PoolFacts
<1>2. /\ Unique(owners) /\ Len(owners) \in Nat /\ m <= Len(owners) /\ Len(owners) <= MaxValidators
      /\ D \in SUBSET (0 .. m - 1)
  BY ListFacts
<1>3. /\ a = ShiftArray(scores, index, num, 0)
      /\ b = ShiftArray(delegations, index, num, 0)
      /\ rest = Rest(owners, index)
  BY DEF RemoveValidator, Left, Rest
<1>4. index < Len(owners) /\ Scored' = Lowered(Scored, index)
  BY <1>1, <1>2, RemoveKeeps
<1>5. delegations \in [Indices -> Nat] /\ \A i \in Indices : i >= m => delegations[i] = 0
  BY DEF ScoringInv, ArraysInv
<1> HIDE DEF rest, a, b, D
<1>6. Delegated(rest, b) = Lowered(D, index)
  <2> HIDE DEF m
  <2> QED BY <1>1, <1>2, <1>3, <1>4, <1>5, DelegatedShifted DEF D
<1>7. Named(rest, Lowered(Scored, index), a) = Cycle!Without(Named(owners, Scored, scores), v)
  <2> HIDE DEF m
  <2> QED BY <1>1, <1>2, <1>3, <1>4, NamedWithout
<1>8. Named(rest, Lowered(D, index), b) = Cycle!Without(Named(owners, D, delegations), v)
  <2> HIDE DEF m
  <2> QED BY <1>1, <1>2, <1>3, <1>4, NamedWithout
<1>9. ScoredOf' = Cycle!Without(ScoredOf, v)
  BY <1>4, <1>7 DEF ScoredOf, rest, a
<1>10. SharesOf' = Cycle!Without(SharesOf, v)
  <2>1. SharesOf' = Named(rest, Delegated(rest, b), b)
    BY DEF SharesOf, rest, b
  <2> QED BY <1>6, <1>8, <2>1 DEF SharesOf, D
<1>11. v \in Votes
  <2>1. index + 1 \in 1 .. Len(owners)
    BY <1>1, <1>2, <1>4
  <2> QED BY <1>2, <2>1 DEF Unique
<1> HIDE DEF v
<1>12. PICK u \in Votes : u = v
  BY <1>11
<1>13. Cycle!Leave(u)
  BY <1>9, <1>10, <1>12 DEF Cycle!Leave, Cycle!Without, ScoredOf, SharesOf, Named, Names, Delegated, Owner, IndexOf
<1> QED BY <1>13 DEF Cycle!Next

\* What neither scores nor names nor delegations see leaves the cycle as it is.
LEMMA Stutters ==
  ASSUME Scored' = Scored, scores' = scores, delegations' = delegations, owners' = owners
  PROVE  ScoredOf' = ScoredOf /\ SharesOf' = SharesOf
BY DEF ScoredOf, SharesOf

\* Somebody new on the list has neither a score nor a delegation.
LEMMA AddStutters ==
  ASSUME ScoringInv, NEW v \in Votes, AddValidator(v)
  PROVE  ScoredOf' = ScoredOf /\ SharesOf' = SharesOf
<1> DEFINE more == owners'
           D == Delegated(owners, delegations)
<1>1. /\ owners' = Append(owners, v) /\ Len(owners) < MaxValidators
      /\ tag' = tag /\ progress' = progress /\ num_pool_validators' = num_pool_validators
      /\ scores' = scores /\ delegations' = delegations
  BY DEF AddValidator, arrays
<1>2. /\ Unique(owners) /\ Len(owners) \in Nat /\ num_pool_validators <= Len(owners)
      /\ Within(Scored, owners) /\ Within(D, owners) /\ owners \in Seq(Votes)
      /\ num_pool_validators \in Nat
  BY ListFacts, PoolFacts DEF Unique
<1>3. ScoringInv'
  BY AddKeeps
<1>4. Unique(more)
  BY <1>3 DEF ScoringInv, PoolInv, Unique
<1>5. Len(more) = Len(owners) + 1 /\ \A i \in 0 .. Len(owners) - 1 : more[i + 1] = owners[i + 1]
  BY <1>1, <1>2
<1>6. Scored' = Scored
  BY <1>1 DEF Scored
<1> HIDE DEF more
<1>7. Delegated(more, delegations) = D
  <2>1. delegations[Len(owners)] = 0
    <3>1. Len(owners) \in Indices /\ Len(owners) >= num_pool_validators
      BY <1>1, <1>2, ScoringAssumption DEF Indices
    <3> QED BY <3>1 DEF ScoringInv, ArraysInv
  <2>2. \A j \in 0 .. Len(more) - 1 : j \in 0 .. Len(owners) - 1 \/ j = Len(owners)
    BY <1>2, <1>5
  <2>3. \A j \in 0 .. Len(owners) - 1 : j \in 0 .. Len(more) - 1
    BY <1>2, <1>5
  <2> QED BY <2>1, <2>2, <2>3 DEF Delegated
<1> HIDE DEF D
<1>8. ASSUME NEW S, Within(S, owners), NEW a PROVE Named(more, S, a) = Named(owners, S, a)
  <2>1. \A i \in S : i \in 0 .. Len(owners) - 1
    BY <1>8 DEF Within
  <2>2. \A i \in S : more[i + 1] = owners[i + 1]
    BY <1>5, <2>1
  <2>3. Names(more, S) = Names(owners, S)
    BY <2>2 DEF Names
  <2>4. Within(S, more)
    BY <1>2, <1>5, <2>1 DEF Within
  <2>5. Keeps(Named(owners, S, a), owners, S, a)
    BY <1>2, <1>8, NamedKeeps
  <2>6. Keeps(Named(owners, S, a), more, S, a)
    BY <2>2, <2>3, <2>5 DEF Keeps
  <2>7. Keeps(Named(more, S, a), more, S, a)
    BY <1>4, <2>4, NamedKeeps
  <2> QED BY <2>6, <2>7, KeepsOnce
<1>9. Named(more, Scored, scores) = Named(owners, Scored, scores)
  BY <1>2, <1>8
<1>10. Named(more, D, delegations) = Named(owners, D, delegations)
  BY <1>2, <1>8
<1>11. ScoredOf' = ScoredOf
  BY <1>1, <1>6, <1>9 DEF ScoredOf, more
<1>12. SharesOf' = SharesOf
  <2>1. SharesOf' = Named(more, Delegated(more, delegations), delegations)
    BY <1>1 DEF SharesOf, more
  <2> QED BY <1>7, <1>10, <2>1 DEF SharesOf, D
<1> QED BY <1>11, <1>12

\* A cycle that the epoch's end interrupts.
LEMMA Abandons ==
  ASSUME StartEpoch
  PROVE  Cycle!Next
<1>1. tag' = "Other" /\ progress' = {} /\ scores' = scores /\ delegations' = delegations /\ owners' = owners
  BY DEF StartEpoch, arrays
<1>2. Scored' = {}
  BY <1>1 DEF Scored
<1>3. ScoredOf' = Named(owners, {}, scores)
  BY <1>1, <1>2 DEF ScoredOf
<1>4. ScoredOf' = Cycle!Nobody
  BY <1>3, NamedNobody
<1>5. SharesOf' = SharesOf
  BY <1>1 DEF SharesOf
<1>6. Cycle!Abandon
  BY <1>4, <1>5 DEF Cycle!Abandon, ScoredOf, SharesOf, Named, Names, Delegated, Owner, IndexOf
<1> QED BY <1>6 DEF Cycle!Next

\* Every step is a step of the cycle, or none that it sees.
LEMMA StepOfCycle == ScoringInv /\ [KeeperNext]_vars => [Cycle!Next]_(Cycle!vars)
<1> SUFFICES ASSUME ScoringInv, [KeeperNext]_vars PROVE [Cycle!Next]_(Cycle!vars)
  OBVIOUS
<1>0. ASSUME ScoredOf' = ScoredOf, SharesOf' = SharesOf PROVE UNCHANGED Cycle!vars
  BY <1>0 DEF Cycle!vars, ScoredOf, SharesOf, Named, Names, Delegated, Owner, IndexOf
<1>1. ASSUME NEW i \in Indices, NEW score \in 0 .. MaxScore, NEW late \in BOOLEAN,
             i < num_pool_validators, ComputeScore(i, score, late)
      PROVE  Cycle!Next \/ (ScoredOf' = ScoredOf /\ SharesOf' = SharesOf)
  <2>1. i < Len(owners) /\ tag = "ComputeScores" /\ owners' = owners
    BY <1>1 DEF ComputeScore
  <2>2. CASE progress = {} \/ late
    <3>1. ScoreAfterReset(i, score)
      BY <1>1, <2>2 DEF ComputeScore
    <3> QED BY <2>1, <3>1, OpensCycle
  <2>3. CASE ~(progress = {} \/ late)
    <3>1. ScoreInProgress(i, score) /\ progress # {}
      BY <1>1, <2>3 DEF ComputeScore
    <3> QED BY <1>1, <2>1, <3>1, ScoresOne
  <2> QED BY <2>2, <2>3
<1>2. CASE TransitionComputeScores
  <2>1. Scored' = Scored /\ delegations' = delegations
    BY <1>2, TransitionKeeps
  <2>2. scores' = scores /\ owners' = owners
    BY <1>2 DEF TransitionComputeScores
  <2> QED BY <1>0, <2>1, <2>2, Stutters
<1>3. CASE ComputeDelegations
  BY <1>3, Delegates
<1>4. CASE TransitionIdle
  <2>1. scores' = scores /\ owners' = owners /\ delegations' = delegations
        /\ tag = "Other" /\ tag' \in {"Other", "ComputeScores"} /\ progress' = {}
    BY <1>4 DEF TransitionIdle, arrays
  <2>2. Scored' = Scored
    BY <2>1 DEF Scored
  <2> QED BY <1>0, <2>1, <2>2, Stutters
<1>5. ASSUME NEW v \in Votes, AddValidator(v) PROVE UNCHANGED Cycle!vars
  BY <1>0, <1>5, AddStutters
<1>6. ASSUME NEW i \in Indices, NEW immediate \in BOOLEAN, MarkForRemoval(i, immediate)
      PROVE  UNCHANGED Cycle!vars
  <2>1. scores' = scores /\ owners' = owners /\ delegations' = delegations
        /\ tag' = tag /\ progress' = progress /\ num_pool_validators' = num_pool_validators
    BY <1>6 DEF MarkForRemoval, counts, arrays
  <2>2. Scored' = Scored
    BY <2>1 DEF Scored
  <2> QED BY <1>0, <2>1, <2>2, Stutters
<1>7. ASSUME NEW i \in Indices, InstantRemoveValidator(i) \/ EpochMaintenanceRemove(i) PROVE Cycle!Next
  <2>1. RemoveValidator(i)
    BY <1>7 DEF InstantRemoveValidator, EpochMaintenanceRemove
  <2> QED BY <2>1, Leaves
<1>8. CASE StartEpoch
  BY <1>8, Abandons
<1>9. CASE NextEpoch \/ UNCHANGED vars
  <2>1. scores' = scores /\ owners' = owners /\ delegations' = delegations
        /\ tag' = tag /\ progress' = progress /\ num_pool_validators' = num_pool_validators
    BY <1>9 DEF NextEpoch, counts, arrays, vars
  <2>2. Scored' = Scored
    BY <2>1 DEF Scored
  <2> QED BY <1>0, <2>1, <2>2, Stutters
<1> QED BY <1>0, <1>1, <1>2, <1>3, <1>4, <1>5, <1>6, <1>7, <1>8, <1>9 DEF KeeperNext, Others

\* The arrays implement DelegationCycle: the delegations made are an equal share to each of
\* the best validators scored in the cycle, they follow the validators when indices shift,
\* and they only go away with the next cycle or with their validator.
THEOREM SpecImplementsCycle == KeeperSpec => ImplementsCycle
<1>1. ASSUME Init PROVE Cycle!Init
  <2>1. /\ tag = "Other" /\ delegations = NoDelegations /\ owners = InitialPool
    BY <1>1 DEF Init
  <2>2. Scored = {}
    BY <2>1 DEF Scored
  <2>3. ScoredOf = Cycle!Nobody
    BY <2>2, NamedNobody DEF ScoredOf
  <2>4. Len(owners) \in Nat /\ Len(owners) <= MaxValidators
    BY <2>1, ScoringAssumption
  <2>5. SharesOf = Cycle!Nobody
    BY <2>1, <2>4, NoShares DEF SharesOf
  <2> QED BY <2>3, <2>5 DEF Cycle!Init, ScoredOf, SharesOf, Named, Names, Delegated, Owner, IndexOf
<1>2. ScoringInv /\ [KeeperNext]_vars => [Cycle!Next]_(Cycle!vars)
  BY StepOfCycle
<1> QED BY <1>1, <1>2, ScoringKept, PTL DEF KeeperSpec, ImplementsCycle, Cycle!Spec
=============================================================================
