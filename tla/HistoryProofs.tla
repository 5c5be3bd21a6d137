---------------------------- MODULE HistoryProofs ----------------------------
(***************************************************************************)
(* The history accounts and what the steward concludes from them, for      *)
(* every size of the buffers, every bound of the clock and every order of  *)
(* the instructions.                                                       *)
(*                                                                         *)
(* The argument goes from the ring buffer outwards: the binary search      *)
(* finds the place of an epoch, so insert keeps the ring in order (Ring),  *)
(* so does every setter, so epoch_range finds what is held; with the       *)
(* entries' facts about their own epochs and the gossip in order this is   *)
(* the invariant HistoryInv, from which the properties of the accounts and *)
(* of their readers follow. CreditsInv adds what the copies of the vote    *)
(* account leave: the credits of the epochs that it remembers, and an age  *)
(* that counts them. BlocksInv is the invariant of the cluster's account   *)
(* on its own, in the setups without a validator's too: the words of the   *)
(* bit vector add up to the blocks of the epoch, and later slots leave the *)
(* count alone.                                                            *)
(***************************************************************************)
EXTENDS ValidatorScore, WellOrder
-----------------------------------------------------------------------------
(* The binary search of find_insert_position *)

\* The middle of two bounds.
Mid(l, r) == (l + r) \div 2

\* The equation of the binary search, on the pairs of bounds.
Halves(f, n, epochs, e) ==
  \A l, r \in 0 .. n :
    f[<<l, r>>] = IF l >= r THEN l
                  ELSE IF epochs[Mid(l, r)] < e THEN f[<<Mid(l, r) + 1, r>>]
                                                ELSE f[<<l, Mid(l, r)>>]

\* The place that a search between l and r is for.
FirstNotBelow(m, l, r, epochs, e) ==
  /\ m \in l .. r
  /\ \A i \in l .. m - 1 : epochs[i] < e
  /\ m < r => ~(epochs[m] < e)

\* The middle of two bounds is between them.
LEMMA MidBetween ==
  ASSUME NEW l \in Nat, NEW r \in Nat, l < r
  PROVE  Mid(l, r) \in l .. r - 1
BY DEF Mid

\* What satisfies the equation finds the place, if the epochs rise.
LEMMA SearchFinds ==
  ASSUME NEW n \in Nat, NEW epochs, NEW e, NEW f, Halves(f, n, epochs, e),
         \A i, j \in 0 .. n - 1 : i < j /\ epochs[j] < e => epochs[i] < e
  PROVE  \A l, r \in 0 .. n : l <= r => FirstNotBelow(f[<<l, r>>], l, r, epochs, e)
<1> DEFINE good(l, r) == FirstNotBelow(f[<<l, r>>], l, r, epochs, e)
           Bad == {d \in 0 .. n : \E l, r \in 0 .. n : l <= r /\ d = r - l /\ ~good(l, r)}
<1> HIDE DEF good
<1>1. SUFFICES ASSUME Bad # {} PROVE FALSE
  <2>1. ASSUME NEW l \in 0 .. n, NEW r \in 0 .. n, l <= r, ~good(l, r) PROVE r - l \in Bad
    BY <2>1
  <2> QED BY <1>1, <2>1 DEF good
<1>2. Bad \in SUBSET Nat
  OBVIOUS
<1>3. PICK d \in Bad : \A c \in Bad : d <= c
  BY <1>1, <1>2, MinNatural
<1>4. PICK l \in 0 .. n, r \in 0 .. n : l <= r /\ d = r - l /\ ~good(l, r)
  BY <1>3
<1>5. \A a, b \in 0 .. n : a <= b /\ b - a < r - l => good(a, b)
  <2>1. ASSUME NEW a \in 0 .. n, NEW b \in 0 .. n, a <= b, b - a < r - l, ~good(a, b)
        PROVE  b - a \in Bad
    BY <2>1
  <2>2. d \in Nat /\ d = r - l
    BY <1>2, <1>4
  <2> HIDE DEF Bad
  <2> QED BY <1>3, <2>1, <2>2
<1> HIDE DEF Bad
<1>6. l < r
  <2>1. SUFFICES ASSUME l = r PROVE FALSE
    BY <1>4
  <2>2. \A a, b \in 0 .. n : a >= b => f[<<a, b>>] = a
    BY DEF Halves
  <2>3. f[<<l, r>>] = l
    BY <2>1, <2>2
  <2> QED BY <1>4, <2>1, <2>3 DEF good, FirstNotBelow
<1> DEFINE m == Mid(l, r)
<1>7. m \in l .. r - 1 /\ m \in 0 .. n /\ m + 1 \in 0 .. n
  BY <1>6, MidBetween
<1>8. f[<<l, r>>] = IF epochs[m] < e THEN f[<<m + 1, r>>] ELSE f[<<l, m>>]
  BY <1>6 DEF Halves
<1> HIDE DEF m
<1>9. CASE epochs[m] < e
  <2>1. good(m + 1, r)
    BY <1>5, <1>7
  <2>2. f[<<l, r>>] = f[<<m + 1, r>>]
    BY <1>8, <1>9
  <2>3. \A i \in l .. m : epochs[i] < e
    BY <1>7, <1>9
  <2>4. good(l, r)
    BY <2>1, <2>2, <2>3, <1>7 DEF good, FirstNotBelow
  <2> QED BY <1>4, <2>4
<1>10. CASE ~(epochs[m] < e)
  <2>1. good(l, m)
    BY <1>5, <1>7
  <2>2. f[<<l, r>>] = f[<<l, m>>]
    BY <1>8, <1>10
  <2>3. good(l, r)
    BY <2>1, <2>2, <1>7, <1>10 DEF good, FirstNotBelow
  <2> QED BY <1>4, <2>3
<1> QED BY <1>9, <1>10

\* There is such a place.
LEMMA PlaceExists ==
  ASSUME NEW l \in Nat, NEW r \in Nat, l <= r, NEW epochs, NEW e
  PROVE  \E m : FirstNotBelow(m, l, r, epochs, e)
<1> DEFINE S == {m \in l .. r : m = r \/ ~(epochs[m] < e)}
<1>1. S \in SUBSET Nat /\ r \in S
  OBVIOUS
<1>2. PICK m \in S : \A i \in S : m <= i
  BY <1>1, MinNatural
<1>3. ASSUME NEW i \in l .. m - 1 PROVE epochs[i] < e
  <2>1. i \notin S /\ i \in l .. r
    BY <1>1, <1>2
  <2> QED BY <2>1
<1> QED BY <1>2, <1>3 DEF FirstNotBelow

\* There is only one.
LEMMA PlaceUnique ==
  ASSUME NEW l \in Nat, NEW r \in Nat, NEW epochs, NEW e, NEW m, NEW k,
         FirstNotBelow(m, l, r, epochs, e), FirstNotBelow(k, l, r, epochs, e)
  PROVE  m = k
BY DEF FirstNotBelow

\* The pairs of bounds of a search in n places.
Bounds(n) == (0 .. n) \X (0 .. n)

\* A function that follows the binary search's equation.
Halving(n, epochs, e) ==
  CHOOSE find : find = [p \in Bounds(n) |->
    IF p[1] >= p[2] THEN p[1]
    ELSE IF epochs[Mid(p[1], p[2])] < e THEN find[<<Mid(p[1], p[2]) + 1, p[2]>>]
                                        ELSE find[<<p[1], Mid(p[1], p[2])>>]]

\* The search is a function that satisfies its equation, if the epochs rise: the one
\* to the place that is searched for does.
LEMMA HalvingHalves ==
  ASSUME NEW n \in Nat, NEW epochs, NEW e,
         \A i, j \in 0 .. n - 1 : i < j /\ epochs[j] < e => epochs[i] < e
  PROVE  Halves(Halving(n, epochs, e), n, epochs, e)
<1> DEFINE step(f, p) == IF p[1] >= p[2] THEN p[1]
                         ELSE IF epochs[Mid(p[1], p[2])] < e
                              THEN f[<<Mid(p[1], p[2]) + 1, p[2]>>]
                              ELSE f[<<p[1], Mid(p[1], p[2])>>]
           place(p) == CHOOSE m : FirstNotBelow(m, p[1], p[2], epochs, e)
           g == [p \in Bounds(n) |-> IF p[1] >= p[2] THEN p[1] ELSE place(p)]
<1>0. ASSUME NEW l \in 0 .. n, NEW r \in 0 .. n
      PROVE  /\ <<l, r>> \in Bounds(n)
             /\ l >= r => g[<<l, r>>] = l
             /\ l < r => g[<<l, r>>] = CHOOSE m : FirstNotBelow(m, l, r, epochs, e)
  BY DEF Bounds
<1>1. ASSUME NEW l \in 0 .. n, NEW r \in 0 .. n, l <= r
      PROVE  FirstNotBelow(g[<<l, r>>], l, r, epochs, e)
  <2> HIDE DEF g
  <2>2. CASE l = r
    <3>1. g[<<l, r>>] = l
      BY <1>0, <2>2
    <3> QED BY <2>2, <3>1 DEF FirstNotBelow
  <2>3. CASE l < r
    <3>1. g[<<l, r>>] = CHOOSE m : FirstNotBelow(m, l, r, epochs, e)
      BY <1>0, <2>3
    <3> QED BY <1>1, <3>1, PlaceExists
  <2> QED BY <1>1, <2>2, <2>3
<1>2. ASSUME NEW p \in Bounds(n) PROVE g[p] = step(g, p)
  <2> HIDE DEF g
  <2>1. PICK l \in 0 .. n, r \in 0 .. n : p = <<l, r>>
    BY DEF Bounds
  <2> DEFINE m == Mid(l, r)
  <2>2. CASE l >= r
    BY <1>0, <2>1, <2>2
  <2>3. CASE l < r
    <3>0. m \in l .. r - 1 /\ m \in 0 .. n /\ m + 1 \in 0 .. n
      BY <2>1, <2>3, MidBetween
    <3>1. FirstNotBelow(g[<<l, r>>], l, r, epochs, e)
      BY <1>1, <2>3
    <3>2. CASE epochs[m] < e
      <4>2. step(g, p) = g[<<m + 1, r>>]
        BY <2>1, <2>3, <3>2
      <4> HIDE DEF m, step
      <4>1. FirstNotBelow(g[<<m + 1, r>>], m + 1, r, epochs, e)
        BY <1>1, <3>0
      <4>3. \A i \in l .. m : epochs[i] < e
        BY <3>0, <3>2
      <4>4. FirstNotBelow(g[<<m + 1, r>>], l, r, epochs, e)
        BY <3>0, <4>1, <4>3 DEF FirstNotBelow
      <4>5. g[<<l, r>>] = g[<<m + 1, r>>]
        <5> DEFINE a == g[<<l, r>>]
                   b == g[<<m + 1, r>>]
        <5>1. FirstNotBelow(a, l, r, epochs, e) /\ FirstNotBelow(b, l, r, epochs, e)
          BY <3>1, <4>4
        <5> HIDE DEF a, b
        <5>2. a = b
          BY <5>1, PlaceUnique
        <5> QED BY <5>2 DEF a, b
      <4> QED BY <2>1, <4>2, <4>5 DEF step
    <3>3. CASE ~(epochs[m] < e)
      <4>2. step(g, p) = g[<<l, m>>]
        BY <2>1, <2>3, <3>3
      <4> HIDE DEF m, step
      <4>1. FirstNotBelow(g[<<l, m>>], l, m, epochs, e)
        BY <1>1, <3>0
      <4>4. FirstNotBelow(g[<<l, m>>], l, r, epochs, e)
        BY <3>0, <3>3, <4>1 DEF FirstNotBelow
      <4>5. g[<<l, r>>] = g[<<l, m>>]
        <5> DEFINE a == g[<<l, r>>]
                   b == g[<<l, m>>]
        <5>1. FirstNotBelow(a, l, r, epochs, e) /\ FirstNotBelow(b, l, r, epochs, e)
          BY <3>1, <4>4
        <5> HIDE DEF a, b
        <5>2. a = b
          BY <5>1, PlaceUnique
        <5> QED BY <5>2 DEF a, b
      <4> QED BY <2>1, <4>2, <4>5 DEF step
    <3> QED BY <3>2, <3>3
  <2> QED BY <2>2, <2>3
<1>3. g = [p \in Bounds(n) |-> step(g, p)]
  <2> DEFINE H(p) == IF p[1] >= p[2] THEN p[1] ELSE place(p)
  <2>1. \A p \in Bounds(n) : H(p) = step(g, p)
    <3>1. \A p \in Bounds(n) : g[p] = H(p)
      BY DEF g
    <3> HIDE DEF g, H, step
    <3> QED BY <1>2, <3>1
  <2> HIDE DEF H, step
  <2>2. g = [p \in Bounds(n) |-> H(p)]
    BY DEF H
  <2> QED BY <2>1, <2>2
<1> DEFINE f == Halving(n, epochs, e)
<1>4. f = [p \in Bounds(n) |-> step(f, p)]
  <2> HIDE DEF g
  <2> QED BY <1>3 DEF Halving
<1> HIDE DEF f
<1>5. \A l, r \in 0 .. n : <<l, r>> \in Bounds(n) /\ f[<<l, r>>] = step(f, <<l, r>>)
  BY <1>4 DEF Bounds
<1>6. Halves(f, n, epochs, e)
  BY <1>5 DEF Halves
<1> QED BY <1>6 DEF f

\* What find_insert_position searches for it finds.
LEMMA SearchPlace ==
  ASSUME NEW n \in Nat, NEW epochs, NEW e,
         \A i, j \in 0 .. n - 1 : i < j /\ epochs[j] < e => epochs[i] < e
  PROVE  FirstNotBelow(Search(epochs, e, n), 0, n, epochs, e)
<1>1. Search(epochs, e, n) = Halving(n, epochs, e)[<<0, n>>]
  BY DEF Search, Halving, Bounds, Mid
<1> HIDE DEF Halving
<1>2. Halves(Halving(n, epochs, e), n, epochs, e)
  BY HalvingHalves
<1>3. \A l, r \in 0 .. n : l <= r => FirstNotBelow(Halving(n, epochs, e)[<<l, r>>], l, r, epochs, e)
  BY <1>2, SearchFinds
<1> QED BY <1>1, <1>3

-----------------------------------------------------------------------------
(* Places in the ring buffer *)

\* The c-th entry from the oldest one is at this place.
At(i, c) == IF i + 1 + c < MaxItems THEN i + 1 + c ELSE i + 1 + c - MaxItems

\* Places wrap around once.
LEMMA ModOnce ==
  ASSUME NEW n \in Nat \ {0}, NEW x \in 0 .. 2 * n - 1
  PROVE  x % n = IF x < n THEN x ELSE x - n
OBVIOUS

\* Arithmetic of the places: they wrap around once, and each is the c-th from the oldest
\* for one c.
LEMMA Places ==
  /\ MaxItems \in Nat /\ MaxItems > 1 /\ MaxEpoch \in Nat /\ NoEpoch = MaxEpoch + 1
  /\ \A i, c \in Positions : (i + 1 + c) % MaxItems = At(i, c) /\ At(i, c) \in Positions
  /\ \A i \in Positions : (i + 1) % MaxItems = At(i, 0) /\ At(i, MaxItems - 1) = i
  /\ \A i, c, d \in Positions : At(i, c) = At(i, d) => c = d
  /\ \A i, k \in Positions : \E c \in Positions : At(i, c) = k
<1>1. MaxItems \in Nat /\ MaxItems > 1 /\ MaxEpoch \in Nat /\ NoEpoch = MaxEpoch + 1
  BY HistoryAssumption DEF NoEpoch
<1>2. \A x \in 0 .. 2 * MaxItems - 1 : x % MaxItems = IF x < MaxItems THEN x ELSE x - MaxItems
  <2>1. MaxItems \in Nat \ {0}
    BY <1>1
  <2> QED BY <2>1, ModOnce
<1>3. \A i, c \in Positions : (i + 1 + c) % MaxItems = At(i, c) /\ At(i, c) \in Positions
  BY <1>1, <1>2 DEF Positions, At
<1>4. \A i \in Positions : (i + 1) % MaxItems = At(i, 0) /\ At(i, MaxItems - 1) = i
  BY <1>1, <1>2 DEF Positions, At
<1>5. \A i, c, d \in Positions : At(i, c) = At(i, d) => c = d
  BY <1>1 DEF Positions, At
<1>6. ASSUME NEW i \in Positions, NEW k \in Positions PROVE \E c \in Positions : At(i, c) = k
  <2>1. CASE k > i
    <3>1. k - i - 1 \in Positions /\ At(i, k - i - 1) = k
      BY <1>1, <2>1 DEF Positions, At
    <3> QED BY <3>1
  <2>2. CASE k <= i
    <3>1. k + MaxItems - i - 1 \in Positions /\ At(i, k + MaxItems - i - 1) = k
      BY <1>1, <2>2 DEF Positions, At
    <3> QED BY <3>1
  <2> QED BY <1>1, <2>1, <2>2 DEF Positions
<1> QED BY <1>1, <1>3, <1>4, <1>5, <1>6

\* A ring buffer and the epochs in it.
IsRing(h) ==
  /\ {"arr", "idx", "is_empty"} \subseteq DOMAIN h /\ h = [f \in DOMAIN h |-> h[f]]
  /\ h.idx \in Positions /\ h.is_empty \in BOOLEAN
  /\ h.arr = [k \in Positions |-> h.arr[k]]
  /\ \A k \in Positions : h.arr[k].epoch \in 0 .. NoEpoch

\* From the oldest place on the epochs rise, behind the unused entries.
Rising(h) ==
  \A a, b \in Positions :
    a < b /\ h.arr[At(h.idx, a)].epoch # NoEpoch =>
      /\ h.arr[At(h.idx, b)].epoch # NoEpoch
      /\ h.arr[At(h.idx, a)].epoch < h.arr[At(h.idx, b)].epoch

\* A buffer that is not full has its entries at the places up to idx.
Packed(h) ==
  /\ h.is_empty => h.idx = MaxItems - 1 /\ \A k \in Positions : h.arr[k].epoch = NoEpoch
  /\ ~h.is_empty =>
       /\ h.arr[h.idx].epoch # NoEpoch
       /\ h.arr[At(h.idx, 0)].epoch = NoEpoch =>
            \A k \in Positions : h.arr[k].epoch # NoEpoch <=> k <= h.idx

\* The invariant of the two ring buffers.
Ring(h) == IsRing(h) /\ Rising(h) /\ Packed(h)

\* Places are shared by entries of the same epochs.
SameEpochs(g, h) ==
  /\ g.idx = h.idx /\ g.is_empty = h.is_empty
  /\ \A k \in Positions : g.arr[k].epoch = h.arr[k].epoch

\* What is written into entries leaves the order alone.
LEMMA RewriteKeepsRing ==
  ASSUME NEW h, NEW g, Ring(h), SameEpochs(g, h),
         {"arr", "idx", "is_empty"} \subseteq DOMAIN g, g = [f \in DOMAIN g |-> g[f]],
         g.arr = [k \in Positions |-> g.arr[k]]
  PROVE  Ring(g)
<1>1. IsRing(g)
  BY DEF Ring, IsRing, SameEpochs
<1>2. h.idx \in Positions /\ \A c \in Positions : At(h.idx, c) \in Positions
  BY Places DEF Ring, IsRing
<1>3. Rising(g)
  BY <1>2 DEF Ring, Rising, SameEpochs
<1>4. Packed(g)
  <2>1. 0 \in Positions
    BY Places DEF Positions
  <2> QED BY <1>2, <2>1 DEF Ring, Packed, SameEpochs
<1> QED BY <1>1, <1>3, <1>4 DEF Ring

\* No epoch has two entries, and the newest is the last.
LEMMA RingOrder ==
  ASSUME NEW h, Ring(h)
  PROVE  /\ \A j, k \in Positions : h.arr[j].epoch = h.arr[k].epoch /\ h.arr[j].epoch # NoEpoch => j = k
         /\ ~h.is_empty => \A k \in Positions : h.arr[k].epoch # NoEpoch => h.arr[k].epoch <= h.arr[h.idx].epoch
         /\ \A k \in Positions : h.arr[k].epoch \in Int
<1>1. h.idx \in Positions /\ \A k \in Positions : h.arr[k].epoch \in 0 .. NoEpoch
  BY DEF Ring, IsRing
<1>2. \A k \in Positions : \E c \in Positions : At(h.idx, c) = k
  BY <1>1, Places
<1>3. At(h.idx, MaxItems - 1) = h.idx /\ MaxItems - 1 \in Positions /\ NoEpoch \in Int
  <2>1. MaxItems \in Nat /\ MaxItems > 1 /\ MaxEpoch \in Nat /\ NoEpoch = MaxEpoch + 1
    BY Places
  <2>2. At(h.idx, MaxItems - 1) = h.idx
    BY <1>1, Places
  <2> QED BY <2>1, <2>2 DEF Positions
<1>4. ASSUME NEW j \in Positions, NEW k \in Positions,
             h.arr[j].epoch = h.arr[k].epoch, h.arr[j].epoch # NoEpoch
      PROVE  j = k
  <2>1. PICK a \in Positions, b \in Positions : At(h.idx, a) = j /\ At(h.idx, b) = k
    BY <1>2
  <2>2. a \in Int /\ b \in Int
    BY Places DEF Positions
  <2>3. ~(a < b)
    BY <1>1, <1>4, <2>1 DEF Ring, Rising
  <2>4. ~(b < a)
    BY <1>1, <1>4, <2>1 DEF Ring, Rising
  <2> QED BY <2>1, <2>2, <2>3, <2>4
<1>5. ASSUME NEW k \in Positions, h.arr[k].epoch # NoEpoch
      PROVE  h.arr[k].epoch <= h.arr[h.idx].epoch
  <2>1. PICK a \in Positions : At(h.idx, a) = k
    BY <1>2
  <2>2. CASE a = MaxItems - 1
    BY <1>1, <1>3, <2>1, <2>2
  <2>3. CASE a < MaxItems - 1
    BY <1>1, <1>3, <1>5, <2>1, <2>3 DEF Ring, Rising
  <2> QED BY <2>2, <2>3, Places DEF Positions
<1> QED BY <1>1, <1>4, <1>5

\* What push makes of the fields.
LEMMA PushFields ==
  ASSUME NEW h, IsRing(h), NEW x
  PROVE  /\ Push(h, x).idx = At(h.idx, 0) /\ ~Push(h, x).is_empty
         /\ Push(h, x).is_empty \in BOOLEAN
         /\ Push(h, x).arr = [h.arr EXCEPT ![At(h.idx, 0)] = x]
         /\ DOMAIN Push(h, x) = DOMAIN h
         /\ Push(h, x) = [f \in DOMAIN h |-> Push(h, x)[f]]
         /\ \A f \in DOMAIN h \ {"arr", "idx", "is_empty"} : Push(h, x)[f] = h[f]
<1>1. (h.idx + 1) % MaxItems = At(h.idx, 0)
  BY Places DEF IsRing
<1>2. Push(h, x) = [h EXCEPT !.idx = At(h.idx, 0), !.arr[At(h.idx, 0)] = x, !.is_empty = FALSE]
  BY <1>1 DEF Push
<1>3. {"arr", "idx", "is_empty"} \subseteq DOMAIN h /\ h = [f \in DOMAIN h |-> h[f]]
  BY DEF IsRing
<1> DEFINE i == At(h.idx, 0)
           p == Push(h, x)
<1> HIDE DEF i, p
<1>4. p = [h EXCEPT !.idx = i, !.arr[i] = x, !.is_empty = FALSE]
  BY <1>2 DEF i, p
<1>5. /\ p.idx = i /\ p.is_empty = FALSE /\ p.arr = [h.arr EXCEPT ![i] = x]
      /\ DOMAIN p = DOMAIN h
      /\ p = [f \in DOMAIN h |-> p[f]]
      /\ \A f \in DOMAIN h \ {"arr", "idx", "is_empty"} : p[f] = h[f]
  BY <1>3, <1>4
<1> QED BY <1>5 DEF i, p

\* A new epoch comes behind the others, and takes the place of the oldest one.
LEMMA PushKeepsRing ==
  ASSUME NEW h, Ring(h), NEW x, x.epoch \in 0 .. MaxEpoch, IsNew(h, x.epoch)
  PROVE  Ring(Push(h, x))
<1> DEFINE i == h.idx
           n == At(i, 0)
           g == Push(h, x)
<1>1. /\ i \in Positions /\ n \in Positions /\ 0 \in Positions
      /\ MaxItems \in Nat /\ MaxItems > 1 /\ MaxEpoch \in Nat /\ NoEpoch = MaxEpoch + 1
  <2>1. MaxItems \in Nat /\ MaxItems > 1 /\ MaxEpoch \in Nat /\ NoEpoch = MaxEpoch + 1
    BY Places
  <2>2. i \in Positions
    BY DEF Ring, IsRing
  <2>3. 0 \in Positions
    BY <2>1 DEF Positions
  <2> QED BY <2>1, <2>2, <2>3, Places
<1>2. /\ IsRing(h) /\ h.is_empty \in BOOLEAN
      /\ h.arr = [k \in Positions |-> h.arr[k]]
      /\ \A k \in Positions : h.arr[k].epoch \in 0 .. NoEpoch
  BY DEF Ring, IsRing
<1>3. /\ g.idx = n /\ ~g.is_empty /\ g.is_empty \in BOOLEAN
      /\ g.arr = [h.arr EXCEPT ![n] = x]
      /\ {"arr", "idx", "is_empty"} \subseteq DOMAIN g /\ g = [f \in DOMAIN g |-> g[f]]
  <2>1. {"arr", "idx", "is_empty"} \subseteq DOMAIN h
    BY DEF Ring, IsRing
  <2> QED BY <1>2, <2>1, PushFields
<1>4. \A k \in Positions : g.arr[k] = IF k = n THEN x ELSE h.arr[k]
  BY <1>2, <1>3
<1>5. IsRing(g)
  <2>1. g.arr = [k \in Positions |-> g.arr[k]]
    BY <1>2, <1>3
  <2>2. \A k \in Positions : g.arr[k].epoch \in 0 .. NoEpoch
    BY <1>1, <1>2, <1>4
  <2> HIDE DEF g
  <2> QED BY <1>1, <1>3, <2>1, <2>2 DEF IsRing
\* the places, seen from the new entry
<1>6. \A c \in Positions : IF c = MaxItems - 1 THEN At(n, c) = n
                           ELSE c + 1 \in Positions /\ At(n, c) = At(i, c + 1) /\ At(n, c) # n
  BY <1>1 DEF At, Positions
<1> HIDE DEF g
<1>7. ASSUME NEW k \in Positions, k # n, h.arr[k].epoch # NoEpoch PROVE h.arr[k].epoch < x.epoch
  <2>1. ~h.is_empty
    BY <1>7 DEF Ring, Packed
  <2>2. h.arr[i].epoch < x.epoch
    BY <2>1 DEF IsNew, Newest
  <2>3. h.arr[k].epoch <= h.arr[i].epoch
    BY <1>7, <2>1, RingOrder
  <2> QED BY <1>1, <1>2, <2>2, <2>3
<1>8. Rising(g)
  <2> SUFFICES ASSUME NEW a \in Positions, NEW b \in Positions, a < b,
                      g.arr[At(n, a)].epoch # NoEpoch
               PROVE  /\ g.arr[At(n, b)].epoch # NoEpoch
                      /\ g.arr[At(n, a)].epoch < g.arr[At(n, b)].epoch
    BY <1>3 DEF Rising
  <2>0. a \in Int /\ b \in Int /\ a < MaxItems /\ b < MaxItems
    BY <1>1 DEF Positions
  <2>1. a + 1 \in Positions /\ At(n, a) = At(i, a + 1) /\ At(n, a) # n
    BY <1>1, <1>6, <2>0
  <2>2. At(i, a + 1) \in Positions
    BY <1>1, <2>1, Places
  <2>3. g.arr[At(n, a)] = h.arr[At(i, a + 1)]
    BY <1>4, <2>1, <2>2
  <2>4. CASE b = MaxItems - 1
    <3>1. g.arr[At(n, b)] = x
      BY <1>1, <1>4, <1>6, <2>4
    <3>2. h.arr[At(i, a + 1)].epoch < x.epoch
      BY <1>7, <2>1, <2>2, <2>3
    <3> QED BY <1>1, <2>3, <3>1, <3>2
  <2>5. CASE b # MaxItems - 1
    <3>1. b + 1 \in Positions /\ At(n, b) = At(i, b + 1) /\ At(n, b) # n
      BY <1>6, <2>5
    <3>2. At(i, b + 1) \in Positions
      BY <1>1, <3>1, Places
    <3>3. g.arr[At(n, b)] = h.arr[At(i, b + 1)]
      BY <1>4, <3>1, <3>2
    <3>4. a + 1 < b + 1
      BY <2>0
    <3> QED BY <2>1, <2>3, <3>1, <3>3, <3>4 DEF Ring, Rising
  <2> QED BY <2>4, <2>5
<1>9. Packed(g)
  <2>1. g.arr[g.idx].epoch # NoEpoch
    BY <1>1, <1>3, <1>4
  <2>2. ASSUME g.arr[At(n, 0)].epoch = NoEpoch, NEW k \in Positions
        PROVE  g.arr[k].epoch # NoEpoch <=> k <= n
    <3>1. At(n, 0) # n /\ At(n, 0) = At(i, 1) /\ 1 \in Positions
      BY <1>1, <1>6
    <3>2. h.arr[At(i, 1)].epoch = NoEpoch
      BY <1>1, <1>4, <2>2, <3>1, Places
    <3>3. CASE h.is_empty
      <4>1. i = MaxItems - 1 /\ \A m \in Positions : h.arr[m].epoch = NoEpoch
        BY <3>3 DEF Ring, Packed
      <4>2. n = 0
        BY <1>1, <4>1 DEF At
      <4>3. k <= n <=> k = n
        BY <1>1, <4>2 DEF Positions
      <4> QED BY <1>1, <1>4, <4>1, <4>3
    <3>4. CASE ~h.is_empty
      <4>1. h.arr[At(i, 0)].epoch = NoEpoch
        <5>1. 0 < 1
          OBVIOUS
        <5> QED BY <1>1, <3>1, <3>2, <5>1 DEF Ring, Rising
      <4>2. h.arr[i].epoch # NoEpoch /\ \A m \in Positions : h.arr[m].epoch # NoEpoch <=> m <= i
        BY <3>4, <4>1 DEF Ring, Packed
      <4>3. i # MaxItems - 1
        <5>1. ASSUME i = MaxItems - 1 PROVE FALSE
          <6>1. n <= i
            BY <1>1, <5>1 DEF At
          <6> QED BY <1>1, <4>1, <4>2, <6>1
        <5> QED BY <5>1
      <4>4. n = i + 1
        BY <1>1, <4>3 DEF At, Positions
      <4>5. k <= n <=> (k = n \/ k <= i)
        BY <1>1, <4>4 DEF Positions
      <4> QED BY <1>1, <1>4, <4>2, <4>5
    <3> QED BY <1>2, <3>3, <3>4
  <2> QED BY <1>3, <2>1, <2>2 DEF Packed
<1> QED BY <1>5, <1>8, <1>9 DEF Ring, g

-----------------------------------------------------------------------------
(* insert: where it shifts entries to *)

\* The c-th place from the oldest is a place.
LEMMA AtPlace ==
  ASSUME NEW i \in Positions, NEW c \in Positions
  PROVE  (i + 1 + c) % MaxItems = At(i, c) /\ At(i, c) \in Positions
BY Places

\* The newest entry's place comes last.
LEMMA AtLast ==
  ASSUME NEW i \in Positions
  PROVE  At(i, MaxItems - 1) = i
BY Places

\* No place comes twice.
LEMMA AtOnce ==
  ASSUME NEW i \in Positions, NEW c \in Positions, NEW d \in Positions, At(i, c) = At(i, d)
  PROVE  c = d
BY Places

\* The epochs from place to place in a buffer that is not full.
LEMMA PackedRising ==
  ASSUME NEW h, Ring(h), ~h.is_empty, h.arr[At(h.idx, 0)].epoch = NoEpoch
  PROVE  /\ h.idx < MaxItems - 1
         /\ \A i, j \in 0 .. h.idx : i < j => h.arr[i].epoch < h.arr[j].epoch
         /\ \A k \in Positions : h.arr[k].epoch # NoEpoch <=> k <= h.idx
<1>1. h.idx \in Positions /\ MaxItems \in Nat /\ MaxItems > 1
  BY Places DEF Ring, IsRing
<1>2. \A k \in Positions : h.arr[k].epoch # NoEpoch <=> k <= h.idx
  BY DEF Ring, Packed
<1>3. h.idx < MaxItems - 1
  <2>1. SUFFICES ASSUME h.idx = MaxItems - 1 PROVE FALSE
    BY <1>1 DEF Positions
  <2>2. At(h.idx, 0) = 0 /\ 0 \in Positions /\ 0 <= h.idx
    BY <1>1, <2>1 DEF At, Positions
  <2> QED BY <1>2, <2>2
<1>4. ASSUME NEW i \in 0 .. h.idx, NEW j \in 0 .. h.idx, i < j
      PROVE  h.arr[i].epoch < h.arr[j].epoch
  <2> DEFINE a == i + MaxItems - h.idx - 1
             b == j + MaxItems - h.idx - 1
  <2>1. a \in Positions /\ b \in Positions /\ a < b /\ At(h.idx, a) = i /\ At(h.idx, b) = j
    BY <1>1, <1>4 DEF Positions, At
  <2>2. h.arr[i].epoch # NoEpoch
    BY <1>1, <1>2 DEF Positions
  <2> HIDE DEF a, b
  <2> QED BY <2>1, <2>2 DEF Ring, Rising
<1> QED BY <1>2, <1>3, <1>4

\* In a full buffer all entries are used.
LEMMA FullUsed ==
  ASSUME NEW h, Ring(h), h.arr[At(h.idx, 0)].epoch # NoEpoch
  PROVE  \A c \in Positions : h.arr[At(h.idx, c)].epoch # NoEpoch
<1>1. 0 \in Positions /\ \A c \in Positions : c = 0 \/ 0 < c
  BY Places DEF Positions
<1> QED BY <1>1 DEF Ring, Rising

\* What insert makes of the buffer: everybody behind the new entry moves up by one
\* place, around the end if need be.
Shifted(h, pos) ==
  LET far == IF h.idx < pos THEN h.idx + MaxItems ELSE h.idx
  IN  [k \in Positions |-> IF \E i \in pos .. far : (i + 1) % MaxItems = k
                           THEN h.arr[(k + MaxItems - 1) % MaxItems] ELSE h.arr[k]]

\* insert gives up, or writes a blank entry.
LEMMA InsertCases ==
  ASSUME NEW h, NEW e
  PROVE  LET pos == FindInsertPosition(h, e)
         IN  IF h.is_empty \/ e < MinEpoch(h) \/ e > Newest(h).epoch \/ h.arr[pos].epoch = e
             THEN Insert(h, e) = h
             ELSE Insert(h, e) = [h EXCEPT !.arr = [Shifted(h, pos) EXCEPT ![pos] = Blank(e)],
                                           !.idx = (h.idx + 1) % MaxItems]
BY DEF Insert, Shifted

\* Seen along the places of a buffer that is not full.
LEMMA ShiftedPacked ==
  ASSUME NEW h, h.idx \in Positions, h.idx < MaxItems - 1, NEW p \in 0 .. h.idx
  PROVE  \A k \in Positions :
           Shifted(h, p)[k] = IF k \in p + 1 .. h.idx + 1 THEN h.arr[k - 1] ELSE h.arr[k]
<1>1. MaxItems \in Nat \ {0} /\ h.idx \in Nat /\ p \in Nat
  BY Places DEF Positions
<1>2. \A x \in 0 .. 2 * MaxItems - 1 : x % MaxItems = IF x < MaxItems THEN x ELSE x - MaxItems
  BY <1>1, ModOnce
<1> SUFFICES ASSUME NEW k \in Positions
             PROVE  Shifted(h, p)[k] = IF k \in p + 1 .. h.idx + 1 THEN h.arr[k - 1] ELSE h.arr[k]
  OBVIOUS
<1>3. k \in Nat /\ k < MaxItems
  BY <1>1 DEF Positions
<1>4. (\E i \in p .. h.idx : (i + 1) % MaxItems = k) <=> k \in p + 1 .. h.idx + 1
  <2>1. \A i \in p .. h.idx : (i + 1) % MaxItems = i + 1
    BY <1>1, <1>2
  <2>2. ASSUME k \in p + 1 .. h.idx + 1 PROVE k - 1 \in p .. h.idx /\ (k - 1) + 1 = k
    BY <1>1, <1>3, <2>2
  <2> QED BY <1>1, <1>3, <2>1, <2>2
<1>5. k \in p + 1 .. h.idx + 1 => (k + MaxItems - 1) % MaxItems = k - 1
  BY <1>1, <1>2, <1>3
<1>6. (IF h.idx < p THEN h.idx + MaxItems ELSE h.idx) = h.idx
  BY <1>1
<1> QED BY <1>4, <1>5, <1>6 DEF Shifted

\* Seen from the oldest entry of a full one.
LEMMA ShiftedFull ==
  ASSUME NEW h, h.idx \in Positions, NEW s \in Positions, s > 0
  PROVE  \A c \in Positions :
           Shifted(h, At(h.idx, s))[At(h.idx, c)] =
             IF c = 0 THEN h.arr[h.idx]
             ELSE IF c > s THEN h.arr[At(h.idx, c - 1)] ELSE h.arr[At(h.idx, c)]
<1> DEFINE i == h.idx
           p == At(i, s)
           far == IF i < p THEN i + MaxItems ELSE i
<1>1. MaxItems \in Nat \ {0} /\ MaxItems > 1 /\ i \in Nat /\ i < MaxItems /\ s \in Nat /\ s < MaxItems
  <2>1. MaxItems \in Nat /\ MaxItems > 1
    BY Places
  <2> QED BY <2>1 DEF Positions
<1>2. \A x \in 0 .. 2 * MaxItems - 1 : x % MaxItems = IF x < MaxItems THEN x ELSE x - MaxItems
  BY <1>1, ModOnce
<1> SUFFICES ASSUME NEW c \in Positions
             PROVE  Shifted(h, p)[At(i, c)] =
                      IF c = 0 THEN h.arr[i]
                      ELSE IF c > s THEN h.arr[At(i, c - 1)] ELSE h.arr[At(i, c)]
  OBVIOUS
<1> DEFINE k == At(i, c)
<1>3. c \in Nat /\ c < MaxItems
  BY <1>1 DEF Positions
<1>4. k \in Positions /\ p \in Positions
  BY Places
<1> HIDE DEF i
<1>5. p \in Nat /\ far \in Nat /\ far < 2 * MaxItems - 1
  BY <1>1 DEF At
<1>6. \A x \in p .. far : (x + 1) % MaxItems = IF x + 1 < MaxItems THEN x + 1 ELSE x + 1 - MaxItems
  <2> HIDE DEF p, far
  <2> QED BY <1>1, <1>2, <1>5
<1>7. (k + MaxItems - 1) % MaxItems = IF k = 0 THEN MaxItems - 1 ELSE k - 1
  <2>1. k \in Nat /\ k < MaxItems
    BY <1>1, <1>4 DEF Positions
  <2> HIDE DEF k
  <2> QED BY <1>1, <1>2, <2>1
<1>8. (\E x \in p .. far : (x + 1) % MaxItems = k) <=> (c = 0 \/ c > s)
  <2>1. ASSUME NEW x \in p .. far, (IF x + 1 < MaxItems THEN x + 1 ELSE x + 1 - MaxItems) = k
        PROVE  c = 0 \/ c > s
    BY <1>1, <1>3, <2>1 DEF At
  <2>2. ASSUME c = 0 \/ c > s
        PROVE  \E x \in p .. far : (IF x + 1 < MaxItems THEN x + 1 ELSE x + 1 - MaxItems) = k
    <3> DEFINE x == IF c = 0 THEN far ELSE IF k - 1 < p THEN k - 1 + MaxItems ELSE k - 1
    <3>1. x \in p .. far /\ (IF x + 1 < MaxItems THEN x + 1 ELSE x + 1 - MaxItems) = k
      BY <1>1, <1>3, <2>2 DEF At
    <3> HIDE DEF x
    <3> QED BY <3>1
  <2> HIDE DEF p, far, k
  <2> QED BY <1>6, <2>1, <2>2
<1>9. CASE c = 0
  <2>1. (IF k = 0 THEN MaxItems - 1 ELSE k - 1) = i
    BY <1>1, <1>9 DEF At
  <2> HIDE DEF k
  <2>2. Shifted(h, p)[k] = h.arr[i]
    BY <1>4, <1>7, <1>8, <1>9, <2>1 DEF Shifted, i
  <2> QED BY <1>9, <2>2 DEF k
<1>10. CASE c > s
  <2>1. (IF k = 0 THEN MaxItems - 1 ELSE k - 1) = At(i, c - 1)
    BY <1>1, <1>3, <1>10 DEF At
  <2> HIDE DEF k
  <2>2. Shifted(h, p)[k] = h.arr[At(i, c - 1)]
    BY <1>4, <1>7, <1>8, <1>10, <2>1 DEF Shifted, i
  <2> QED BY <1>1, <1>3, <1>10, <2>2 DEF k
<1>11. CASE c # 0 /\ c <= s
  <2> HIDE DEF k
  <2>2. Shifted(h, p)[k] = h.arr[k]
    <3>1. ~(\E x \in p .. far : (x + 1) % MaxItems = k)
      BY <1>1, <1>3, <1>8, <1>11
    <3> QED BY <1>4, <3>1 DEF Shifted, i
  <2> QED BY <1>1, <1>3, <1>11, <2>2 DEF k
<1> QED BY <1>1, <1>3, <1>9, <1>10, <1>11

\* insert of an epoch between the oldest and the newest one that has no entry: where
\* the blank entry goes, and what is where afterwards.
PlacedIn(g, h, e, p) ==
  /\ p \in Positions
  /\ g.idx = At(h.idx, 0) /\ g.is_empty = h.is_empty
  /\ g.arr = [k \in Positions |-> g.arr[k]] /\ g.arr[p] = Blank(e)
  /\ DOMAIN g = DOMAIN h /\ g = [f \in DOMAIN h |-> g[f]]
  /\ \A f \in DOMAIN h \ {"arr", "idx"} : g[f] = h[f]

\* In a buffer that is not full.
LEMMA InsertPacked ==
  ASSUME NEW h, Ring(h), NEW e \in 0 .. MaxEpoch, ~h.is_empty,
         h.arr[At(h.idx, 0)].epoch = NoEpoch,
         ~(e < MinEpoch(h)), ~(e > Newest(h).epoch), Insert(h, e) # h
  PROVE  \E p \in 1 .. h.idx :
           /\ PlacedIn(Insert(h, e), h, e, p)
           /\ h.arr[p - 1].epoch < e /\ e < h.arr[p].epoch
           /\ \A k \in Positions : Insert(h, e).arr[k] =
                IF k = p THEN Blank(e) ELSE IF k \in p + 1 .. h.idx + 1 THEN h.arr[k - 1]
                ELSE h.arr[k]
<1> DEFINE i == h.idx
           epochs == [k \in Positions |-> h.arr[k].epoch]
           s == Search(epochs, e, i + 1)
<1>1. /\ i < MaxItems - 1
      /\ \A a, b \in 0 .. i : a < b => h.arr[a].epoch < h.arr[b].epoch
      /\ \A k \in Positions : h.arr[k].epoch # NoEpoch <=> k <= i
  BY PackedRising
<1>2. /\ MaxItems \in Nat \ {0} /\ MaxEpoch \in Nat /\ NoEpoch = MaxEpoch + 1
      /\ i \in Positions /\ i \in Nat
      /\ \A k \in 0 .. i : k \in Positions
      /\ \A k \in Positions : h.arr[k].epoch \in Int
  <2>1. MaxItems \in Nat \ {0} /\ MaxEpoch \in Nat /\ NoEpoch = MaxEpoch + 1
    BY Places
  <2>2. i \in Positions /\ \A k \in Positions : h.arr[k].epoch \in 0 .. NoEpoch
    BY DEF Ring, IsRing
  <2>3. \A k \in Positions : h.arr[k].epoch \in Int
    BY <2>1, <2>2
  <2>4. i \in Nat /\ \A k \in 0 .. i : k \in Positions
    BY <2>1, <2>2 DEF Positions
  <2> QED BY <2>1, <2>2, <2>3, <2>4
<1>3. \A k \in 0 .. i : epochs[k] = h.arr[k].epoch
  BY <1>2
<1>4. \A a, b \in 0 .. (i + 1) - 1 : a < b /\ epochs[b] < e => epochs[a] < e
  <2>1. \A a, b \in 0 .. i : a < b /\ h.arr[b].epoch < e => h.arr[a].epoch < e
    BY <1>1, <1>2
  <2>2. 0 .. (i + 1) - 1 = 0 .. i
    BY <1>2
  <2> HIDE DEF epochs
  <2> QED BY <1>3, <2>1, <2>2
<1>5. FirstNotBelow(s, 0, i + 1, epochs, e)
  <2>1. i + 1 \in Nat
    BY <1>2
  <2> HIDE DEF epochs
  <2> QED BY <1>4, <2>1, SearchPlace
<1> HIDE DEF s
<1>6. s \in 0 .. i + 1 /\ (\A a \in 0 .. s - 1 : epochs[a] < e) /\ (s < i + 1 => ~(epochs[s] < e))
  BY <1>5 DEF FirstNotBelow
<1>7. ~(h.arr[i].epoch < e)
  BY <1>2 DEF Newest
<1>8. s \in 0 .. i
  <2>1. s # i + 1
    <3>1. s = i + 1 => i \in 0 .. s - 1
      BY <1>2
    <3> QED BY <1>2, <1>3, <1>6, <1>7, <3>1
  <2> QED BY <1>2, <1>6, <2>1
<1>9. FindInsertPosition(h, e) = s
  <2>1. h.idx # MaxItems - 1
    BY <1>1, <1>2
  <2>2. (h.idx + 1) % MaxItems = At(h.idx, 0)
    BY <1>2, Places
  <2>3. FindInsertPosition(h, e) = s % MaxItems
    BY <2>1, <2>2 DEF FindInsertPosition, s
  <2>4. s % MaxItems = s
    <3>1. s \in 0 .. 2 * MaxItems - 1 /\ s < MaxItems
      BY <1>1, <1>2, <1>8
    <3> QED BY <1>2, <3>1, ModOnce
  <2> QED BY <2>3, <2>4
<1> HIDE DEF epochs
<1>10. h.arr[s].epoch # e
  BY <1>9, InsertCases
<1>11. e < h.arr[s].epoch
  <2>1. ~(h.arr[s].epoch < e)
    BY <1>2, <1>3, <1>6, <1>8
  <2> QED BY <1>2, <1>8, <1>10, <2>1
<1>12. s >= 1
  <2>1. MinEpoch(h) = h.arr[0].epoch
    <3>1. (h.idx + 1) % MaxItems = At(h.idx, 0)
      BY <1>2, Places
    <3> QED BY <3>1 DEF MinEpoch
  <2>2. s # 0
    BY <1>2, <1>11, <2>1
  <2> QED BY <1>2, <1>8, <2>2
<1>13. s \in 1 .. i /\ s - 1 \in 0 .. s - 1 /\ s - 1 \in 0 .. i /\ s \in Positions
  BY <1>2, <1>8, <1>12
<1>14. h.arr[s - 1].epoch < e
  BY <1>3, <1>6, <1>13
<1> DEFINE g == Insert(h, e)
           new == [Shifted(h, s) EXCEPT ![s] = Blank(e)]
<1>15. g = [h EXCEPT !.arr = new, !.idx = At(h.idx, 0)]
  <2>1. (h.idx + 1) % MaxItems = At(h.idx, 0)
    BY <1>2, Places
  <2>2. Insert(h, e) = [h EXCEPT !.arr = [Shifted(h, s) EXCEPT ![s] = Blank(e)],
                                 !.idx = (h.idx + 1) % MaxItems]
    BY <1>9, <1>10, InsertCases
  <2> QED BY <2>1, <2>2
<1>16. \A k \in Positions : Shifted(h, s)[k] = IF k \in s + 1 .. i + 1 THEN h.arr[k - 1] ELSE h.arr[k]
  BY <1>1, <1>2, <1>8, ShiftedPacked
<1>17. Shifted(h, s) = [k \in Positions |-> Shifted(h, s)[k]]
  BY DEF Shifted
<1>18. /\ new = [k \in Positions |-> new[k]] /\ new[s] = Blank(e)
       /\ \A k \in Positions : k # s => new[k] = Shifted(h, s)[k]
  BY <1>13, <1>17
<1>19. {"arr", "idx", "is_empty"} \subseteq DOMAIN h /\ h = [f \in DOMAIN h |-> h[f]]
  BY DEF Ring, IsRing
<1> HIDE DEF new, g
<1>20. /\ g.arr = new /\ g.idx = At(h.idx, 0) /\ g.is_empty = h.is_empty
       /\ DOMAIN g = DOMAIN h /\ g = [f \in DOMAIN h |-> g[f]]
       /\ \A f \in DOMAIN h \ {"arr", "idx"} : g[f] = h[f]
  BY <1>15, <1>19
<1>21. PlacedIn(g, h, e, s)
  BY <1>13, <1>18, <1>20 DEF PlacedIn
<1>22. \A k \in Positions : g.arr[k] =
         IF k = s THEN Blank(e) ELSE IF k \in s + 1 .. i + 1 THEN h.arr[k - 1] ELSE h.arr[k]
  BY <1>16, <1>18, <1>20
<1> QED BY <1>11, <1>13, <1>14, <1>21, <1>22 DEF g

\* In a full one.
LEMMA InsertFull ==
  ASSUME NEW h, Ring(h), NEW e \in 0 .. MaxEpoch, ~h.is_empty,
         h.arr[At(h.idx, 0)].epoch # NoEpoch,
         ~(e < MinEpoch(h)), ~(e > Newest(h).epoch), Insert(h, e) # h
  PROVE  \E s \in 1 .. MaxItems - 1 :
           /\ PlacedIn(Insert(h, e), h, e, At(h.idx, s))
           /\ h.arr[At(h.idx, s - 1)].epoch < e /\ e < h.arr[At(h.idx, s)].epoch
           /\ \A c \in Positions : Insert(h, e).arr[At(h.idx, c)] =
                IF c = 0 THEN h.arr[h.idx] ELSE IF c = s THEN Blank(e)
                ELSE IF c > s THEN h.arr[At(h.idx, c - 1)] ELSE h.arr[At(h.idx, c)]
<1> DEFINE i == h.idx
           E(c) == h.arr[At(i, c)].epoch
           epochs == [c \in Positions |-> E(c)]
           s == Search(epochs, e, MaxItems)
<1>1. \A c \in Positions : E(c) # NoEpoch
  BY FullUsed
<1>2. /\ MaxItems \in Nat \ {0} /\ MaxItems > 1 /\ MaxEpoch \in Nat /\ NoEpoch = MaxEpoch + 1
      /\ i \in Positions /\ i \in Nat
      /\ Positions = 0 .. MaxItems - 1
      /\ \A c \in Positions : E(c) \in Int
  <2>1. MaxItems \in Nat \ {0} /\ MaxItems > 1 /\ MaxEpoch \in Nat /\ NoEpoch = MaxEpoch + 1
    BY Places
  <2>2. i \in Positions /\ \A k \in Positions : h.arr[k].epoch \in 0 .. NoEpoch
    BY DEF Ring, IsRing
  <2>3. \A c \in Positions : E(c) \in Int
    <3>1. \A c \in Positions : At(i, c) \in Positions
      BY <2>2, Places
    <3> QED BY <2>1, <2>2, <3>1
  <2>4. i \in Nat
    BY <2>1, <2>2 DEF Positions
  <2> QED BY <2>1, <2>2, <2>3, <2>4 DEF Positions
<1>3. \A a, b \in Positions : a < b => E(a) < E(b)
  BY <1>1 DEF Ring, Rising
<1> HIDE DEF E
<1>4. \A a, b \in 0 .. MaxItems - 1 : a < b /\ epochs[b] < e => epochs[a] < e
  BY <1>2, <1>3
<1>5. FirstNotBelow(s, 0, MaxItems, epochs, e)
  <2>1. MaxItems \in Nat
    BY <1>2
  <2> HIDE DEF epochs
  <2> QED BY <1>4, <2>1, SearchPlace
<1> HIDE DEF s
<1>6. s \in 0 .. MaxItems /\ (\A a \in 0 .. s - 1 : epochs[a] < e) /\ (s < MaxItems => ~(epochs[s] < e))
  BY <1>5 DEF FirstNotBelow
<1>7. ~(E(MaxItems - 1) < e)
  <2>1. At(i, MaxItems - 1) = i /\ MaxItems - 1 \in Positions
    BY <1>2, AtLast
  <2>2. ~(e > E(MaxItems - 1))
    BY <2>1 DEF Newest, E
  <2> QED BY <1>2, <2>1, <2>2
<1>8. s \in Positions
  <2>1. s # MaxItems
    <3>1. s = MaxItems => MaxItems - 1 \in 0 .. s - 1 /\ MaxItems - 1 \in Positions
      BY <1>2
    <3> QED BY <1>2, <1>6, <1>7, <3>1
  <2> QED BY <1>2, <1>6, <2>1
<1>9. FindInsertPosition(h, e) = At(i, s)
  <2>1. (h.idx + 1) % MaxItems = At(h.idx, 0)
    BY <1>2, Places
  <2>2. epochs = [k \in Positions |-> h.arr[(h.idx + 1 + k) % MaxItems].epoch]
    <3>1. \A k \in Positions : (i + 1 + k) % MaxItems = At(i, k)
      BY <1>2, AtPlace
    <3> QED BY <3>1 DEF E
  <2> HIDE DEF epochs
  <2>3. FindInsertPosition(h, e) = (i + 1 + s) % MaxItems
    BY <2>1, <2>2 DEF FindInsertPosition, s
  <2> QED BY <1>2, <1>8, <2>3, AtPlace
<1> DEFINE p == At(i, s)
<1>10. p \in Positions /\ E(s) # e
  <2>1. h.arr[p].epoch # e
    BY <1>9, InsertCases
  <2> QED BY <1>2, <1>8, <2>1, Places DEF E
<1>11. e < E(s)
  <2>1. ~(E(s) < e)
    BY <1>2, <1>6, <1>8
  <2> QED BY <1>2, <1>8, <1>10, <2>1
<1>12. s >= 1
  <2>1. MinEpoch(h) = E(0)
    <3>1. (h.idx + 1) % MaxItems = At(h.idx, 0)
      BY <1>2, Places
    <3> QED BY <3>1 DEF MinEpoch, E
  <2>2. s # 0
    BY <1>2, <1>8, <1>11, <2>1
  <2> QED BY <1>2, <1>8, <2>2
<1>13. s \in 1 .. MaxItems - 1 /\ s - 1 \in 0 .. s - 1 /\ s - 1 \in Positions
  BY <1>2, <1>8, <1>12
<1>14. E(s - 1) < e
  BY <1>6, <1>13
<1> HIDE DEF epochs
<1> DEFINE g == Insert(h, e)
           new == [Shifted(h, p) EXCEPT ![p] = Blank(e)]
<1>15. g = [h EXCEPT !.arr = new, !.idx = At(h.idx, 0)]
  <2>1. (h.idx + 1) % MaxItems = At(h.idx, 0)
    BY <1>2, Places
  <2>2. h.arr[p].epoch # e
    BY <1>10 DEF E
  <2>3. Insert(h, e) = [h EXCEPT !.arr = [Shifted(h, p) EXCEPT ![p] = Blank(e)],
                                 !.idx = (h.idx + 1) % MaxItems]
    <3> HIDE DEF p
    <3> QED BY <1>9, <2>2, InsertCases DEF p
  <2> QED BY <2>1, <2>3
<1>16. \A c \in Positions : Shifted(h, p)[At(i, c)] =
             IF c = 0 THEN h.arr[i]
             ELSE IF c > s THEN h.arr[At(i, c - 1)] ELSE h.arr[At(i, c)]
  <2>1. s > 0
    BY <1>13
  <2> QED BY <1>2, <1>8, <2>1, ShiftedFull
<1>17. Shifted(h, p) = [k \in Positions |-> Shifted(h, p)[k]]
  BY DEF Shifted
<1>18. /\ new = [k \in Positions |-> new[k]] /\ new[p] = Blank(e)
       /\ \A k \in Positions : k # p => new[k] = Shifted(h, p)[k]
  <2> HIDE DEF p
  <2> QED BY <1>10, <1>17
<1>19. {"arr", "idx", "is_empty"} \subseteq DOMAIN h /\ h = [f \in DOMAIN h |-> h[f]]
  BY DEF Ring, IsRing
<1> HIDE DEF new, g
<1>20. /\ g.arr = new /\ g.idx = At(h.idx, 0) /\ g.is_empty = h.is_empty
       /\ DOMAIN g = DOMAIN h /\ g = [f \in DOMAIN h |-> g[f]]
       /\ \A f \in DOMAIN h \ {"arr", "idx"} : g[f] = h[f]
  BY <1>15, <1>19
<1>21. PlacedIn(g, h, e, At(h.idx, s))
  BY <1>10, <1>18, <1>20 DEF PlacedIn
<1>22. ASSUME NEW c \in Positions
       PROVE  g.arr[At(h.idx, c)] =
                IF c = 0 THEN h.arr[h.idx] ELSE IF c = s THEN Blank(e)
                ELSE IF c > s THEN h.arr[At(h.idx, c - 1)] ELSE h.arr[At(h.idx, c)]
  <2>0. At(i, c) \in Positions
    BY <1>2, AtPlace
  <2>1. At(i, c) \in Positions /\ (At(i, c) = p <=> c = s)
    BY <1>2, <1>8, <2>0, AtOnce
  <2>2. s # 0
    BY <1>13
  <2> QED BY <1>16, <1>18, <1>20, <2>1, <2>2
<1>23. h.arr[At(h.idx, s - 1)].epoch < e /\ e < h.arr[At(h.idx, s)].epoch
  BY <1>11, <1>14 DEF E
<1> QED BY <1>13, <1>21, <1>22, <1>23 DEF g

-----------------------------------------------------------------------------
(* insert keeps the ring in order *)

\* The bounds of the buffer and of the clock.
LEMMA AtFacts ==
  /\ MaxItems \in Nat \ {0} /\ MaxItems > 1 /\ MaxEpoch \in Nat /\ NoEpoch = MaxEpoch + 1
  /\ Positions = 0 .. MaxItems - 1 /\ 0 \in Positions /\ MaxItems - 1 \in Positions
<1>1. MaxItems \in Nat /\ MaxItems > 1 /\ MaxEpoch \in Nat /\ NoEpoch = MaxEpoch + 1
  BY Places
<1> QED BY <1>1 DEF Positions

\* What insert leaves as it is, and where its entries come from.
Fills(g, h, e) ==
  /\ DOMAIN g = DOMAIN h
  /\ \A f \in DOMAIN h \ {"arr", "idx"} : g[f] = h[f]
  /\ \A k \in Positions : g.arr[k] = Blank(e) \/ \E j \in Positions : g.arr[k] = h.arr[j]
  /\ Newest(g) = Newest(h)

\* A blank entry is of its epoch.
LEMMA BlankEpoch == ASSUME NEW e PROVE Blank(e).epoch = e
BY DEF Blank, DefaultEntry

\* A buffer that is not full stays in order.
LEMMA InsertPackedRing ==
  ASSUME NEW h, Ring(h), NEW e \in 0 .. MaxEpoch, ~h.is_empty,
         h.arr[At(h.idx, 0)].epoch = NoEpoch, NEW g, NEW p \in 1 .. h.idx,
         PlacedIn(g, h, e, p),
         h.arr[p - 1].epoch < e, e < h.arr[p].epoch,
         \A k \in Positions : g.arr[k] =
                IF k = p THEN Blank(e) ELSE IF k \in p + 1 .. h.idx + 1 THEN h.arr[k - 1]
                ELSE h.arr[k]
  PROVE  Ring(g) /\ Fills(g, h, e)
<1> DEFINE i == h.idx
<1>1. /\ i < MaxItems - 1
      /\ \A a, b \in 0 .. i : a < b => h.arr[a].epoch < h.arr[b].epoch
      /\ \A k \in Positions : h.arr[k].epoch # NoEpoch <=> k <= i
  BY PackedRising
<1>2. /\ i \in Positions /\ i \in Nat /\ i + 1 \in Positions /\ p \in Nat
      /\ \A k \in Positions : h.arr[k].epoch \in 0 .. NoEpoch
      /\ {"arr", "idx", "is_empty"} \subseteq DOMAIN h
  <2>1. i \in Positions /\ \A k \in Positions : h.arr[k].epoch \in 0 .. NoEpoch
    BY DEF Ring, IsRing
  <2>2. {"arr", "idx", "is_empty"} \subseteq DOMAIN h
    BY DEF Ring, IsRing
  <2>3. i \in Nat /\ i + 1 \in Positions /\ p \in Nat
    BY <1>1, <2>1, AtFacts
  <2> QED BY <2>1, <2>2, <2>3
<1>3. /\ p \in Positions
      /\ g.is_empty = h.is_empty
      /\ g.arr = [k \in Positions |-> g.arr[k]] /\ g.arr[p] = Blank(e)
      /\ DOMAIN g = DOMAIN h /\ g = [f \in DOMAIN h |-> g[f]]
      /\ \A f \in DOMAIN h \ {"arr", "idx"} : g[f] = h[f]
      /\ g.idx = At(h.idx, 0)
  BY DEF PlacedIn
<1>4. g.idx = i + 1
  BY <1>1, <1>2, <1>3, AtFacts DEF At
<1>5. \A k \in Positions : /\ k <= i + 1 => g.arr[k].epoch \in 0 .. NoEpoch - 1
                           /\ k > i + 1 => g.arr[k].epoch = NoEpoch
  <2> SUFFICES ASSUME NEW k \in Positions
               PROVE  /\ k <= i + 1 => g.arr[k].epoch \in 0 .. NoEpoch - 1
                      /\ k > i + 1 => g.arr[k].epoch = NoEpoch
    OBVIOUS
  <2>0. k \in Int /\ k >= 0
    BY AtFacts
  <2>1. CASE k = p
    BY <1>2, <1>3, <2>1, AtFacts, BlankEpoch
  <2>2. CASE k \in p + 1 .. i + 1
    <3>1. k - 1 \in Positions /\ k - 1 <= i
      BY <1>2, <2>0, <2>2, AtFacts
    <3>2. g.arr[k] = h.arr[k - 1]
      BY <1>2, <2>0, <2>2
    <3> QED BY <1>1, <1>2, <2>0, <2>2, <3>1, <3>2, AtFacts
  <2>3. CASE k # p /\ k \notin p + 1 .. i + 1
    <3>1. g.arr[k] = h.arr[k]
      BY <2>3
    <3>2. k <= i + 1 => k <= i
      BY <1>2, <2>0, <2>3
    <3> QED BY <1>1, <1>2, <2>0, <3>1, <3>2, AtFacts
  <2> QED BY <2>1, <2>2, <2>3
<1>6. \A a, b \in 0 .. i + 1 : a < b => g.arr[a].epoch < g.arr[b].epoch
  <2> SUFFICES ASSUME NEW a \in 0 .. i + 1, NEW b \in 0 .. i + 1, a < b
               PROVE  g.arr[a].epoch < g.arr[b].epoch
    OBVIOUS
  <2>0. a \in Positions /\ b \in Positions /\ a \in Nat /\ b \in Nat
    BY <1>2, AtFacts
  <2>1. g.arr[a] = IF a = p THEN Blank(e) ELSE IF a > p THEN h.arr[a - 1] ELSE h.arr[a]
    BY <1>2, <2>0
  <2>2. g.arr[b] = IF b = p THEN Blank(e) ELSE IF b > p THEN h.arr[b - 1] ELSE h.arr[b]
    BY <1>2, <2>0
  <2>3. \A x \in 0 .. i : h.arr[x].epoch \in Int
    BY <1>2, AtFacts
  <2>4. \A x \in 0 .. p - 1 : x = p - 1 \/ h.arr[x].epoch < h.arr[p - 1].epoch
    BY <1>1, <1>2
  <2>5. \A x \in p .. i : x = p \/ h.arr[p].epoch < h.arr[x].epoch
    BY <1>1, <1>2
  <2>6. CASE a = p
    <3>1. b - 1 \in p .. i /\ g.arr[b] = h.arr[b - 1]
      BY <1>2, <2>0, <2>2, <2>6
    <3>2. e < h.arr[b - 1].epoch
      BY <1>2, <2>3, <2>5, <3>1
    <3> QED BY <2>1, <2>6, <3>1, <3>2, BlankEpoch
  <2>7. CASE b = p
    <3>1. a \in 0 .. p - 1 /\ g.arr[a] = h.arr[a]
      BY <1>2, <2>0, <2>1, <2>7
    <3>2. h.arr[a].epoch < e
      BY <1>2, <2>3, <2>4, <3>1
    <3> QED BY <2>2, <2>7, <3>1, <3>2, BlankEpoch
  <2>8. CASE a # p /\ b # p
    <3> DEFINE x == IF a > p THEN a - 1 ELSE a
               y == IF b > p THEN b - 1 ELSE b
    <3>1. x \in 0 .. i /\ y \in 0 .. i /\ x < y
      BY <1>2, <2>0, <2>8
    <3>2. g.arr[a] = h.arr[x] /\ g.arr[b] = h.arr[y]
      BY <2>1, <2>2, <2>8
    <3> HIDE DEF x, y
    <3> QED BY <1>1, <3>1, <3>2
  <2> QED BY <2>6, <2>7, <2>8
<1>7. Rising(g)
  <2> SUFFICES ASSUME NEW a \in Positions, NEW b \in Positions, a < b,
                      g.arr[At(i + 1, a)].epoch # NoEpoch
               PROVE  /\ g.arr[At(i + 1, b)].epoch # NoEpoch
                      /\ g.arr[At(i + 1, a)].epoch < g.arr[At(i + 1, b)].epoch
    BY <1>4 DEF Rising
  <2>1. At(i + 1, a) \in Positions /\ At(i + 1, b) \in Positions
    BY <1>2, AtPlace
  <2>2. At(i + 1, a) <= i + 1
    <3> DEFINE x == At(i + 1, a)
    <3>1. x \in Int /\ i + 1 \in Int
      BY <1>2, <2>1, AtFacts
    <3> HIDE DEF x
    <3>2. ~(x > i + 1)
      BY <1>5, <2>1 DEF x
    <3>3. x <= i + 1
      BY <3>1, <3>2
    <3> QED BY <3>3 DEF x
  <2>3. At(i + 1, b) <= i + 1 /\ At(i + 1, a) < At(i + 1, b)
    <3>1. a \in Nat /\ b \in Nat /\ a < MaxItems /\ b < MaxItems /\ MaxItems \in Nat
      BY AtFacts
    <3>2. i \in Nat /\ i < MaxItems - 1
      BY <1>1, <1>2
    <3> HIDE DEF i
    <3> QED BY <2>2, <3>1, <3>2 DEF At
  <2>4. At(i + 1, a) \in 0 .. i + 1 /\ At(i + 1, b) \in 0 .. i + 1
    BY <1>2, <2>1, <2>2, <2>3, AtFacts
  <2> QED BY <1>5, <1>6, <2>1, <2>3, <2>4, AtFacts
<1>8. Packed(g)
  <2>1. ASSUME NEW k \in Positions PROVE g.arr[k].epoch # NoEpoch <=> k <= i + 1
    <3>1. k \in Int /\ i + 1 \in Int /\ NoEpoch \in Nat
      BY <1>2, AtFacts
    <3>2. CASE k <= i + 1
      BY <1>5, <3>1, <3>2
    <3>3. CASE k > i + 1
      BY <1>5, <3>1, <3>3
    <3> QED BY <3>1, <3>2, <3>3
  <2> QED BY <1>2, <1>3, <1>4, <2>1, AtFacts DEF Packed
<1>9. IsRing(g)
  <2>1. ASSUME NEW k \in Positions PROVE g.arr[k].epoch \in 0 .. NoEpoch
    <3>1. k \in Int /\ i + 1 \in Int /\ NoEpoch \in Nat
      BY <1>2, AtFacts
    <3>2. k <= i + 1 \/ k > i + 1
      BY <3>1
    <3> QED BY <1>5, <3>1, <3>2
  <2>2. g.is_empty \in BOOLEAN
    BY <1>3 DEF Ring, IsRing
  <2> QED BY <1>2, <1>3, <1>4, <2>1, <2>2 DEF IsRing
<1>10. Fills(g, h, e)
  <2>1. \A k \in Positions : g.arr[k] = Blank(e) \/ \E j \in Positions : g.arr[k] = h.arr[j]
    <3>1. \A k \in p + 1 .. i + 1 : k - 1 \in Positions
      BY <1>2, AtFacts
    <3> QED BY <3>1
  <2>2. Newest(g) = Newest(h)
    <3>1. i + 1 \in p + 1 .. i + 1 /\ (i + 1) - 1 = i /\ i + 1 # p
      BY <1>2
    <3>2. g.arr[i + 1] = h.arr[i]
      BY <1>2, <3>1
    <3> QED BY <1>4, <3>2 DEF Newest
  <2> QED BY <1>3, <2>1, <2>2 DEF Fills
<1> QED BY <1>7, <1>8, <1>9, <1>10 DEF Ring

\* So does a full one.
LEMMA InsertFullRing ==
  ASSUME NEW h, Ring(h), NEW e \in 0 .. MaxEpoch, ~h.is_empty,
         h.arr[At(h.idx, 0)].epoch # NoEpoch, NEW g, NEW s \in 1 .. MaxItems - 1,
         PlacedIn(g, h, e, At(h.idx, s)),
         h.arr[At(h.idx, s - 1)].epoch < e, e < h.arr[At(h.idx, s)].epoch,
         \A c \in Positions : g.arr[At(h.idx, c)] =
                IF c = 0 THEN h.arr[h.idx] ELSE IF c = s THEN Blank(e)
                ELSE IF c > s THEN h.arr[At(h.idx, c - 1)] ELSE h.arr[At(h.idx, c)]
  PROVE  Ring(g) /\ Fills(g, h, e)
<1> DEFINE i == h.idx
           n == At(i, 0)
           E(c) == h.arr[At(i, c)].epoch
           N(c) == g.arr[At(n, c)].epoch
<1>1. \A c \in Positions : E(c) # NoEpoch
  BY FullUsed
<1>2. /\ i \in Positions /\ n \in Positions
      /\ \A k \in Positions : h.arr[k].epoch \in 0 .. NoEpoch
      /\ {"arr", "idx", "is_empty"} \subseteq DOMAIN h
      /\ s \in Positions /\ s - 1 \in Positions /\ s \in Nat
  <2>1. i \in Positions /\ \A k \in Positions : h.arr[k].epoch \in 0 .. NoEpoch
    BY DEF Ring, IsRing
  <2>2. {"arr", "idx", "is_empty"} \subseteq DOMAIN h
    BY DEF Ring, IsRing
  <2>3. n \in Positions
    BY <2>1, AtFacts, AtPlace
  <2> QED BY <2>1, <2>2, <2>3, AtFacts
<1>3. /\ g.is_empty = h.is_empty /\ g.idx = n
      /\ g.arr = [k \in Positions |-> g.arr[k]] /\ g.arr[At(i, s)] = Blank(e)
      /\ DOMAIN g = DOMAIN h /\ g = [f \in DOMAIN h |-> g[f]]
      /\ \A f \in DOMAIN h \ {"arr", "idx"} : g[f] = h[f]
  BY DEF PlacedIn
<1>4. \A c \in Positions : E(c) \in 0 .. NoEpoch
  BY <1>2, AtPlace
<1>5. \A a, b \in Positions : a < b => E(a) < E(b)
  BY <1>1 DEF Ring, Rising
\* the places, seen from the new end
<1>6. \A c \in Positions : IF c = MaxItems - 1 THEN At(n, c) = At(i, 0)
                           ELSE c + 1 \in Positions /\ At(n, c) = At(i, c + 1)
  <2>1. i \in Nat /\ i < MaxItems /\ MaxItems \in Nat
    BY <1>2, AtFacts
  <2> HIDE DEF i
  <2> QED BY <2>1 DEF At, Positions
<1>7. At(i, MaxItems - 1) = i
  BY <1>2, AtLast
\* the epochs, seen from the new end
<1>8. \A c \in Positions : N(c) = IF c + 1 = s THEN e ELSE IF c + 1 < s THEN E(c + 1) ELSE E(c)
  <2> SUFFICES ASSUME NEW c \in Positions
               PROVE  N(c) = IF c + 1 = s THEN e ELSE IF c + 1 < s THEN E(c + 1) ELSE E(c)
    OBVIOUS
  <2>0. c \in Nat
    BY AtFacts
  <2>1. CASE c = MaxItems - 1
    <3>1. g.arr[At(n, c)] = h.arr[i]
      BY <1>6, <2>1, AtFacts
    <3>2. ~(c + 1 < s) /\ c + 1 # s
      BY <1>2, <2>0, <2>1, AtFacts
    <3> QED BY <1>7, <2>1, <3>1, <3>2
  <2>2. CASE c # MaxItems - 1
    <3>1. c + 1 \in Positions /\ At(n, c) = At(i, c + 1) /\ c + 1 # 0 /\ (c + 1) - 1 = c
      BY <1>6, <2>0, <2>2
    <3>2. g.arr[At(n, c)] = IF c + 1 = s THEN Blank(e)
                ELSE IF c + 1 > s THEN h.arr[At(i, c)] ELSE h.arr[At(i, c + 1)]
      BY <3>1
    <3>3. CASE c + 1 = s
      BY <3>2, <3>3, BlankEpoch
    <3>4. CASE c + 1 < s
      <4>1. ~(c + 1 > s) /\ c + 1 # s
        BY <1>2, <2>0, <3>4
      <4> QED BY <3>2, <3>4, <4>1
    <3>5. CASE c + 1 > s
      <4>1. ~(c + 1 < s) /\ c + 1 # s
        BY <1>2, <2>0, <3>5
      <4> QED BY <3>2, <3>5, <4>1
    <3> QED BY <1>2, <2>0, <3>3, <3>4, <3>5
  <2> QED BY <2>1, <2>2
<1> HIDE DEF E, N
<1>9. E(s - 1) < e /\ e < E(s)
  BY DEF E
<1>10. \A a, b \in Positions : a < b => N(a) < N(b)
  <2> SUFFICES ASSUME NEW a \in Positions, NEW b \in Positions, a < b PROVE N(a) < N(b)
    OBVIOUS
  <2>0. a \in Nat /\ b \in Nat /\ a < MaxItems /\ b < MaxItems /\ NoEpoch \in Nat
    BY AtFacts
  <2>1. a + 1 < s => a + 1 \in Positions
    BY <1>2, <2>0, AtFacts
  <2>2. b + 1 < s => b + 1 \in Positions
    BY <1>2, <2>0, AtFacts
  <2>3. CASE a + 1 = s
    <3>1. N(a) = e /\ N(b) = E(b)
      BY <1>2, <1>8, <2>0, <2>3
    <3>2. b = s \/ E(s) < E(b)
      BY <1>2, <1>5, <2>0, <2>3
    <3>3. e < E(b)
      BY <1>2, <1>4, <1>9, <2>0, <3>2
    <3> QED BY <3>1, <3>3
  <2>4. CASE b + 1 = s
    <3>1. N(b) = e /\ N(a) = E(a + 1) /\ a + 1 \in Positions
      BY <1>2, <1>8, <2>0, <2>1, <2>4
    <3>2. a + 1 = s - 1 \/ E(a + 1) < E(s - 1)
      BY <1>2, <1>5, <2>0, <2>4, <3>1
    <3>3. E(a + 1) < e
      BY <1>2, <1>4, <1>9, <2>0, <3>1, <3>2
    <3> QED BY <3>1, <3>3
  <2>5. CASE a + 1 # s /\ b + 1 # s
    <3> DEFINE x == IF a + 1 < s THEN a + 1 ELSE a
               y == IF b + 1 < s THEN b + 1 ELSE b
    <3>1. N(a) = E(x) /\ N(b) = E(y)
      BY <1>8, <2>5
    <3>2. x \in Positions /\ y \in Positions /\ x < y
      BY <1>2, <2>0, <2>1, <2>2, <2>5
    <3> HIDE DEF x, y
    <3> QED BY <1>5, <3>1, <3>2
  <2> QED BY <2>3, <2>4, <2>5
<1>11. \A c \in Positions : N(c) \in 0 .. NoEpoch - 1
  <2> SUFFICES ASSUME NEW c \in Positions PROVE N(c) \in 0 .. NoEpoch - 1
    OBVIOUS
  <2>1. c + 1 < s => c + 1 \in Positions
    BY <1>2, AtFacts
  <2>2. \A x \in Positions : E(x) \in 0 .. NoEpoch - 1
    <3>1. \A x \in Positions : E(x) # NoEpoch
      BY <1>1 DEF E
    <3> QED BY <1>4, <3>1, AtFacts
  <2>3. e \in 0 .. NoEpoch - 1
    BY AtFacts
  <2> QED BY <1>8, <2>1, <2>2, <2>3
<1>12. Rising(g)
  <2>1. \A c \in Positions : N(c) # NoEpoch
    BY <1>11, AtFacts
  <2> QED BY <1>3, <1>10, <2>1 DEF Rising, N
<1>13. \A k \in Positions : g.arr[k].epoch \in 0 .. NoEpoch - 1
  <2>1. \A k \in Positions : \E c \in Positions : At(n, c) = k
    BY <1>2, Places
  <2> QED BY <1>11, <2>1 DEF N
<1>14. Packed(g)
  <2>1. \A k \in Positions : g.arr[k].epoch # NoEpoch
    BY <1>13, AtFacts
  <2>2. At(n, 0) \in Positions
    BY <1>2, AtFacts, AtPlace
  <2> QED BY <1>2, <1>3, <2>1, <2>2 DEF Packed
<1>15. IsRing(g)
  <2>1. \A k \in Positions : g.arr[k].epoch \in 0 .. NoEpoch
    BY <1>13, AtFacts
  <2>2. g.is_empty \in BOOLEAN
    BY <1>3 DEF Ring, IsRing
  <2> QED BY <1>2, <1>3, <2>1, <2>2 DEF IsRing
<1>16. Fills(g, h, e)
  <2>1. ASSUME NEW k \in Positions
        PROVE  g.arr[k] = Blank(e) \/ \E j \in Positions : g.arr[k] = h.arr[j]
    <3>1. PICK c \in Positions : At(i, c) = k
      BY <1>2, Places
    <3>2. c > s => c - 1 \in Positions
      BY <1>2, AtFacts
    <3>3. \A x \in Positions : At(i, x) \in Positions
      BY <1>2, AtPlace
    <3> QED BY <1>2, <3>1, <3>2, <3>3
  <2>2. Newest(g) = Newest(h)
    BY <1>3, AtFacts DEF Newest
  <2> QED BY <1>3, <2>1, <2>2 DEF Fills
<1> QED BY <1>12, <1>14, <1>15, <1>16 DEF Ring

\* insert: the buffer stays in order, keeps its newest entry, and gets at most a blank
\* entry of the epoch.
LEMMA InsertKeepsRing ==
  ASSUME NEW h, Ring(h), NEW e \in 0 .. MaxEpoch
  PROVE  Ring(Insert(h, e)) /\ Fills(Insert(h, e), h, e)
<1>1. CASE Insert(h, e) = h
  <2>1. Fills(h, h, e)
    BY DEF Fills
  <2> QED BY <1>1, <2>1
<1>2. CASE Insert(h, e) # h
  <2>1. ~h.is_empty /\ ~(e < MinEpoch(h)) /\ ~(e > Newest(h).epoch)
    BY <1>2, InsertCases
  <2>2. CASE h.arr[At(h.idx, 0)].epoch = NoEpoch
    BY <1>2, <2>1, <2>2, InsertPacked, InsertPackedRing
  <2>3. CASE h.arr[At(h.idx, 0)].epoch # NoEpoch
    BY <1>2, <2>1, <2>3, InsertFull, InsertFullRing
  <2> QED BY <2>2, <2>3
<1> QED BY <1>1, <1>2

-----------------------------------------------------------------------------
(* The setters *)

\* A fact is a number or unset; what tips say is one of two words.
Number == Int \cup {Unset}
Tips == {Unset, "paid", "none"}

\* An entry.
EntryType ==
  [epoch : 0 .. NoEpoch, credits : Number, commission : Number, mev : Number, tips : Tips,
   stake : Number, blocks : Number, bam : Number, ip : Number, version : Number]

\* The fields of an entry.
EntryFields == {"epoch", "credits", "commission", "mev", "tips", "stake", "blocks", "bam", "ip", "version"}

\* What a setter may write into an entry.
IsFacts(facts) ==
  /\ DOMAIN facts \subseteq EntryFields \ {"epoch"}
  /\ \A f \in DOMAIN facts : facts[f] \in IF f = "tips" THEN Tips ELSE Number

\* An entry into which facts are written is one, and of the same epoch.
LEMMA WithFacts ==
  ASSUME NEW x \in EntryType, NEW facts, IsFacts(facts)
  PROVE  /\ With(x, facts) \in EntryType
         /\ With(x, facts).epoch = x.epoch
         /\ \A f \in EntryFields : With(x, facts)[f] = IF f \in DOMAIN facts THEN facts[f] ELSE x[f]
<1>1. DOMAIN x = EntryFields
  BY DEF EntryType, EntryFields
<1>2. \A f \in EntryFields : With(x, facts)[f] = IF f \in DOMAIN facts THEN facts[f] ELSE x[f]
  BY <1>1 DEF With
<1> DEFINE y == With(x, facts)
<1>3. y = [f \in EntryFields |-> y[f]]
  BY <1>1 DEF With
<1>4. y.epoch = x.epoch
  BY <1>2 DEF IsFacts, EntryFields
<1>5. /\ y.credits \in Number /\ y.commission \in Number /\ y.mev \in Number /\ y.tips \in Tips
      /\ y.stake \in Number /\ y.blocks \in Number /\ y.bam \in Number
      /\ y.ip \in Number /\ y.version \in Number /\ y.epoch \in 0 .. NoEpoch
  <2>1. \A f \in EntryFields : f \in DOMAIN facts => facts[f] \in IF f = "tips" THEN Tips ELSE Number
    BY DEF IsFacts
  <2>2. /\ x.credits \in Number /\ x.commission \in Number /\ x.mev \in Number /\ x.tips \in Tips
        /\ x.stake \in Number /\ x.blocks \in Number /\ x.bam \in Number
        /\ x.ip \in Number /\ x.version \in Number /\ x.epoch \in 0 .. NoEpoch
    BY DEF EntryType
  <2> HIDE DEF y
  <2>3. \A f \in EntryFields : y[f] = IF f \in DOMAIN facts THEN facts[f] ELSE x[f]
    BY <1>2 DEF y
  <2>4. \A f \in EntryFields \ {"tips", "epoch"} : x[f] \in Number
    BY <2>2 DEF EntryFields
  <2>5. \A f \in EntryFields \ {"tips", "epoch"} : y[f] \in Number
    BY <2>1, <2>3, <2>4
  <2>6. y.tips \in Tips
    BY <2>1, <2>2, <2>3 DEF EntryFields
  <2>7. y.epoch \in 0 .. NoEpoch
    BY <1>4, <2>2
  <2> QED BY <2>5, <2>6, <2>7 DEF EntryFields
<1> HIDE DEF y
<1>6. y \in EntryType
  BY <1>3, <1>5 DEF EntryType, EntryFields
<1> QED BY <1>2, <1>4, <1>6 DEF y

\* A ValidatorHistory account.
AccountType ==
  [arr : [Positions -> EntryType], idx : Positions, is_empty : BOOLEAN, age : Int,
   age_epoch : Int, last_ip_timestamp : Int, last_version_timestamp : Int]

\* A blank entry is an entry.
LEMMA BlankTyped == ASSUME NEW e \in 0 .. MaxEpoch PROVE Blank(e) \in EntryType /\ Blank(e).epoch = e
BY AtFacts DEF Blank, DefaultEntry, EntryType, Number, Tips

\* The fields beside the ring.
SameRest(g, h) ==
  /\ g.age = h.age /\ g.age_epoch = h.age_epoch
  /\ g.last_ip_timestamp = h.last_ip_timestamp
  /\ g.last_version_timestamp = h.last_version_timestamp

\* Entries are those of before, a new one of e, or that of e with the facts in it.
Sets(g, h, e, facts) ==
  \A k \in Positions :
    \/ g.arr[k] = With(Blank(e), facts)
    \/ \E j \in Positions : g.arr[k] = h.arr[j]
    \/ \E j \in Positions : h.arr[j].epoch = e /\ g.arr[k] = With(h.arr[j], facts)

\* An entry is rewritten where it is.
LEMMA RewriteEntry ==
  ASSUME NEW h \in AccountType, Ring(h), NEW p \in Positions, NEW x \in EntryType,
         x.epoch = h.arr[p].epoch
  PROVE  /\ [h EXCEPT !.arr[p] = x] \in AccountType
         /\ Ring([h EXCEPT !.arr[p] = x])
         /\ SameRest([h EXCEPT !.arr[p] = x], h)
         /\ \A k \in Positions : [h EXCEPT !.arr[p] = x].arr[k] = IF k = p THEN x ELSE h.arr[k]
         /\ [h EXCEPT !.arr[p] = x].idx = h.idx /\ [h EXCEPT !.arr[p] = x].is_empty = h.is_empty
<1> DEFINE g == [h EXCEPT !.arr[p] = x]
<1>1. g \in AccountType
  BY DEF AccountType
<1>2. SameRest(g, h) /\ g.idx = h.idx /\ g.is_empty = h.is_empty
  BY DEF AccountType, SameRest
<1>3. \A k \in Positions : g.arr[k] = IF k = p THEN x ELSE h.arr[k]
  BY DEF AccountType
<1> HIDE DEF g
<1>4. SameEpochs(g, h)
  BY <1>2, <1>3 DEF SameEpochs
<1>5. /\ {"arr", "idx", "is_empty"} \subseteq DOMAIN g /\ g = [f \in DOMAIN g |-> g[f]]
      /\ g.arr = [k \in Positions |-> g.arr[k]]
  BY <1>1 DEF AccountType
<1>6. Ring(g)
  BY <1>4, <1>5, RewriteKeepsRing
<1> QED BY <1>1, <1>2, <1>3, <1>6 DEF g

\* An epoch that has an entry is found.
LEMMA HeldPosition ==
  ASSUME NEW h, NEW e, Holds(h, e)
  PROVE  PositionOf(h, e) \in Positions /\ h.arr[PositionOf(h, e)].epoch = e
<1> DEFINE S == {k \in Positions : h.arr[k].epoch = e}
<1>1. S \in SUBSET Nat /\ S # {}
  BY AtFacts DEF Holds
<1>2. PICK k \in S : \A j \in S : k <= j
  BY <1>1, MinNatural
<1>3. k \in Positions /\ h.arr[k].epoch = e /\ \A j \in 0 .. k - 1 : h.arr[j].epoch # e
  <2>1. \A j \in 0 .. k - 1 : j \in Positions /\ ~(k <= j)
    BY <1>1, <1>2, AtFacts
  <2> QED BY <1>2, <2>1
<1> QED BY <1>3 DEF PositionOf

\* The setters of a validator's history.
LEMMA SetEntryKeeps ==
  ASSUME NEW h \in AccountType, Ring(h), NEW e \in 0 .. MaxEpoch, NEW facts, IsFacts(facts)
  PROVE  /\ SetEntry(h, e, facts) \in AccountType
         /\ Ring(SetEntry(h, e, facts))
         /\ SameRest(SetEntry(h, e, facts), h)
         /\ Sets(SetEntry(h, e, facts), h, e, facts)
<1> DEFINE g == SetEntry(h, e, facts)
<1>1. CASE IsNew(h, e)
  <2> DEFINE x == With(Blank(e), facts)
  <2>1. x \in EntryType /\ x.epoch = e
    BY BlankTyped, WithFacts
  <2>2. g = Push(h, x)
    BY <1>1 DEF SetEntry
  <2> HIDE DEF x
  <2>3. IsRing(h) /\ h.idx \in Positions
    BY DEF Ring, IsRing
  <2>4. Ring(Push(h, x))
    BY <1>1, <2>1, PushKeepsRing
  <2>5. At(h.idx, 0) \in Positions
    BY <2>3, AtFacts, AtPlace
  <2>6. Push(h, x) = [h EXCEPT !.idx = At(h.idx, 0), !.arr[At(h.idx, 0)] = x, !.is_empty = FALSE]
    <3>1. (h.idx + 1) % MaxItems = At(h.idx, 0)
      BY <2>3, Places
    <3> QED BY <3>1 DEF Push
  <2>7. Push(h, x) \in AccountType /\ SameRest(Push(h, x), h)
    <3> DEFINE n == At(h.idx, 0)
               a == [h.arr EXCEPT ![n] = x]
    <3>1. a \in [Positions -> EntryType]
      BY <2>1, <2>5 DEF AccountType
    <3>2. Push(h, x) = [h EXCEPT !.idx = n, !.arr = a, !.is_empty = FALSE]
      BY <2>6
    <3> HIDE DEF n, a
    <3> QED BY <2>5, <3>1, <3>2 DEF AccountType, SameRest, n
  <2>8. \A k \in Positions : Push(h, x).arr[k] = IF k = At(h.idx, 0) THEN x ELSE h.arr[k]
    BY <2>5, <2>6 DEF AccountType
  <2>9. Sets(Push(h, x), h, e, facts)
    BY <2>8 DEF Sets, x
  <2> QED BY <2>2, <2>4, <2>7, <2>9
<1>2. ASSUME NEW p \in Positions, h.arr[p].epoch = e, g = [h EXCEPT !.arr[p] = With(h.arr[p], facts)]
      PROVE  g \in AccountType /\ Ring(g) /\ SameRest(g, h) /\ Sets(g, h, e, facts)
  <2> DEFINE x == With(h.arr[p], facts)
  <2>1. h.arr[p] \in EntryType
    BY DEF AccountType
  <2>2. x \in EntryType /\ x.epoch = h.arr[p].epoch
    BY <2>1, WithFacts
  <2> HIDE DEF x, g
  <2>3. g = [h EXCEPT !.arr[p] = x]
    BY <1>2 DEF x
  <2>4. g \in AccountType /\ Ring(g) /\ SameRest(g, h)
    BY <2>2, <2>3, RewriteEntry
  <2>5. \A k \in Positions : g.arr[k] = IF k = p THEN x ELSE h.arr[k]
    BY <2>2, <2>3, RewriteEntry
  <2>6. Sets(g, h, e, facts)
    BY <1>2, <2>5 DEF Sets, x
  <2> QED BY <2>4, <2>6
<1>3. CASE ~IsNew(h, e) /\ Newest(h).epoch = e
  <2>1. h.idx \in Positions /\ h.arr[h.idx].epoch = e
    BY <1>3 DEF Ring, IsRing, Newest
  <2>2. g = [h EXCEPT !.arr[h.idx] = With(h.arr[h.idx], facts)]
    BY <1>3 DEF SetEntry
  <2> QED BY <1>2, <2>1, <2>2
<1>4. CASE ~IsNew(h, e) /\ Newest(h).epoch # e /\ Holds(h, e)
  <2> DEFINE p == PositionOf(h, e)
  <2>1. p \in Positions /\ h.arr[p].epoch = e
    BY <1>4, HeldPosition
  <2>2. g = [h EXCEPT !.arr[p] = With(h.arr[p], facts)]
    BY <1>4 DEF SetEntry
  <2> HIDE DEF p
  <2> QED BY <1>2, <2>1, <2>2
<1>5. CASE ~IsNew(h, e) /\ Newest(h).epoch # e /\ ~Holds(h, e)
  <2>1. g = h
    BY <1>5 DEF SetEntry
  <2>2. SameRest(h, h) /\ Sets(h, h, e, facts)
    BY DEF SameRest, Sets
  <2> QED BY <2>1, <2>2
<1> QED BY <1>1, <1>3, <1>4, <1>5

-----------------------------------------------------------------------------
(* epoch_range *)

\* epoch_range finds what there is in the range.
LEMMA RangeIsWhatIsHeld ==
  ASSUME NEW h, Ring(h), NEW first \in Int, NEW last \in Int, last <= MaxEpoch
  PROVE  EpochRange(h, first, last) =
           {h.arr[k] : k \in {j \in Positions : h.arr[j].epoch \in first .. last}}
<1> DEFINE chain == Chain(h)
           asked == {k \in 1 .. MaxItems : chain[k].epoch \in first .. last}
           rising(m) == \A i, j \in asked : i < j /\ j <= m => chain[i].epoch < chain[j].epoch
<1>0. h.idx \in Positions /\ MaxItems \in Nat
  BY AtFacts DEF Ring, IsRing
<1>1. \A k \in 1 .. MaxItems : k - 1 \in Positions /\ chain[k] = h.arr[At(h.idx, k - 1)]
  <2>1. ASSUME NEW k \in 1 .. MaxItems
        PROVE  k - 1 \in Positions /\ (h.idx + k) % MaxItems = At(h.idx, k - 1)
    <3>1. k - 1 \in Positions /\ h.idx + 1 + (k - 1) = h.idx + k
      BY <1>0, AtFacts
    <3>2. (h.idx + 1 + (k - 1)) % MaxItems = At(h.idx, k - 1)
      BY <1>0, <3>1, AtPlace
    <3> QED BY <3>1, <3>2
  <2> QED BY <2>1 DEF Chain
<1>2. \A i, j \in asked : i < j => chain[i].epoch < chain[j].epoch
  <2> SUFFICES ASSUME NEW i \in asked, NEW j \in asked, i < j
               PROVE  chain[i].epoch < chain[j].epoch
    OBVIOUS
  <2>1. i \in 1 .. MaxItems /\ j \in 1 .. MaxItems /\ chain[i].epoch \in first .. last
    OBVIOUS
  <2>2. chain[i].epoch # NoEpoch
    BY <2>1, AtFacts
  <2> HIDE DEF chain, asked
  <2>3. i - 1 \in Positions /\ j - 1 \in Positions /\ i - 1 < j - 1
    BY <1>1, <2>1
  <2> QED BY <1>1, <2>1, <2>2, <2>3 DEF Ring, Rising
<1>3. EpochRange(h, first, last) = {chain[k] : k \in asked}
  <2>1. \A m \in asked : rising(m)
    <3> HIDE DEF asked, chain
    <3> QED BY <1>2
  <2>2. {m \in asked : rising(m)} = asked
    BY <2>1
  <2>3. EpochRange(h, first, last) = {chain[k] : k \in {m \in asked : rising(m)}}
    BY DEF EpochRange
  <2> HIDE DEF asked, chain, rising
  <2> QED BY <2>2, <2>3
<1>4. ASSUME NEW k \in Positions, h.arr[k].epoch \in first .. last
      PROVE  \E m \in asked : chain[m] = h.arr[k]
  <2>1. PICK c \in Positions : At(h.idx, c) = k
    BY <1>0, Places
  <2>2. c + 1 \in 1 .. MaxItems /\ (c + 1) - 1 = c
    BY AtFacts
  <2>3. chain[c + 1] = h.arr[k]
    BY <1>1, <2>1, <2>2
  <2> HIDE DEF chain
  <2>4. c + 1 \in asked
    BY <1>4, <2>2, <2>3
  <2> QED BY <2>3, <2>4
<1>5. ASSUME NEW m \in asked
      PROVE  \E k \in Positions : h.arr[k].epoch \in first .. last /\ chain[m] = h.arr[k]
  <2>1. m \in 1 .. MaxItems /\ chain[m].epoch \in first .. last
    OBVIOUS
  <2> HIDE DEF chain, asked
  <2>2. chain[m] = h.arr[At(h.idx, m - 1)] /\ At(h.idx, m - 1) \in Positions
    BY <1>0, <1>1, <2>1, AtPlace
  <2> QED BY <2>1, <2>2
<1> HIDE DEF chain, asked
<1> QED BY <1>3, <1>4, <1>5

\* The ring's invariant is what SortedByEpoch says of its entries.
LEMMA RingSorted == Ring(account) => SortedByEpoch
<1> SUFFICES ASSUME Ring(account) PROVE SortedByEpoch
  OBVIOUS
<1> DEFINE h == account
<1>0. h.idx \in Positions /\ MaxItems \in Nat /\ h.is_empty \in BOOLEAN /\ MaxEpoch \in Nat /\ NoEpoch = MaxEpoch + 1
  BY AtFacts DEF Ring, IsRing
<1>1. h.is_empty = (Known = {})
  <2>1. h.is_empty => Known = {}
    BY DEF Ring, Packed, Known
  <2>2. ~h.is_empty => h.idx \in Known
    BY <1>0 DEF Ring, Packed, Known
  <2> QED BY <1>0, <2>1, <2>2
<1>2. ~h.is_empty => Newest(h).epoch # NoEpoch
  BY DEF Ring, Packed, Newest
<1>3. \A k \in 1 .. MaxItems : k - 1 \in Positions /\ Chain(h)[k] = h.arr[At(h.idx, k - 1)]
  <2>1. ASSUME NEW k \in 1 .. MaxItems
        PROVE  k - 1 \in Positions /\ (h.idx + k) % MaxItems = At(h.idx, k - 1)
    <3>1. k - 1 \in Positions /\ h.idx + 1 + (k - 1) = h.idx + k
      BY <1>0, AtFacts
    <3>2. (h.idx + 1 + (k - 1)) % MaxItems = At(h.idx, k - 1)
      BY <1>0, <3>1, AtPlace
    <3> QED BY <3>1, <3>2
  <2> QED BY <2>1 DEF Chain
<1>4. ASSUME NEW j \in 1 .. MaxItems, NEW k \in 1 .. MaxItems, j < k, Chain(h)[j].epoch # NoEpoch
      PROVE  Chain(h)[k].epoch # NoEpoch /\ Chain(h)[j].epoch < Chain(h)[k].epoch
  <2>1. j - 1 \in Positions /\ k - 1 \in Positions /\ j - 1 < k - 1
    BY <1>3, <1>4
  <2> QED BY <1>3, <1>4, <2>1 DEF Ring, Rising
<1>5. ASSUME NEW first \in 0 .. MaxEpoch, NEW last \in 0 .. MaxEpoch
      PROVE  EpochRange(h, first, last) =
               {h.arr[k] : k \in {j \in Known : h.arr[j].epoch \in first .. last}}
  <2>1. first \in Int /\ last \in Int /\ last <= MaxEpoch
    BY <1>0
  <2>2. EpochRange(h, first, last) =
           {h.arr[k] : k \in {j \in Positions : h.arr[j].epoch \in first .. last}}
    BY <2>1, RangeIsWhatIsHeld
  <2>3. {j \in Positions : h.arr[j].epoch \in first .. last} = {j \in Known : h.arr[j].epoch \in first .. last}
    BY <1>0, <2>1 DEF Known
  <2> QED BY <2>2, <2>3
<1> QED BY <1>1, <1>2, <1>4, <1>5 DEF SortedByEpoch

-----------------------------------------------------------------------------
(* The history as a log: what a step keeps of it *)

\* The facts that are written as the number of the epoch they are about.
FactFields == {"credits", "commission", "mev", "stake", "blocks", "bam"}

\* What an entry says stays said, and tips stay the same.
Kept(x, y) ==
  /\ \A f \in FactFields : x[f] # Unset => y[f] # Unset
  /\ x.tips # Unset => y.tips = x.tips

\* All places are in use.
AllUsed(h) == \A k \in Positions : h.arr[k].epoch # NoEpoch

\* Every entry is kept, or was older than all that a full buffer now holds.
KeptOrOld(h, g) ==
  \A j \in Positions : h.arr[j].epoch # NoEpoch =>
    \/ \E k \in Positions : g.arr[k].epoch = h.arr[j].epoch /\ Kept(h.arr[j], g.arr[k])
    \/ AllUsed(g) /\ \A k \in Positions : h.arr[j].epoch < g.arr[k].epoch

\* Nothing is put in front of what there was.
Behind(h, g) ==
  \A k \in Positions : g.arr[k].epoch # NoEpoch =>
    \/ \A j \in Positions : h.arr[j].epoch = NoEpoch
    \/ \E j \in Positions : h.arr[j].epoch # NoEpoch /\ h.arr[j].epoch <= g.arr[k].epoch

\* The entries of an account after some of its instructions.
Survives(h, g) == KeptOrOld(h, g) /\ Behind(h, g) /\ (AllUsed(h) => AllUsed(g))

\* Epochs are numbers.
Numbered(h) == \A k \in Positions : h.arr[k].epoch \in Int

\* What survives two steps survives both.
LEMMA SurvivesTwice ==
  ASSUME NEW h, NEW g, NEW r, Numbered(h), Numbered(g), Numbered(r),
         Survives(h, g), Survives(g, r)
  PROVE  Survives(h, r)
<1>1. AllUsed(h) => AllUsed(r)
  BY DEF Survives
<1>2. 0 \in Positions
  BY AtFacts
<1>3. ASSUME NEW k \in Positions, r.arr[k].epoch # NoEpoch
      PROVE  \/ \A j \in Positions : h.arr[j].epoch = NoEpoch
             \/ \E j \in Positions : h.arr[j].epoch # NoEpoch /\ h.arr[j].epoch <= r.arr[k].epoch
  <2>1. CASE \A j \in Positions : g.arr[j].epoch = NoEpoch
    <3>1. ~AllUsed(g)
      BY <1>2, <2>1 DEF AllUsed
    <3>2. \A j \in Positions : h.arr[j].epoch = NoEpoch
      BY <2>1, <3>1 DEF Survives, KeptOrOld
    <3> QED BY <3>2
  <2>2. ASSUME NEW j \in Positions, g.arr[j].epoch # NoEpoch, g.arr[j].epoch <= r.arr[k].epoch
        PROVE  \/ \A i \in Positions : h.arr[i].epoch = NoEpoch
               \/ \E i \in Positions : h.arr[i].epoch # NoEpoch /\ h.arr[i].epoch <= r.arr[k].epoch
    BY <2>2 DEF Survives, Behind, Numbered
  <2> QED BY <1>3, <2>1, <2>2 DEF Survives, Behind
<1>4. ASSUME NEW j \in Positions, h.arr[j].epoch # NoEpoch
      PROVE  \/ \E k \in Positions : r.arr[k].epoch = h.arr[j].epoch /\ Kept(h.arr[j], r.arr[k])
             \/ AllUsed(r) /\ \A k \in Positions : h.arr[j].epoch < r.arr[k].epoch
  <2>1. ASSUME NEW i \in Positions, g.arr[i].epoch = h.arr[j].epoch, Kept(h.arr[j], g.arr[i])
        PROVE  \/ \E k \in Positions : r.arr[k].epoch = h.arr[j].epoch /\ Kept(h.arr[j], r.arr[k])
               \/ AllUsed(r) /\ \A k \in Positions : h.arr[j].epoch < r.arr[k].epoch
    <3>1. ASSUME NEW k \in Positions, r.arr[k].epoch = g.arr[i].epoch, Kept(g.arr[i], r.arr[k])
          PROVE  r.arr[k].epoch = h.arr[j].epoch /\ Kept(h.arr[j], r.arr[k])
      BY <2>1, <3>1 DEF Kept
    <3>2. \/ \E k \in Positions : r.arr[k].epoch = g.arr[i].epoch /\ Kept(g.arr[i], r.arr[k])
          \/ AllUsed(r) /\ \A k \in Positions : g.arr[i].epoch < r.arr[k].epoch
      BY <1>4, <2>1 DEF Survives, KeptOrOld
    <3> QED BY <2>1, <3>1, <3>2
  <2>2. CASE AllUsed(g) /\ \A k \in Positions : h.arr[j].epoch < g.arr[k].epoch
    <3>1. AllUsed(r)
      BY <2>2 DEF Survives
    <3>2. ASSUME NEW k \in Positions PROVE h.arr[j].epoch < r.arr[k].epoch
      <4>1. r.arr[k].epoch # NoEpoch
        BY <3>1 DEF AllUsed
      <4>2. PICK i \in Positions : g.arr[i].epoch <= r.arr[k].epoch
        BY <1>2, <2>2, <4>1 DEF Survives, Behind, AllUsed
      <4> QED BY <2>2, <4>2 DEF Numbered
    <3> QED BY <3>1, <3>2
  <2> QED BY <1>4, <2>1, <2>2 DEF Survives, KeptOrOld
<1> QED BY <1>1, <1>3, <1>4 DEF Survives, KeptOrOld, Behind

\* What is written into entries, or beside the ring, takes nothing away.
LEMMA RewriteSurvives ==
  ASSUME NEW h, NEW g, Numbered(h),
         \A k \in Positions : g.arr[k].epoch = h.arr[k].epoch /\ Kept(h.arr[k], g.arr[k])
  PROVE  Survives(h, g)
<1>1. KeptOrOld(h, g)
  BY DEF KeptOrOld
<1>2. Behind(h, g)
  BY DEF Behind, Numbered
<1> QED BY <1>1, <1>2 DEF Survives, AllUsed

\* An entry that is moved is kept.
LEMMA KeptItself == ASSUME NEW x PROVE Kept(x, x)
BY DEF Kept

\* push overwrites the oldest entry of a full buffer.
LEMMA PushSurvives ==
  ASSUME NEW h, Ring(h), NEW x, x.epoch \in 0 .. MaxEpoch, IsNew(h, x.epoch)
  PROVE  Survives(h, Push(h, x))
<1> DEFINE n == At(h.idx, 0)
           g == Push(h, x)
<1>1. /\ h.idx \in Positions /\ n \in Positions /\ 0 \in Positions /\ IsRing(h)
      /\ NoEpoch \in Int /\ MaxEpoch \in Int /\ x.epoch # NoEpoch /\ x.epoch \in Int
  <2>1. h.idx \in Positions /\ IsRing(h)
    BY DEF Ring, IsRing
  <2>2. n \in Positions
    BY <2>1, AtFacts, AtPlace
  <2> QED BY <2>1, <2>2, AtFacts
<1>2. Numbered(h)
  BY RingOrder DEF Numbered
<1>3. \A k \in Positions : g.arr[k] = IF k = n THEN x ELSE h.arr[k]
  <2>1. g.arr = [h.arr EXCEPT ![n] = x]
    BY <1>1, PushFields
  <2>2. h.arr = [k \in Positions |-> h.arr[k]]
    BY DEF Ring, IsRing
  <2> HIDE DEF g, n
  <2> QED BY <2>1, <2>2
<1> HIDE DEF g
<1>4. \A c \in Positions : At(h.idx, c) \in Positions
  BY <1>1, AtPlace
<1>5. \A k \in Positions : \E c \in Positions : At(h.idx, c) = k
  BY <1>1, Places
<1>6. AllUsed(h) => AllUsed(g)
  BY <1>1, <1>3 DEF AllUsed
<1>7. ~h.is_empty => \A k \in Positions : h.arr[k].epoch # NoEpoch => h.arr[k].epoch < x.epoch
  <2>1. ~h.is_empty => h.arr[h.idx].epoch < x.epoch
    BY DEF IsNew, Newest
  <2>2. ~h.is_empty => \A k \in Positions : h.arr[k].epoch # NoEpoch => h.arr[k].epoch <= h.arr[h.idx].epoch
    BY RingOrder
  <2> QED BY <1>1, <1>2, <2>1, <2>2 DEF Numbered
<1>8. h.is_empty => \A k \in Positions : h.arr[k].epoch = NoEpoch
  BY DEF Ring, Packed
<1>9. Behind(h, g)
  <2>1. ASSUME NEW k \in Positions, g.arr[k].epoch # NoEpoch
        PROVE  \/ \A j \in Positions : h.arr[j].epoch = NoEpoch
               \/ \E j \in Positions : h.arr[j].epoch # NoEpoch /\ h.arr[j].epoch <= g.arr[k].epoch
    <3>1. CASE k # n
      BY <1>2, <1>3, <2>1, <3>1 DEF Numbered
    <3>2. CASE k = n
      <4>1. g.arr[k] = x
        BY <1>3, <3>2
      <4>2. \A j \in Positions : h.arr[j].epoch # NoEpoch => h.arr[j].epoch <= x.epoch
        BY <1>1, <1>2, <1>7, <1>8 DEF Numbered
      <4> QED BY <4>1, <4>2
    <3> QED BY <3>1, <3>2
  <2> QED BY <2>1 DEF Behind
<1>10. KeptOrOld(h, g)
  <2>1. ASSUME NEW j \in Positions, h.arr[j].epoch # NoEpoch
        PROVE  \/ \E k \in Positions : g.arr[k].epoch = h.arr[j].epoch /\ Kept(h.arr[j], g.arr[k])
               \/ AllUsed(g) /\ \A k \in Positions : h.arr[j].epoch < g.arr[k].epoch
    <3>1. CASE j # n
      <4>1. g.arr[j] = h.arr[j] /\ Kept(h.arr[j], h.arr[j])
        BY <1>3, <3>1, KeptItself
      <4>2. g.arr[j].epoch = h.arr[j].epoch /\ Kept(h.arr[j], g.arr[j])
        BY <4>1
      <4> QED BY <4>2
    <3>2. CASE j = n
      <4>1. ~h.is_empty
        BY <1>8, <2>1
      <4>2. AllUsed(h)
        <5>1. \A c \in Positions : h.arr[At(h.idx, c)].epoch # NoEpoch
          BY <2>1, <3>2, FullUsed DEF n
        <5> QED BY <1>5, <5>1 DEF AllUsed
      <4>3. ASSUME NEW k \in Positions PROVE h.arr[j].epoch < g.arr[k].epoch
        <5>1. CASE k = n
          BY <1>3, <1>7, <2>1, <4>1, <5>1
        <5>2. CASE k # n
          <6>1. PICK c \in Positions : At(h.idx, c) = k
            BY <1>5
          <6>2. 0 < c
            BY <5>2, <6>1, AtFacts DEF n
          <6>3. h.arr[n].epoch < h.arr[k].epoch
            BY <1>1, <2>1, <3>2, <6>1, <6>2 DEF Ring, Rising, n
          <6> QED BY <1>3, <3>2, <5>2, <6>3
        <5> QED BY <5>1, <5>2
      <4> QED BY <1>6, <4>2, <4>3
    <3> QED BY <3>1, <3>2
  <2> QED BY <2>1 DEF KeptOrOld
<1> QED BY <1>6, <1>9, <1>10 DEF Survives, g

\* insert moves entries up, and in a full buffer drops the oldest.
LEMMA InsertSurvives ==
  ASSUME NEW h, Ring(h), NEW e \in 0 .. MaxEpoch
  PROVE  Survives(h, Insert(h, e))
<1> DEFINE g == Insert(h, e)
<1>1. /\ h.idx \in Positions /\ Numbered(h) /\ e \in Int /\ NoEpoch \in Int /\ e # NoEpoch
      /\ Blank(e).epoch = e
  <2>1. h.idx \in Positions
    BY DEF Ring, IsRing
  <2>2. Numbered(h)
    BY RingOrder DEF Numbered
  <2> QED BY <2>1, <2>2, AtFacts, BlankEpoch
<1>2. CASE g = h
  <2>1. \A k \in Positions : h.arr[k].epoch = h.arr[k].epoch /\ Kept(h.arr[k], h.arr[k])
    BY KeptItself
  <2> QED BY <1>1, <1>2, <2>1, RewriteSurvives
<1>3. CASE g # h
  <2>1. ~h.is_empty /\ ~(e < MinEpoch(h)) /\ ~(e > Newest(h).epoch)
    BY <1>3, InsertCases
  <2>2. CASE h.arr[At(h.idx, 0)].epoch = NoEpoch
    <3>1. PICK p \in 1 .. h.idx :
             /\ h.arr[p - 1].epoch < e /\ e < h.arr[p].epoch
             /\ \A k \in Positions : g.arr[k] =
                  IF k = p THEN Blank(e) ELSE IF k \in p + 1 .. h.idx + 1 THEN h.arr[k - 1]
                  ELSE h.arr[k]
      BY <1>3, <2>1, <2>2, InsertPacked
    <3>2. h.idx < MaxItems - 1 /\ \A k \in Positions : h.arr[k].epoch # NoEpoch <=> k <= h.idx
      BY <2>1, <2>2, PackedRising
    <3> HIDE DEF g
    <3>3. h.idx \in Nat /\ p \in Nat /\ p - 1 \in Positions /\ p - 1 <= h.idx /\ Positions = 0 .. MaxItems - 1 /\ MaxItems \in Nat
      BY <1>1, AtFacts
    <3>4. ~AllUsed(h)
      BY <1>1, <2>2, AtFacts, AtPlace DEF AllUsed
    <3>5. Behind(h, g)
      <4>1. ASSUME NEW k \in Positions, g.arr[k].epoch # NoEpoch
            PROVE  \E j \in Positions : h.arr[j].epoch # NoEpoch /\ h.arr[j].epoch <= g.arr[k].epoch
        <5>1. CASE k = p
          <6>1. g.arr[k].epoch = e /\ h.arr[p - 1].epoch # NoEpoch /\ h.arr[p - 1].epoch <= e
            BY <1>1, <3>1, <3>2, <3>3, <5>1 DEF Numbered
          <6> QED BY <3>3, <6>1
        <5>2. CASE k # p /\ k \in p + 1 .. h.idx + 1
          <6>1. k - 1 \in Positions /\ g.arr[k] = h.arr[k - 1]
            BY <3>1, <3>3, <5>2
          <6> QED BY <1>1, <4>1, <6>1 DEF Numbered
        <5>3. CASE k # p /\ k \notin p + 1 .. h.idx + 1
          BY <1>1, <3>1, <4>1, <5>3 DEF Numbered
        <5> QED BY <5>1, <5>2, <5>3
      <4> QED BY <4>1 DEF Behind
    <3>6. KeptOrOld(h, g)
      <4>1. ASSUME NEW j \in Positions, h.arr[j].epoch # NoEpoch
            PROVE  \E k \in Positions : g.arr[k] = h.arr[j]
        <5>1. j <= h.idx /\ j \in Nat
          BY <3>2, <3>3, <4>1
        <5>2. CASE j < p
          BY <3>1, <3>3, <5>1, <5>2
        <5>3. CASE j >= p
          <6>1. j + 1 \in Positions /\ j + 1 # p /\ j + 1 \in p + 1 .. h.idx + 1 /\ (j + 1) - 1 = j
            BY <3>2, <3>3, <5>1, <5>3
          <6>2. g.arr[j + 1] = h.arr[j]
            BY <3>1, <6>1
          <6> QED BY <6>1, <6>2
        <5> QED BY <3>3, <5>1, <5>2, <5>3
      <4> QED BY <4>1, KeptItself DEF KeptOrOld
    <3> QED BY <3>4, <3>5, <3>6 DEF Survives, g
  <2>3. CASE h.arr[At(h.idx, 0)].epoch # NoEpoch
    <3> DEFINE E(c) == h.arr[At(h.idx, c)]
    <3>1. PICK s \in 1 .. MaxItems - 1 :
             /\ E(s - 1).epoch < e /\ e < E(s).epoch
             /\ \A c \in Positions : g.arr[At(h.idx, c)] =
                  IF c = 0 THEN h.arr[h.idx] ELSE IF c = s THEN Blank(e)
                  ELSE IF c > s THEN E(c - 1) ELSE E(c)
      BY <1>3, <2>1, <2>3, InsertFull
    <3> HIDE DEF g
    <3>2. /\ Positions = 0 .. MaxItems - 1 /\ MaxItems \in Nat /\ MaxItems > 1 /\ s \in Nat
          /\ s - 1 \in Positions /\ s \in Positions /\ 0 \in Positions /\ MaxItems - 1 \in Positions
      BY AtFacts
    <3>3. /\ \A c \in Positions : At(h.idx, c) \in Positions
          /\ \A k \in Positions : \E c \in Positions : At(h.idx, c) = k
          /\ E(MaxItems - 1) = h.arr[h.idx]
      <4>1. \A c \in Positions : At(h.idx, c) \in Positions
        BY <1>1, AtPlace
      <4>2. \A k \in Positions : \E c \in Positions : At(h.idx, c) = k
        BY <1>1, Places
      <4>3. At(h.idx, MaxItems - 1) = h.idx
        BY <1>1, AtLast
      <4> QED BY <4>1, <4>2, <4>3
    <3>4. \A c \in Positions : E(c).epoch # NoEpoch /\ E(c).epoch \in Int
      BY <1>1, <2>3, <3>3, FullUsed DEF Numbered
    <3>5. \A a, b \in Positions : a < b => E(a).epoch < E(b).epoch
      BY <3>4 DEF Ring, Rising
    <3>6. ASSUME NEW k \in Positions
          PROVE  g.arr[k].epoch # NoEpoch /\ E(0).epoch < g.arr[k].epoch
      <4>1. PICK c \in Positions : At(h.idx, c) = k
        BY <3>3
      <4>2. \A d \in Positions : d > 0 => E(d).epoch # NoEpoch /\ E(0).epoch < E(d).epoch
        BY <3>2, <3>4, <3>5
      <4> HIDE DEF E
      <4>3. CASE c = 0
        <5>1. g.arr[k] = E(MaxItems - 1)
          BY <3>1, <3>3, <4>1, <4>3
        <5> QED BY <3>2, <4>2, <5>1
      <4>4. CASE c = s
        <5>1. g.arr[k].epoch = e
          BY <1>1, <3>1, <3>2, <4>1, <4>4
        <5>2. E(0).epoch <= E(s - 1).epoch
          BY <3>2, <3>4, <3>5
        <5> QED BY <1>1, <3>1, <3>2, <3>4, <5>1, <5>2
      <4>5. CASE c # 0 /\ c # s /\ c > s
        <5>1. g.arr[k] = E(c - 1) /\ c - 1 \in Positions /\ c - 1 > 0
          BY <3>1, <3>2, <4>1, <4>5
        <5> QED BY <4>2, <5>1
      <4>6. CASE c # 0 /\ c # s /\ ~(c > s)
        <5>1. g.arr[k] = E(c) /\ c > 0
          BY <3>1, <3>2, <4>1, <4>6
        <5> QED BY <4>2, <5>1
      <4> QED BY <4>3, <4>4, <4>5, <4>6
    <3>7. ASSUME NEW c \in Positions, c # 0
          PROVE  \E k \in Positions : g.arr[k] = E(c)
      <4> HIDE DEF E
      <4>1. CASE c < s
        <5>1. c # s /\ ~(c > s)
          BY <3>2, <4>1
        <5>2. g.arr[At(h.idx, c)] = E(c)
          BY <3>1, <3>7, <5>1
        <5> QED BY <3>3, <5>2
      <4>2. CASE c >= s /\ c # MaxItems - 1
        <5>1. c + 1 \in Positions /\ c + 1 # 0 /\ c + 1 # s /\ c + 1 > s /\ (c + 1) - 1 = c
          BY <3>2, <4>2
        <5>2. g.arr[At(h.idx, c + 1)] = E(c)
          BY <3>1, <5>1
        <5> QED BY <3>3, <5>1, <5>2
      <4>3. CASE c = MaxItems - 1
        <5>1. g.arr[At(h.idx, 0)] = E(c)
          BY <3>1, <3>2, <3>3, <4>3
        <5> QED BY <3>2, <3>3, <5>1
      <4> QED BY <3>2, <4>1, <4>2, <4>3
    <3>8. AllUsed(g)
      BY <3>6 DEF AllUsed
    <3>9. Behind(h, g)
      <4>1. At(h.idx, 0) \in Positions /\ E(0).epoch # NoEpoch /\ E(0).epoch \in Int
        BY <3>2, <3>3, <3>4
      <4>2. \A k \in Positions : E(0).epoch <= g.arr[k].epoch
        <5>1. \A k \in Positions : g.arr[k].epoch \in Int
          <6>1. Ring(g)
            BY InsertKeepsRing DEF g
          <6> QED BY <6>1, RingOrder
        <5> QED BY <3>6, <4>1, <5>1
      <4> QED BY <4>1, <4>2 DEF Behind
    <3>10. KeptOrOld(h, g)
      <4>1. ASSUME NEW j \in Positions, h.arr[j].epoch # NoEpoch
            PROVE  \/ \E k \in Positions : g.arr[k] = h.arr[j]
                   \/ AllUsed(g) /\ \A k \in Positions : h.arr[j].epoch < g.arr[k].epoch
        <5>1. PICK c \in Positions : At(h.idx, c) = j
          BY <3>3
        <5>2. h.arr[j] = E(c)
          BY <5>1
        <5> HIDE DEF E
        <5> QED BY <3>6, <3>7, <3>8, <5>2
      <4> QED BY <4>1, KeptItself DEF KeptOrOld
    <3> QED BY <3>8, <3>9, <3>10 DEF Survives, g
  <2> QED BY <2>2, <2>3
<1> QED BY <1>2, <1>3

\* The facts that a setter may write into the entry of e: no fact is unset, and tips
\* only where there were none.
Adds(facts, h, e) ==
  /\ IsFacts(facts)
  /\ \A f \in DOMAIN facts \cap FactFields : facts[f] # Unset
  /\ "tips" \in DOMAIN facts => \A k \in Positions : h.arr[k].epoch = e => h.arr[k].tips = Unset

\* The setters.
LEMMA SetEntrySurvives ==
  ASSUME NEW h \in AccountType, Ring(h), NEW e \in 0 .. MaxEpoch, NEW facts, Adds(facts, h, e)
  PROVE  Survives(h, SetEntry(h, e, facts))
<1> DEFINE g == SetEntry(h, e, facts)
<1>1. IsFacts(facts) /\ Numbered(h) /\ \A k \in Positions : h.arr[k] \in EntryType
  BY RingOrder DEF Adds, Numbered, AccountType
<1>2. CASE IsNew(h, e)
  <2> DEFINE x == With(Blank(e), facts)
  <2>1. x \in EntryType /\ x.epoch = e
    BY <1>1, BlankTyped, WithFacts
  <2>2. g = Push(h, x)
    BY <1>2 DEF SetEntry
  <2> HIDE DEF x
  <2> QED BY <1>2, <2>1, <2>2, PushSurvives
<1>3. ASSUME NEW p \in Positions, h.arr[p].epoch = e, g = [h EXCEPT !.arr[p] = With(h.arr[p], facts)]
      PROVE  Survives(h, g)
  <2> DEFINE x == With(h.arr[p], facts)
  <2>1. /\ x \in EntryType /\ x.epoch = h.arr[p].epoch
        /\ \A f \in EntryFields : x[f] = IF f \in DOMAIN facts THEN facts[f] ELSE h.arr[p][f]
    BY <1>1, WithFacts
  <2>2. Kept(h.arr[p], x)
    <3>1. ASSUME NEW f \in FactFields, h.arr[p][f] # Unset PROVE x[f] # Unset
      <4>1. f \in EntryFields
        BY DEF FactFields, EntryFields
      <4> QED BY <2>1, <3>1, <4>1 DEF Adds
    <3>2. h.arr[p].tips # Unset => x.tips = h.arr[p].tips
      <4>1. x.tips = IF "tips" \in DOMAIN facts THEN facts["tips"] ELSE h.arr[p].tips
        BY <2>1 DEF EntryFields
      <4> QED BY <1>3, <4>1 DEF Adds
    <3> QED BY <3>1, <3>2 DEF Kept
  <2> HIDE DEF x, g
  <2>3. g = [h EXCEPT !.arr[p] = x]
    BY <1>3 DEF x
  <2>4. \A k \in Positions : g.arr[k] = IF k = p THEN x ELSE h.arr[k]
    BY <2>1, <2>3, RewriteEntry
  <2>5. \A k \in Positions : g.arr[k].epoch = h.arr[k].epoch /\ Kept(h.arr[k], g.arr[k])
    BY <2>1, <2>2, <2>4, KeptItself
  <2> QED BY <1>1, <2>5, RewriteSurvives
<1>4. CASE ~IsNew(h, e) /\ Newest(h).epoch = e
  <2>1. h.idx \in Positions /\ h.arr[h.idx].epoch = e
    BY <1>4 DEF Ring, IsRing, Newest
  <2>2. g = [h EXCEPT !.arr[h.idx] = With(h.arr[h.idx], facts)]
    BY <1>4 DEF SetEntry
  <2> QED BY <1>3, <2>1, <2>2
<1>5. CASE ~IsNew(h, e) /\ Newest(h).epoch # e /\ Holds(h, e)
  <2> DEFINE p == PositionOf(h, e)
  <2>1. p \in Positions /\ h.arr[p].epoch = e
    BY <1>5, HeldPosition
  <2>2. g = [h EXCEPT !.arr[p] = With(h.arr[p], facts)]
    BY <1>5 DEF SetEntry
  <2> HIDE DEF p
  <2> QED BY <1>3, <2>1, <2>2
<1>6. CASE ~IsNew(h, e) /\ Newest(h).epoch # e /\ ~Holds(h, e)
  <2>1. g = h
    BY <1>6 DEF SetEntry
  <2>2. \A k \in Positions : h.arr[k].epoch = h.arr[k].epoch /\ Kept(h.arr[k], h.arr[k])
    BY KeptItself
  <2> QED BY <1>1, <2>1, <2>2, RewriteSurvives
<1> QED BY <1>2, <1>4, <1>5, <1>6

-----------------------------------------------------------------------------
(* insert has an effect *)

\* An epoch has an entry, or is older than all that have.
HeldOrOld(h, e) ==
  Holds(h, e) \/ \A k \in Positions : h.arr[k].epoch # NoEpoch => e < h.arr[k].epoch

\* The places of a ring.
LEMMA RingFacts ==
  ASSUME NEW h, Ring(h)
  PROVE  /\ h.idx \in Positions /\ h.idx \in Nat /\ 0 \in Positions
         /\ MaxItems \in Nat \ {0} /\ Positions = 0 .. MaxItems - 1
         /\ \A k \in Positions : h.arr[k].epoch \in Int
         /\ (h.idx + 1) % MaxItems = At(h.idx, 0) /\ At(h.idx, 0) \in Positions
         /\ \A k \in Positions : \E c \in Positions : At(h.idx, c) = k
<1>1. h.idx \in Positions
  BY DEF Ring, IsRing
<1>2. MaxItems \in Nat \ {0} /\ Positions = 0 .. MaxItems - 1 /\ 0 \in Positions
  BY AtFacts
<1>3. \A k \in Positions : h.arr[k].epoch \in Int
  BY RingOrder
<1>4. (h.idx + 1) % MaxItems = At(h.idx, 0)
  BY <1>1, Places
<1>5. At(h.idx, 0) \in Positions
  BY <1>1, <1>2, AtPlace
<1>6. \A k \in Positions : \E c \in Positions : At(h.idx, c) = k
  BY <1>1, Places
<1> QED BY <1>1, <1>2, <1>3, <1>4, <1>5, <1>6

\* The search ends at a place.
LEMMA FindPlace ==
  ASSUME NEW h, Ring(h), ~h.is_empty, NEW e \in 0 .. MaxEpoch
  PROVE  FindInsertPosition(h, e) \in Positions
<1>1. /\ h.idx \in Positions /\ h.idx \in Nat /\ MaxItems \in Nat \ {0} /\ Positions = 0 .. MaxItems - 1
      /\ \A k \in Positions : h.arr[k].epoch \in Int
      /\ (h.idx + 1) % MaxItems = At(h.idx, 0)
  BY RingFacts
<1>2. \A x \in Nat : x % MaxItems \in Positions
  BY <1>1
<1>3. CASE h.arr[At(h.idx, 0)].epoch = NoEpoch
  <2> DEFINE epochs == [k \in Positions |-> h.arr[k].epoch]
  <2>1. /\ h.idx < MaxItems - 1
        /\ \A a, b \in 0 .. h.idx : a < b => h.arr[a].epoch < h.arr[b].epoch
    BY <1>3, PackedRising
  <2>2. \A a, b \in 0 .. (h.idx + 1) - 1 : a < b /\ epochs[b] < e => epochs[a] < e
    <3>1. \A k \in 0 .. (h.idx + 1) - 1 : k \in 0 .. h.idx /\ k \in Positions /\ epochs[k] = h.arr[k].epoch /\ h.arr[k].epoch \in Int
      BY <1>1
    <3> HIDE DEF epochs
    <3> SUFFICES ASSUME NEW a \in 0 .. (h.idx + 1) - 1, NEW b \in 0 .. (h.idx + 1) - 1, a < b, epochs[b] < e
                 PROVE  epochs[a] < e
      OBVIOUS
    <3>2. epochs[a] < epochs[b] /\ epochs[a] \in Int /\ epochs[b] \in Int /\ e \in Int
      BY <2>1, <3>1
    <3> QED BY <3>2
  <2> HIDE DEF epochs
  <2>3. FirstNotBelow(Search(epochs, e, h.idx + 1), 0, h.idx + 1, epochs, e)
    <3>1. h.idx + 1 \in Nat
      BY <1>1
    <3> QED BY <2>2, <3>1, SearchPlace
  <2>4. Search(epochs, e, h.idx + 1) \in Nat
    BY <2>3 DEF FirstNotBelow
  <2>5. h.idx # MaxItems - 1
    BY <1>1, <2>1
  <2>6. FindInsertPosition(h, e) = Search(epochs, e, h.idx + 1) % MaxItems
    BY <1>1, <1>3, <2>5 DEF FindInsertPosition, epochs
  <2> QED BY <1>2, <2>4, <2>6
<1>4. CASE h.arr[At(h.idx, 0)].epoch # NoEpoch
  <2> DEFINE E(c) == h.arr[At(h.idx, c)].epoch
             epochs == [c \in Positions |-> h.arr[(h.idx + 1 + c) % MaxItems].epoch]
  <2>1. \A c \in Positions : (h.idx + 1 + c) % MaxItems = At(h.idx, c) /\ At(h.idx, c) \in Positions
    BY <1>1, AtPlace
  <2>2. \A c \in Positions : E(c) # NoEpoch /\ E(c) \in Int
    BY <1>1, <1>4, <2>1, FullUsed
  <2>3. \A a, b \in Positions : a < b => E(a) < E(b)
    BY <2>2 DEF Ring, Rising
  <2>4. \A c \in Positions : epochs[c] = E(c)
    BY <2>1
  <2> HIDE DEF E, epochs
  <2>5. \A a, b \in 0 .. MaxItems - 1 : a < b /\ epochs[b] < e => epochs[a] < e
    BY <1>1, <2>2, <2>3, <2>4
  <2>6. FirstNotBelow(Search(epochs, e, MaxItems), 0, MaxItems, epochs, e)
    BY <1>1, <2>5, SearchPlace
  <2>7. Search(epochs, e, MaxItems) \in Nat
    BY <2>6 DEF FirstNotBelow
  <2>8. FindInsertPosition(h, e) = (h.idx + 1 + Search(epochs, e, MaxItems)) % MaxItems
    BY <1>1, <1>4 DEF FindInsertPosition, epochs
  <2>9. h.idx + 1 + Search(epochs, e, MaxItems) \in Nat
    BY <1>1, <2>7
  <2> QED BY <1>2, <2>8, <2>9
<1> QED BY <1>3, <1>4

\* min_epoch is that of the oldest entry.
LEMMA MinEpochLeast ==
  ASSUME NEW h, Ring(h), ~h.is_empty
  PROVE  MinEpoch(h) \in Int /\ \A k \in Positions : h.arr[k].epoch # NoEpoch => MinEpoch(h) <= h.arr[k].epoch
<1>1. /\ h.idx \in Positions /\ h.idx \in Nat /\ MaxItems \in Nat /\ Positions = 0 .. MaxItems - 1
      /\ 0 \in Positions /\ \A k \in Positions : h.arr[k].epoch \in Int
      /\ (h.idx + 1) % MaxItems = At(h.idx, 0) /\ At(h.idx, 0) \in Positions
  BY RingFacts
<1>2. CASE h.arr[At(h.idx, 0)].epoch = NoEpoch
  <2>1. /\ \A a, b \in 0 .. h.idx : a < b => h.arr[a].epoch < h.arr[b].epoch
        /\ \A k \in Positions : h.arr[k].epoch # NoEpoch <=> k <= h.idx
    BY <1>2, PackedRising
  <2>2. MinEpoch(h) = h.arr[0].epoch
    BY <1>1, <1>2 DEF MinEpoch
  <2>3. ASSUME NEW k \in Positions, h.arr[k].epoch # NoEpoch PROVE h.arr[0].epoch <= h.arr[k].epoch
    <3>1. k \in 0 .. h.idx /\ 0 \in 0 .. h.idx
      BY <1>1, <2>1, <2>3
    <3> QED BY <1>1, <2>1, <3>1
  <2> QED BY <1>1, <2>2, <2>3
<1>3. CASE h.arr[At(h.idx, 0)].epoch # NoEpoch
  <2>1. MinEpoch(h) = h.arr[At(h.idx, 0)].epoch
    BY <1>1, <1>3 DEF MinEpoch
  <2>2. ASSUME NEW k \in Positions, h.arr[k].epoch # NoEpoch
        PROVE  h.arr[At(h.idx, 0)].epoch <= h.arr[k].epoch
    <3>1. PICK c \in Positions : At(h.idx, c) = k
      BY RingFacts
    <3>2. CASE c = 0
      BY <1>1, <3>1, <3>2
    <3>3. CASE c # 0
      <4>1. 0 < c
        BY <1>1, <3>3
      <4>2. h.arr[At(h.idx, 0)].epoch < h.arr[k].epoch
        BY <1>1, <1>3, <3>1, <4>1 DEF Ring, Rising
      <4> QED BY <1>1, <4>2
    <3> QED BY <3>2, <3>3
  <2> QED BY <1>1, <2>1, <2>2
<1> QED BY <1>2, <1>3

\* An epoch up to the newest has an entry after insert, or was too old for one.
LEMMA InsertHolds ==
  ASSUME NEW h, Ring(h), ~h.is_empty, NEW e \in 0 .. MaxEpoch, e <= Newest(h).epoch
  PROVE  HeldOrOld(Insert(h, e), e)
<1> DEFINE p == FindInsertPosition(h, e)
<1>1. p \in Positions
  BY FindPlace
<1>2. h.idx \in Positions /\ h.arr[h.idx].epoch \in Int /\ e \in Int
  BY AtFacts, RingOrder DEF Ring, IsRing
<1> HIDE DEF p
<1>3. ~(e > Newest(h).epoch)
  BY <1>2 DEF Newest
<1>4. CASE e < MinEpoch(h)
  <2>1. Insert(h, e) = h
    BY <1>4, InsertCases
  <2>2. \A k \in Positions : h.arr[k].epoch # NoEpoch => e < h.arr[k].epoch
    BY <1>2, <1>4, MinEpochLeast, RingOrder
  <2> QED BY <2>1, <2>2 DEF HeldOrOld
<1>5. CASE h.arr[p].epoch = e
  <2>1. Insert(h, e) = h
    BY <1>5, InsertCases DEF p
  <2> QED BY <1>1, <1>5, <2>1 DEF HeldOrOld, Holds
<1>6. CASE ~(e < MinEpoch(h)) /\ h.arr[p].epoch # e
  <2> DEFINE a == [Shifted(h, p) EXCEPT ![p] = Blank(e)]
  <2>1. Insert(h, e) = [h EXCEPT !.arr = a, !.idx = (h.idx + 1) % MaxItems]
    BY <1>3, <1>6, InsertCases DEF p
  <2>2. a[p] = Blank(e)
    BY <1>1 DEF Shifted
  <2>3. "arr" \in DOMAIN h /\ "idx" \in DOMAIN h
    BY DEF Ring, IsRing
  <2> HIDE DEF a
  <2>4. Insert(h, e).arr = a
    BY <2>1, <2>3
  <2>5. Insert(h, e).arr[p].epoch = e
    BY <2>2, <2>4, BlankEpoch
  <2> QED BY <1>1, <2>5 DEF HeldOrOld, Holds
<1> QED BY <1>4, <1>5, <1>6

\* A buffer with entries.
LEMMA NotEmpty ==
  ASSUME NEW h, Ring(h), ~h.is_empty
  PROVE  \E k \in Positions : h.arr[k].epoch # NoEpoch
BY DEF Ring, IsRing, Packed

\* What has an entry, or is too old for one, stays so.
LEMMA HeldSurvives ==
  ASSUME NEW h, NEW g, Ring(h), Ring(g), ~h.is_empty, Survives(h, g), NEW e \in 0 .. MaxEpoch,
         HeldOrOld(h, e)
  PROVE  HeldOrOld(g, e)
<1>1. e # NoEpoch /\ e \in Int /\ Numbered(h) /\ Numbered(g)
  BY AtFacts, RingOrder DEF Numbered
<1>2. CASE Holds(h, e)
  <2>1. PICK j \in Positions : h.arr[j].epoch = e
    BY <1>2 DEF Holds
  <2> QED BY <1>1, <2>1 DEF Survives, KeptOrOld, HeldOrOld, Holds
<1>3. CASE \A k \in Positions : h.arr[k].epoch # NoEpoch => e < h.arr[k].epoch
  <2>1. PICK i \in Positions : h.arr[i].epoch # NoEpoch
    BY NotEmpty
  <2>2. ASSUME NEW k \in Positions, g.arr[k].epoch # NoEpoch PROVE e < g.arr[k].epoch
    <3>1. PICK j \in Positions : h.arr[j].epoch # NoEpoch /\ h.arr[j].epoch <= g.arr[k].epoch
      BY <2>1, <2>2 DEF Survives, Behind
    <3> QED BY <1>1, <1>3, <3>1 DEF Numbered
  <2> QED BY <2>2 DEF HeldOrOld
<1> QED BY <1>2, <1>3 DEF HeldOrOld

-----------------------------------------------------------------------------
(* insert_missing_entries *)

\* Where a buffer that blank entries were inserted into comes from.
FilledFrom(g, h, credits) ==
  /\ SameRest(g, h) /\ g.is_empty = h.is_empty /\ Newest(g) = Newest(h)
  /\ \A k \in Positions :
       \/ \E e \in credits : g.arr[k] = Blank(e)
       \/ \E j \in Positions : g.arr[k] = h.arr[j]

\* insert keeps the account's type and the order of the ring.
LEMMA InsertTyped ==
  ASSUME NEW h \in AccountType, Ring(h), NEW e \in 0 .. MaxEpoch
  PROVE  Insert(h, e) \in AccountType /\ Ring(Insert(h, e)) /\ Fills(Insert(h, e), h, e)
<1> DEFINE g == Insert(h, e)
<1>1. Ring(g) /\ Fills(g, h, e)
  BY InsertKeepsRing
<1>2. CASE g = h
  BY <1>1, <1>2
<1> HIDE DEF g
<1>3. \A k \in Positions : g.arr[k] \in EntryType
  <2>1. \A k \in Positions : h.arr[k] \in EntryType
    BY DEF AccountType
  <2> QED BY <1>1, <2>1, BlankTyped DEF Fills
<1>4. /\ g = [f \in DOMAIN g |-> g[f]] /\ g.idx \in Positions /\ g.is_empty \in BOOLEAN
      /\ g.arr = [k \in Positions |-> g.arr[k]]
  BY <1>1 DEF Ring, IsRing
<1>5. g.arr \in [Positions -> EntryType]
  BY <1>3, <1>4
<1>6. /\ DOMAIN h = {"arr", "idx", "is_empty", "age", "age_epoch", "last_ip_timestamp", "last_version_timestamp"}
      /\ h.age \in Int /\ h.age_epoch \in Int /\ h.last_ip_timestamp \in Int /\ h.last_version_timestamp \in Int
  BY DEF AccountType
<1>7. DOMAIN g = DOMAIN h /\ \A f \in DOMAIN h \ {"arr", "idx"} : g[f] = h[f]
  BY <1>1 DEF Fills
<1>8. g.age \in Int /\ g.age_epoch \in Int /\ g.last_ip_timestamp \in Int /\ g.last_version_timestamp \in Int
  BY <1>6, <1>7
<1>9. g \in AccountType
  BY <1>4, <1>5, <1>6, <1>7, <1>8 DEF AccountType
<1> QED BY <1>1, <1>9 DEF g

\* One more blank entry.
LEMMA FillsOnce ==
  ASSUME NEW h \in AccountType, NEW g, NEW r, NEW e, NEW credits, e \in credits,
         FilledFrom(r, h, credits), r \in AccountType, Fills(g, r, e)
  PROVE  FilledFrom(g, h, credits)
<1>1. /\ {"is_empty", "age", "age_epoch", "last_ip_timestamp", "last_version_timestamp"} \subseteq DOMAIN r \ {"arr", "idx"}
  BY DEF AccountType
<1>2. SameRest(g, r) /\ g.is_empty = r.is_empty
  BY <1>1 DEF Fills, SameRest
<1>3. SameRest(g, h) /\ g.is_empty = h.is_empty
  BY <1>2 DEF FilledFrom, SameRest
<1>4. Newest(g) = Newest(h)
  BY DEF Fills, FilledFrom
<1>5. ASSUME NEW k \in Positions
      PROVE  \/ \E c \in credits : g.arr[k] = Blank(c)
             \/ \E j \in Positions : g.arr[k] = h.arr[j]
  BY DEF Fills, FilledFrom
<1> QED BY <1>3, <1>4, <1>5 DEF FilledFrom

\* insert_missing_entries
LEMMA MissingKeeps ==
  ASSUME NEW h \in AccountType, Ring(h), NEW credits \in SUBSET (0 .. MaxEpoch)
  PROVE  /\ InsertMissingEntries(h, credits) \in AccountType
         /\ Ring(InsertMissingEntries(h, credits))
         /\ FilledFrom(InsertMissingEntries(h, credits), h, credits)
         /\ Survives(h, InsertMissingEntries(h, credits))
         /\ ~h.is_empty /\ (\A e \in credits : e <= Newest(h).epoch) =>
              \A e \in credits : HeldOrOld(InsertMissingEntries(h, credits), e)
<1> DEFINE present == {entry.epoch : entry \in EpochRange(h, Min(credits), Max(credits))}
           S == credits \ present
           Good == {r \in AccountType : Ring(r) /\ FilledFrom(r, h, credits) /\ Survives(h, r)}
           pick == [s \in SUBSET S |-> Max(s)]
           g == [p \in Good \X S |-> Insert(p[1], p[2])]
           step(f, s) == IF s = {} THEN h ELSE Insert(f[s \ {Max(s)}], Max(s))
           iter == CHOOSE f : f = [s \in SUBSET S |-> step(f, s)]
<1>1. InsertMissingEntries(h, credits) = iter[S]
  BY DEF InsertMissingEntries, MapThenFoldSet
<1>2. S \in SUBSET (0 .. MaxEpoch) /\ S \in SUBSET credits
  OBVIOUS
<1> HIDE DEF S
<1>3. IsFiniteSet(S) /\ S \in SUBSET Nat /\ MaxEpoch \in Nat
  <2>1. IsFiniteSet(0 .. MaxEpoch) /\ MaxEpoch \in Nat
    BY AtFacts, FS_Interval
  <2>2. IsFiniteSet(S)
    BY <1>2, <2>1, FS_Subset
  <2>3. S \in SUBSET Nat
    BY <1>2, <2>1
  <2> QED BY <2>1, <2>2, <2>3
<1>4. \A s \in SUBSET S : s # {} => Max(s) \in s
  <2>1. ASSUME NEW s \in SUBSET S, s # {} PROVE Max(s) \in s
    <3>1. s \in SUBSET (0 .. MaxEpoch)
      BY <1>2
    <3> QED BY <1>3, <2>1, <3>1, MaxBelow
  <2> QED BY <2>1
<1>5. h \in Good
  <2>1. FilledFrom(h, h, credits)
    BY DEF FilledFrom, SameRest
  <2>2. Numbered(h) /\ \A k \in Positions : h.arr[k].epoch = h.arr[k].epoch /\ Kept(h.arr[k], h.arr[k])
    BY RingOrder, KeptItself DEF Numbered
  <2>3. Survives(h, h)
    BY <2>2, RewriteSurvives
  <2> QED BY <2>1, <2>3
<1>6. ASSUME NEW r \in Good, NEW e \in S PROVE Insert(r, e) \in Good
  <2>1. /\ r \in AccountType /\ Ring(r) /\ FilledFrom(r, h, credits) /\ Survives(h, r)
        /\ e \in 0 .. MaxEpoch /\ e \in credits
    BY <1>2
  <2>2. Insert(r, e) \in AccountType /\ Ring(Insert(r, e)) /\ Fills(Insert(r, e), r, e)
    BY <2>1, InsertTyped
  <2>3. FilledFrom(Insert(r, e), h, credits)
    BY <2>1, <2>2, FillsOnce
  <2>4. Numbered(h) /\ Numbered(r) /\ Numbered(Insert(r, e)) /\ Survives(r, Insert(r, e))
    BY <2>1, <2>2, RingOrder, InsertSurvives DEF Numbered
  <2>5. Survives(h, Insert(r, e))
    BY <2>1, <2>4, SurvivesTwice
  <2> QED BY <2>2, <2>3, <2>5
<1> HIDE DEF Good
<1>7. g \in [Good \X S -> Good]
  BY <1>6
<1>8. \A s \in SUBSET S : s # {} => pick[s] \in s /\ pick[s] = Max(s)
  BY <1>4
<1>9. PICK f \in [SUBSET S -> Good] : Folds(f, S, h, pick, g)
  <2> HIDE DEF g, pick
  <2> QED BY <1>3, <1>5, <1>7, <1>8, SubsetRecursion
<1>10. ASSUME NEW s \in SUBSET S PROVE f[s] = step(f, s)
  <2>1. CASE s = {}
    BY <1>9, <2>1 DEF Folds
  <2>2. CASE s # {}
    <3>1. pick[s] = Max(s) /\ Max(s) \in s /\ Max(s) \in S /\ s \ {Max(s)} \in SUBSET S
      BY <1>8, <2>2
    <3>2. f[s] = g[<<f[s \ {Max(s)}], Max(s)>>]
      <4> HIDE DEF g, pick
      <4> QED BY <1>9, <2>2, <3>1 DEF Folds
    <3>3. f[s \ {Max(s)}] \in Good
      BY <1>9, <3>1
    <3>4. g[<<f[s \ {Max(s)}], Max(s)>>] = Insert(f[s \ {Max(s)}], Max(s))
      BY <3>1, <3>3
    <3> QED BY <2>2, <3>2, <3>4
  <2> QED BY <2>1, <2>2
<1>11. f = [s \in SUBSET S |-> step(f, s)]
  BY <1>9, <1>10
<1>12. iter = [s \in SUBSET S |-> step(iter, s)]
  <2> HIDE DEF step
  <2> QED BY <1>11
<1> HIDE DEF iter
<1>13. iter[{}] = h /\ \A s \in SUBSET S : s # {} => iter[s] = Insert(iter[s \ {pick[s]}], pick[s])
  <2>1. \A s \in SUBSET S : iter[s] = step(iter, s)
    BY <1>12
  <2> QED BY <1>8, <2>1
<1>14. \A s \in SUBSET S : iter[s] \in Good
  <2>1. \A s \in SUBSET S : s # {} /\ iter[s \ {pick[s]}] \in Good => iter[s] \in Good
    <3> HIDE DEF pick
    <3>1. \A s \in SUBSET S : s # {} => pick[s] \in S
      BY <1>8
    <3> QED BY <1>6, <1>13, <3>1
  <2>2. iter[{}] \in Good /\ \A s \in SUBSET S : s # {} => pick[s] \in s
    BY <1>5, <1>8, <1>13
  <2> HIDE DEF pick
  <2> QED BY <1>3, <2>1, <2>2, FoldStays
<1>15. iter[S] \in Good
  BY <1>14
<1>16. ASSUME ~h.is_empty, \A e \in credits : e <= Newest(h).epoch, NEW e \in credits
       PROVE  HeldOrOld(iter[S], e)
  <2> DEFINE filled(s) == \A c \in s : HeldOrOld(iter[s], c)
             B == {s \in SUBSET S : filled(s)}
  <2>1. ASSUME NEW s \in SUBSET S, s # {}, s \ {pick[s]} \in B PROVE s \in B
    <3> DEFINE t == s \ {pick[s]}
    <3>1. pick[s] \in s /\ pick[s] \in S /\ pick[s] \in credits /\ pick[s] \in 0 .. MaxEpoch /\ t \in SUBSET S
      BY <1>2, <1>8, <2>1
    <3> HIDE DEF pick
    <3>2. iter[s] = Insert(iter[t], pick[s])
      BY <1>13, <2>1
    <3>3. iter[t] \in Good /\ iter[s] \in Good
      BY <1>14, <3>1
    <3>4. /\ Ring(iter[t]) /\ Ring(iter[s]) /\ ~iter[t].is_empty /\ Newest(iter[t]) = Newest(h)
      BY <1>16, <3>3 DEF Good, FilledFrom
    <3>5. HeldOrOld(iter[s], pick[s])
      BY <1>16, <3>1, <3>2, <3>4, InsertHolds
    <3>6. Survives(iter[t], iter[s])
      BY <3>1, <3>2, <3>4, InsertSurvives
    <3>7. ASSUME NEW c \in t PROVE HeldOrOld(iter[s], c)
      <4>1. HeldOrOld(iter[t], c) /\ c \in 0 .. MaxEpoch
        BY <1>2, <2>1, <3>1
      <4> QED BY <3>4, <3>6, <4>1, HeldSurvives
    <3>8. filled(s)
      BY <3>5, <3>7
    <3> QED BY <3>8
  <2>2. {} \in B /\ \A s \in SUBSET S : s # {} => pick[s] \in s
    BY <1>8
  <2>3. S \in B
    <3> HIDE DEF B, pick
    <3> QED BY <1>3, <2>1, <2>2, SubsetInduction
  <2>4. CASE e \in S
    BY <2>3, <2>4
  <2>5. CASE e \in present
    <3>1. Holds(h, e)
      <4>1. PICK x \in EpochRange(h, Min(credits), Max(credits)) : x.epoch = e
        BY <2>5
      <4>2. PICK k \in 1 .. MaxItems : x = Chain(h)[k]
        BY <4>1 DEF EpochRange
      <4>3. (h.idx + k) % MaxItems \in Positions
        <5>1. h.idx \in Nat /\ MaxItems \in Nat \ {0} /\ Positions = 0 .. MaxItems - 1
          BY RingFacts
        <5>2. h.idx + k \in Nat
          BY <5>1
        <5> QED BY <5>1, <5>2
      <4>4. x = h.arr[(h.idx + k) % MaxItems]
        BY <4>2 DEF Chain
      <4> QED BY <4>1, <4>3, <4>4 DEF Holds
    <3>2. Survives(h, iter[S]) /\ Ring(iter[S]) /\ e \in 0 .. MaxEpoch
      BY <1>15 DEF Good
    <3> QED BY <1>16, <3>1, <3>2, HeldSurvives DEF HeldOrOld
  <2> QED BY <2>4, <2>5 DEF S
<1> QED BY <1>1, <1>15, <1>16 DEF Good

-----------------------------------------------------------------------------
(* Entries are about their epochs, gossip is fresh *)

\* An entry is of an epoch up to the current one, and its facts are about its epoch.
EntryOf(x, current) ==
  /\ x.epoch # NoEpoch => x.epoch <= current
  /\ \A f \in FactFields : x[f] \in {Unset, x.epoch}

\* The account in epoch current.
AccountIn(h, current) ==
  /\ h \in AccountType /\ Ring(h)
  /\ \A k \in Positions : EntryOf(h.arr[k], current)

\* Every entry's gossip is unset, or that of an entry of before.
GossipFrom(g, h) ==
  /\ g.last_ip_timestamp = h.last_ip_timestamp
  /\ g.last_version_timestamp = h.last_version_timestamp
  /\ \A k \in Positions :
       \/ g.arr[k].ip = Unset /\ g.arr[k].version = Unset
       \/ \E j \in Positions : /\ g.arr[k].epoch = h.arr[j].epoch
                               /\ g.arr[k].ip = h.arr[j].ip /\ g.arr[k].version = h.arr[j].version

\* GossipFresh of any account.
Fresh(h) ==
  \A j, k \in Positions :
    LET a == h.arr[j]
        b == h.arr[k]
    IN  a.epoch # NoEpoch /\ b.epoch # NoEpoch /\ a.epoch <= b.epoch =>
          /\ a.ip # Unset /\ b.ip # Unset => a.ip <= b.ip
          /\ a.version # Unset /\ b.version # Unset => a.version <= b.version
          /\ b.ip # Unset => b.ip <= h.last_ip_timestamp
          /\ b.version # Unset => b.version <= h.last_version_timestamp

\* Gossip that is only moved, or dropped, stays fresh.
LEMMA FreshFrom ==
  ASSUME NEW g, NEW h, Fresh(h), GossipFrom(g, h), \A k \in Positions : h.arr[k].epoch \in Int
  PROVE  Fresh(g)
<1> SUFFICES ASSUME NEW j \in Positions, NEW k \in Positions,
                    g.arr[j].epoch # NoEpoch, g.arr[k].epoch # NoEpoch, g.arr[j].epoch <= g.arr[k].epoch
             PROVE  /\ g.arr[j].ip # Unset /\ g.arr[k].ip # Unset => g.arr[j].ip <= g.arr[k].ip
                    /\ g.arr[j].version # Unset /\ g.arr[k].version # Unset => g.arr[j].version <= g.arr[k].version
                    /\ g.arr[k].ip # Unset => g.arr[k].ip <= g.last_ip_timestamp
                    /\ g.arr[k].version # Unset => g.arr[k].version <= g.last_version_timestamp
  BY DEF Fresh
<1>1. CASE g.arr[k].ip = Unset /\ g.arr[k].version = Unset
  BY <1>1
<1>2. ASSUME NEW m \in Positions, g.arr[k].epoch = h.arr[m].epoch,
             g.arr[k].ip = h.arr[m].ip, g.arr[k].version = h.arr[m].version
      PROVE  /\ g.arr[j].ip # Unset /\ g.arr[k].ip # Unset => g.arr[j].ip <= g.arr[k].ip
             /\ g.arr[j].version # Unset /\ g.arr[k].version # Unset => g.arr[j].version <= g.arr[k].version
             /\ g.arr[k].ip # Unset => g.arr[k].ip <= g.last_ip_timestamp
             /\ g.arr[k].version # Unset => g.arr[k].version <= g.last_version_timestamp
  <2>1. h.arr[m].epoch <= h.arr[m].epoch
    OBVIOUS
  <2>2. /\ g.arr[k].ip # Unset => g.arr[k].ip <= g.last_ip_timestamp
        /\ g.arr[k].version # Unset => g.arr[k].version <= g.last_version_timestamp
    BY <1>2, <2>1 DEF Fresh, GossipFrom
  <2>3. CASE g.arr[j].ip = Unset /\ g.arr[j].version = Unset
    BY <2>2, <2>3
  <2>4. ASSUME NEW i \in Positions, g.arr[j].epoch = h.arr[i].epoch,
               g.arr[j].ip = h.arr[i].ip, g.arr[j].version = h.arr[i].version
        PROVE  /\ g.arr[j].ip # Unset /\ g.arr[k].ip # Unset => g.arr[j].ip <= g.arr[k].ip
               /\ g.arr[j].version # Unset /\ g.arr[k].version # Unset => g.arr[j].version <= g.arr[k].version
    BY <1>2, <2>4 DEF Fresh
  <2> QED BY <2>2, <2>3, <2>4 DEF GossipFrom
<1> QED BY <1>1, <1>2 DEF GossipFrom

\* A fact of epoch e is set in its entry.
LEMMA SetFact ==
  ASSUME NEW current \in 0 .. MaxEpoch, NEW h, AccountIn(h, current), NEW e \in 0 .. current,
         NEW facts, IsFacts(facts), \A f \in DOMAIN facts \cap FactFields : facts[f] = e
  PROVE  AccountIn(SetEntry(h, e, facts), current)
<1> DEFINE g == SetEntry(h, e, facts)
<1>1. e \in 0 .. MaxEpoch /\ MaxEpoch \in Nat /\ NoEpoch = MaxEpoch + 1
  BY AtFacts
<1>2. h \in AccountType /\ Ring(h) /\ \A k \in Positions : h.arr[k] \in EntryType
  BY DEF AccountIn, AccountType
<1>3. g \in AccountType /\ Ring(g) /\ Sets(g, h, e, facts)
  BY <1>1, <1>2, SetEntryKeeps
<1> HIDE DEF g
<1>4. ASSUME NEW x \in EntryType, EntryOf(x, current), x.epoch = e
      PROVE  EntryOf(With(x, facts), current)
  <2>1. With(x, facts).epoch = e
    BY <1>4, WithFacts
  <2>2. ASSUME NEW f \in FactFields PROVE With(x, facts)[f] \in {Unset, e}
    <3>1. f \in EntryFields
      BY DEF FactFields, EntryFields
    <3>2. With(x, facts)[f] = IF f \in DOMAIN facts THEN facts[f] ELSE x[f]
      BY <3>1, WithFacts
    <3> QED BY <1>4, <3>2 DEF EntryOf
  <2> QED BY <1>1, <2>1, <2>2 DEF EntryOf
<1>5. Blank(e) \in EntryType /\ Blank(e).epoch = e /\ EntryOf(Blank(e), current)
  <2>1. Blank(e) \in EntryType /\ Blank(e).epoch = e
    BY <1>1, BlankTyped
  <2>2. \A f \in FactFields : Blank(e)[f] = Unset
    BY DEF Blank, DefaultEntry, FactFields
  <2> QED BY <1>1, <2>1, <2>2 DEF EntryOf
<1>6. ASSUME NEW k \in Positions PROVE EntryOf(g.arr[k], current)
  BY <1>2, <1>3, <1>4, <1>5 DEF Sets, AccountIn
<1> QED BY <1>3, <1>6 DEF AccountIn, g

\* Facts other than gossip leave the gossip alone.
LEMMA SetGossip ==
  ASSUME NEW h \in AccountType, Ring(h), NEW e \in 0 .. MaxEpoch, NEW facts, IsFacts(facts),
         DOMAIN facts \cap {"ip", "version"} = {}
  PROVE  GossipFrom(SetEntry(h, e, facts), h)
<1> DEFINE g == SetEntry(h, e, facts)
<1>1. SameRest(g, h) /\ Sets(g, h, e, facts)
  BY SetEntryKeeps
<1> HIDE DEF g
<1>2. ASSUME NEW x \in EntryType
      PROVE  With(x, facts).epoch = x.epoch /\ With(x, facts).ip = x.ip /\ With(x, facts).version = x.version
  BY WithFacts DEF EntryFields
<1>3. Blank(e) \in EntryType /\ Blank(e).ip = Unset /\ Blank(e).version = Unset
  BY BlankTyped DEF Blank, DefaultEntry
<1>4. \A k \in Positions : h.arr[k] \in EntryType
  BY DEF AccountType
<1>5. ASSUME NEW k \in Positions
      PROVE  \/ g.arr[k].ip = Unset /\ g.arr[k].version = Unset
             \/ \E j \in Positions : /\ g.arr[k].epoch = h.arr[j].epoch
                                     /\ g.arr[k].ip = h.arr[j].ip /\ g.arr[k].version = h.arr[j].version
  BY <1>1, <1>2, <1>3, <1>4 DEF Sets
<1> QED BY <1>1, <1>5 DEF GossipFrom, SameRest, g

\* insert_missing_entries
LEMMA FillMissing ==
  ASSUME NEW current \in 0 .. MaxEpoch, NEW h, AccountIn(h, current), NEW credits \in SUBSET (0 .. current)
  PROVE  /\ AccountIn(InsertMissingEntries(h, credits), current)
         /\ GossipFrom(InsertMissingEntries(h, credits), h)
         /\ Survives(h, InsertMissingEntries(h, credits))
<1> DEFINE g == InsertMissingEntries(h, credits)
<1>1. credits \in SUBSET (0 .. MaxEpoch) /\ MaxEpoch \in Nat /\ NoEpoch = MaxEpoch + 1
  BY AtFacts
<1>2. g \in AccountType /\ Ring(g) /\ FilledFrom(g, h, credits) /\ Survives(h, g)
  BY <1>1, MissingKeeps DEF AccountIn
<1> HIDE DEF g
<1>3. ASSUME NEW e \in credits
      PROVE  EntryOf(Blank(e), current) /\ Blank(e).ip = Unset /\ Blank(e).version = Unset
  <2>1. Blank(e).epoch = e
    BY <1>1, BlankTyped
  <2>2. \A f \in FactFields : Blank(e)[f] = Unset
    BY DEF Blank, DefaultEntry, FactFields
  <2>3. Blank(e).ip = Unset /\ Blank(e).version = Unset
    BY DEF Blank, DefaultEntry
  <2> QED BY <1>1, <2>1, <2>2, <2>3 DEF EntryOf
<1>4. \A k \in Positions : EntryOf(g.arr[k], current)
  BY <1>2, <1>3 DEF FilledFrom, AccountIn
<1>5. GossipFrom(g, h)
  BY <1>2, <1>3 DEF FilledFrom, GossipFrom, SameRest
<1> QED BY <1>2, <1>4, <1>5 DEF AccountIn, g

\* set_epoch_credits
LEMMA CreditsSet ==
  ASSUME NEW current \in 0 .. MaxEpoch, NEW h, AccountIn(h, current), NEW credits
  PROVE  /\ AccountIn(SetEpochCredits(h, credits), current)
         /\ GossipFrom(SetEpochCredits(h, credits), h)
         /\ Survives(h, SetEpochCredits(h, credits))
<1> DEFINE place(i) == (h.idx + MaxItems - i) % MaxItems
           walked(i) == \A j \in 0 .. i - 1 : h.arr[place(j)].epoch # Min(credits)
           reached == {place(i) : i \in {j \in Positions : walked(j)}}
           written == {k \in Positions : k \in reached /\ h.arr[k].epoch \in credits}
           a == [k \in Positions |-> IF k \in written
                   THEN [h.arr[k] EXCEPT !.credits = h.arr[k].epoch] ELSE h.arr[k]]
           g == SetEpochCredits(h, credits)
<1>1. g = [h EXCEPT !.arr = a]
  BY DEF SetEpochCredits
<1> HIDE DEF g, written
<1>2. h \in AccountType /\ Ring(h) /\ \A k \in Positions : h.arr[k] \in EntryType /\ EntryOf(h.arr[k], current)
  BY DEF AccountIn, AccountType
<1>3. ASSUME NEW x \in EntryType, EntryOf(x, current)
      PROVE  LET y == [x EXCEPT !.credits = x.epoch]
             IN  /\ y \in EntryType /\ EntryOf(y, current) /\ y.epoch = x.epoch
                 /\ y.ip = x.ip /\ y.version = x.version /\ Kept(x, y)
  <2>1. x.epoch \in Int /\ x.epoch # Unset
    BY AtFacts, HistoryAssumption DEF EntryType
  <2>2. [x EXCEPT !.credits = x.epoch] \in EntryType
    BY <2>1 DEF EntryType, Number
  <2>3. Kept(x, [x EXCEPT !.credits = x.epoch])
    BY <2>1 DEF Kept, FactFields, EntryType
  <2> QED BY <1>3, <2>2, <2>3 DEF EntryOf, FactFields, EntryType
<1>4. /\ a \in [Positions -> EntryType]
      /\ \A k \in Positions : /\ a[k].epoch = h.arr[k].epoch /\ a[k].ip = h.arr[k].ip
                              /\ a[k].version = h.arr[k].version /\ EntryOf(a[k], current)
                              /\ Kept(h.arr[k], a[k])
  BY <1>2, <1>3, KeptItself
<1> HIDE DEF a
<1>5. g \in AccountType /\ g.arr = a /\ SameRest(g, h) /\ g.idx = h.idx /\ g.is_empty = h.is_empty
  BY <1>1, <1>2, <1>4 DEF AccountType, SameRest
<1>6. SameEpochs(g, h)
  BY <1>4, <1>5 DEF SameEpochs
<1>7. /\ {"arr", "idx", "is_empty"} \subseteq DOMAIN g /\ g = [f \in DOMAIN g |-> g[f]]
      /\ g.arr = [k \in Positions |-> g.arr[k]]
  BY <1>5 DEF AccountType
<1>8. Ring(g)
  BY <1>2, <1>6, <1>7, RewriteKeepsRing
<1>9. GossipFrom(g, h)
  BY <1>4, <1>5 DEF GossipFrom, SameRest
<1>10. Survives(h, g)
  BY <1>2, <1>4, <1>5, RingOrder, RewriteSurvives DEF Numbered
<1> QED BY <1>4, <1>5, <1>8, <1>9, <1>10 DEF AccountIn, g

-----------------------------------------------------------------------------
(* set_epoch_credits and the age; copy_vote_account *)

\* The fields beside the ring may change.
LEMMA RestChanges ==
  ASSUME NEW current, NEW h, AccountIn(h, current), NEW g \in AccountType,
         g.arr = h.arr, g.idx = h.idx, g.is_empty = h.is_empty
  PROVE  AccountIn(g, current)
<1>1. SameEpochs(g, h)
  BY DEF SameEpochs
<1>2. /\ {"arr", "idx", "is_empty"} \subseteq DOMAIN g /\ g = [f \in DOMAIN g |-> g[f]]
      /\ g.arr = [k \in Positions |-> g.arr[k]]
  BY DEF AccountType
<1>3. Ring(g)
  BY <1>1, <1>2, RewriteKeepsRing DEF AccountIn
<1> QED BY <1>3 DEF AccountIn

\* Without a change of the entries there is nothing to survive.
LEMMA SameEntries ==
  ASSUME NEW h, Ring(h), NEW g, g.arr = h.arr
  PROVE  Survives(h, g)
<1>1. Numbered(h) /\ \A k \in Positions : g.arr[k].epoch = h.arr[k].epoch /\ Kept(h.arr[k], g.arr[k])
  BY RingOrder, KeptItself DEF Numbered
<1> QED BY <1>1, RewriteSurvives

\* A number of entries is a number.
LEMMA RangeFinite ==
  ASSUME NEW h, NEW first, NEW last, NEW S \in SUBSET EpochRange(h, first, last)
  PROVE  Cardinality(S) \in Nat
<1> DEFINE asked == {k \in 1 .. MaxItems : Chain(h)[k].epoch \in first .. last}
           rising(m) == \A i, j \in asked : i < j /\ j <= m => Chain(h)[i].epoch < Chain(h)[j].epoch
           K == {m \in asked : rising(m)}
<1>1. IsFiniteSet(1 .. MaxItems)
  BY AtFacts, FS_Interval
<1>2. IsFiniteSet(K)
  <2>1. K \in SUBSET (1 .. MaxItems)
    OBVIOUS
  <2> HIDE DEF K
  <2> QED BY <1>1, <2>1, FS_Subset
<1>3. EpochRange(h, first, last) = {Chain(h)[k] : k \in K}
  BY DEF EpochRange
<1> HIDE DEF K
<1>4. IsFiniteSet(EpochRange(h, first, last))
  BY <1>2, <1>3, ImageFinite
<1> QED BY <1>4, FS_Subset, FS_CardinalityType

\* So is a number of entries at whatever places.
LEMMA EntriesFinite ==
  ASSUME NEW h, NEW S \in SUBSET {h.arr[k] : k \in Positions}
  PROVE  Cardinality(S) \in Nat
<1>1. IsFiniteSet(Positions)
  BY AtFacts, FS_Interval
<1>2. IsFiniteSet({h.arr[k] : k \in Positions})
  BY <1>1, ImageFinite
<1> QED BY <1>2, FS_Subset, FS_CardinalityType

\* update_validator_age
LEMMA AgeUpdated ==
  ASSUME NEW current \in 0 .. MaxEpoch, NEW h, AccountIn(h, current)
  PROVE  /\ AccountIn(UpdateValidatorAge(h, current), current)
         /\ GossipFrom(UpdateValidatorAge(h, current), h)
         /\ UpdateValidatorAge(h, current).is_empty = h.is_empty
         /\ Newest(UpdateValidatorAge(h, current)) = Newest(h)
         /\ Survives(h, UpdateValidatorAge(h, current))
<1> DEFINE g == UpdateValidatorAge(h, current)
           end == IF current = 0 THEN 0 ELSE current - 1
           known == {entry \in {h.arr[k] : k \in Positions} : entry.epoch <= end}
           first == Cardinality({entry \in known : entry.credits # Unset})
           later == Cardinality({entry \in EpochRange(h, h.age_epoch + 1, end) : entry.credits # Unset})
<1>1. current \in Int /\ end \in Int /\ h \in AccountType /\ h.age \in Int
  BY AtFacts DEF AccountIn, AccountType
<1>2. first \in Int
  <2> DEFINE S == {entry \in known : entry.credits # Unset}
  <2>1. S \in SUBSET {h.arr[k] : k \in Positions}
    OBVIOUS
  <2> HIDE DEF S
  <2>2. Cardinality(S) \in Nat
    BY <2>1, EntriesFinite
  <2> QED BY <2>2 DEF S
<1>3. later \in Int
  <2> DEFINE S == {entry \in EpochRange(h, h.age_epoch + 1, end) : entry.credits # Unset}
  <2>1. S \in SUBSET EpochRange(h, h.age_epoch + 1, end)
    OBVIOUS
  <2> HIDE DEF S
  <2>2. Cardinality(S) \in Nat
    BY <2>1, RangeFinite
  <2> QED BY <2>2 DEF S
<1>4. \/ g = h
      \/ g = [h EXCEPT !.age = IF current = 0 THEN 0 ELSE first, !.age_epoch = end]
      \/ g = [h EXCEPT !.age = h.age + later, !.age_epoch = end]
  BY DEF UpdateValidatorAge
<1> HIDE DEF g, first, later, end
<1>5. ASSUME NEW n \in Int, g = [h EXCEPT !.age = n, !.age_epoch = end]
      PROVE  /\ g \in AccountType /\ g.arr = h.arr /\ g.idx = h.idx /\ g.is_empty = h.is_empty
             /\ g.last_ip_timestamp = h.last_ip_timestamp
             /\ g.last_version_timestamp = h.last_version_timestamp
  BY <1>1, <1>5 DEF AccountType
<1>6. /\ g \in AccountType /\ g.arr = h.arr /\ g.idx = h.idx /\ g.is_empty = h.is_empty
      /\ g.last_ip_timestamp = h.last_ip_timestamp
      /\ g.last_version_timestamp = h.last_version_timestamp
  <2>1. CASE g = h
    BY <1>1, <2>1
  <2>2. CASE g = [h EXCEPT !.age = IF current = 0 THEN 0 ELSE first, !.age_epoch = end]
    <3>1. (IF current = 0 THEN 0 ELSE first) \in Int
      BY <1>2
    <3> QED BY <1>5, <2>2, <3>1
  <2>3. CASE g = [h EXCEPT !.age = h.age + later, !.age_epoch = end]
    <3>1. h.age + later \in Int
      BY <1>1, <1>3
    <3> QED BY <1>5, <2>3, <3>1
  <2> QED BY <1>4, <2>1, <2>2, <2>3
<1>7. AccountIn(g, current)
  BY <1>6, RestChanges
<1>8. GossipFrom(g, h) /\ Newest(g) = Newest(h)
  BY <1>6 DEF GossipFrom, Newest
<1>9. Survives(h, g)
  BY <1>6, SameEntries DEF AccountIn
<1> QED BY <1>6, <1>7, <1>8, <1>9 DEF g

\* copy_vote_account: the commission of the epoch, the entries and the credits of the
\* epochs that the vote account remembers, the age.
LEMMA VoteAccountCopied ==
  ASSUME NEW current \in 0 .. MaxEpoch, NEW h, AccountIn(h, current), Fresh(h),
         NEW credits \in SUBSET (0 .. current), NEW g,
         g = UpdateValidatorAge(SetEpochCredits(InsertMissingEntries(
               SetCommissionAndSlot(h, current), credits), credits), current)
  PROVE  AccountIn(g, current) /\ Fresh(g) /\ Survives(h, g)
<1> DEFINE w == SetCommissionAndSlot(h, current)
           f == InsertMissingEntries(w, credits)
           s == SetEpochCredits(f, credits)
           facts == [commission |-> current]
<1>0. \A x : AccountIn(x, current) => \A k \in Positions : x.arr[k].epoch \in Int
  <2>1. \A y \in EntryType : y.epoch \in Int
    BY AtFacts DEF EntryType
  <2>2. \A x \in AccountType : \A k \in Positions : x.arr[k] \in EntryType
    BY DEF AccountType
  <2> QED BY <2>1, <2>2 DEF AccountIn
<1>1. /\ IsFacts(facts) /\ DOMAIN facts \cap {"ip", "version"} = {} /\ Adds(facts, h, current)
      /\ \A x \in DOMAIN facts \cap FactFields : facts[x] = current
  BY AtFacts, HistoryAssumption DEF IsFacts, EntryFields, Number, Adds
<1>2. current \in 0 .. current /\ h \in AccountType /\ Ring(h) /\ w = SetEntry(h, current, facts)
  BY AtFacts DEF SetCommissionAndSlot, AccountIn
<1> HIDE DEF facts, w
<1>3. AccountIn(w, current) /\ GossipFrom(w, h)
  BY <1>1, <1>2, SetFact, SetGossip
<1>W. Survives(h, w)
  BY <1>1, <1>2, SetEntrySurvives
<1> HIDE DEF f
<1>4. AccountIn(f, current) /\ GossipFrom(f, w) /\ Survives(w, f)
  BY <1>3, FillMissing DEF f
<1> HIDE DEF s
<1>5. AccountIn(s, current) /\ GossipFrom(s, f) /\ Survives(f, s)
  BY <1>4, CreditsSet DEF s
<1>6. AccountIn(g, current) /\ GossipFrom(g, s) /\ Survives(s, g)
  BY <1>5, AgeUpdated DEF s, f, w
<1>7. Fresh(w)
  BY <1>0, <1>3, FreshFrom
<1>8. Fresh(f)
  BY <1>0, <1>3, <1>4, <1>7, FreshFrom
<1>9. Fresh(s)
  BY <1>0, <1>4, <1>5, <1>8, FreshFrom
<1>10. Fresh(g)
  BY <1>0, <1>5, <1>6, <1>9, FreshFrom
<1>11. Numbered(h) /\ Numbered(w) /\ Numbered(f) /\ Numbered(s) /\ Numbered(g)
  BY <1>0, <1>3, <1>4, <1>5, <1>6 DEF Numbered
<1>12. Survives(h, f)
  BY <1>W, <1>4, <1>11, SurvivesTwice
<1>13. Survives(h, s)
  BY <1>5, <1>11, <1>12, SurvivesTwice
<1>14. Survives(h, g)
  BY <1>6, <1>11, <1>13, SurvivesTwice
<1> QED BY <1>6, <1>10, <1>14

-----------------------------------------------------------------------------
(* The cluster's account *)

\* The smaller, and the greater, of two numbers.
LEMMA OfTwo ==
  ASSUME NEW a \in Int, NEW b \in Int
  PROVE  /\ Min({a, b}) = IF a <= b THEN a ELSE b
         /\ Max({a, b}) = IF a >= b THEN a ELSE b
BY DEF Min, Max

\* An element of a set.
AnyOf(s) == CHOOSE x \in s : TRUE

\* What the words that start with the slots of S hold.
OnesOf(S) == MapThenSumSet(CountOnes, S)

\* The words are added up one after the other.
LEMMA WordSums ==
  ASSUME NEW S, IsFiniteSet(S), \A i \in S : CountOnes(i) \in Int
  PROVE  \E f : /\ OnesOf(S) = f[S] /\ f[{}] = 0
                /\ \A s \in SUBSET S : s # {} =>
                     f[s] = CountOnes(AnyOf(s)) + f[s \ {AnyOf(s)}]
<1> DEFINE first(s) == CHOOSE x \in s : TRUE
           h == [i \in S |-> CountOnes(i)]
           f == SumsOf(S, h)
           step(g, s) == IF s = {} THEN 0 ELSE CountOnes(first(s)) + g[s \ {first(s)}]
           iter == CHOOSE g : g = [s \in SUBSET S |-> step(g, s)]
<1>1. OnesOf(S) = iter[S]
  BY DEF OnesOf, MapThenSumSet, MapThenFoldSet
<1>2. h \in [S -> Int]
  OBVIOUS
<1>3. \A s \in SUBSET S : s # {} => h[first(s)] = CountOnes(first(s))
  OBVIOUS
<1>4. /\ f \in [SUBSET S -> Int] /\ f[{}] = 0
      /\ \A s \in SUBSET S : s # {} => f[s] = h[first(s)] + f[s \ {first(s)}]
  <2> HIDE DEF h
  <2> QED BY <1>2, SumsAdd
<1>5. f = [s \in SUBSET S |-> step(f, s)]
  <2> HIDE DEF f, h, first
  <2> QED BY <1>3, <1>4
<1>6. iter = [s \in SUBSET S |-> step(iter, s)]
  <2> HIDE DEF step, f
  <2> QED BY <1>5
<1> HIDE DEF iter
<1>7. \A s \in SUBSET S : iter[s] = step(iter, s)
  BY <1>6
<1>8. iter[{}] = 0
  <2>1. iter[{}] = step(iter, {})
    BY <1>7
  <2> QED BY <2>1
<1>9. \A s \in SUBSET S : s # {} => iter[s] = CountOnes(AnyOf(s)) + iter[s \ {AnyOf(s)}]
  BY <1>7 DEF AnyOf
<1> QED BY <1>1, <1>8, <1>9

\* The blocks of a range of slots are a number.
LEMMA BlocksNatural ==
  ASSUME NEW from \in Int, NEW to \in Int, IsFiniteSet(produced)
  PROVE  ConfirmedBlocksInEpoch(from, to) \in Nat
<1>1. BlockSize \in Nat \ {0}
  BY ClusterAssumption
<1>2. FirstFullBlock(from, to) \in Int
  <2>1. from % BlockSize \in Int
    BY <1>1
  <2>2. from + BlockSize - (from % BlockSize) \in Int
    BY <1>1, <2>1
  <2> QED BY <2>2, OfTwo DEF FirstFullBlock
<1>3. LastFullBlock(from, to) \in Int
  <2>1. to - (to % BlockSize) \in Int
    BY <1>1
  <2> QED BY <1>2, <2>1, OfTwo DEF LastFullBlock
<1> DEFINE a == FirstFullBlock(from, to)
           b == LastFullBlock(from, to)
           S == FullBlocks(from, to)
           found == {s \in Partial(from, to) : Found(s)}
<1>4. IsFiniteSet(S)
  <2>1. S \in SUBSET (a .. b - 1)
    BY DEF FullBlocks
  <2>2. a \in Int /\ b - 1 \in Int
    BY <1>2, <1>3
  <2> HIDE DEF S, a, b
  <2> QED BY <2>1, <2>2, FS_Interval, FS_Subset
<1>5. Cardinality(found) \in Nat
  <2>1. found \in SUBSET produced
    BY DEF Found, Remembered
  <2> HIDE DEF found
  <2> QED BY <2>1, FS_Subset, FS_CardinalityType
<1>6. ASSUME NEW i PROVE CountOnes(i) \in Nat
  <2> DEFINE C == {s \in Remembered : (s % MaxEntries) \div BlockSize = (i % MaxEntries) \div BlockSize}
  <2>1. C \in SUBSET produced
    BY DEF Remembered
  <2>2. CountOnes(i) = Cardinality(C)
    BY DEF CountOnes
  <2> HIDE DEF C
  <2> QED BY <2>1, <2>2, FS_Subset, FS_CardinalityType
<1> HIDE DEF S, found
<1>7. PICK f : /\ OnesOf(S) = f[S] /\ f[{}] = 0
               /\ \A s \in SUBSET S : s # {} =>
                    f[s] = CountOnes(AnyOf(s)) + f[s \ {AnyOf(s)}]
  <2>1. \A i \in S : CountOnes(i) \in Int
    BY <1>6
  <2> QED BY <1>4, <2>1, WordSums
<1> DEFINE pick == [s \in SUBSET S |-> AnyOf(s)]
           T == Nat
<1>8. \A s \in SUBSET S : f[s] \in T
  <2>1. \A s \in SUBSET S : s # {} => pick[s] \in s /\ pick[s] = AnyOf(s)
    BY DEF AnyOf
  <2>2. f[{}] \in T
    BY <1>7
  <2>3. \A s \in SUBSET S : s # {} /\ f[s \ {pick[s]}] \in T => f[s] \in T
    <3> SUFFICES ASSUME NEW s \in SUBSET S, s # {}, f[s \ {pick[s]}] \in T PROVE f[s] \in T
      OBVIOUS
    <3>1. f[s] = CountOnes(AnyOf(s)) + f[s \ {AnyOf(s)}] /\ f[s \ {AnyOf(s)}] \in Nat
      BY <1>7, <2>1
    <3>2. CountOnes(AnyOf(s)) \in Nat
      BY <1>6
    <3> QED BY <3>1, <3>2
  <2> HIDE DEF T, pick
  <2>4. \A s \in SUBSET S : s # {} => pick[s] \in s
    BY <2>1
  <2> QED BY <1>4, <2>2, <2>3, <2>4, FoldStays
<1>9. OnesOf(S) \in Nat
  BY <1>7, <1>8
<1>10. ConfirmedBlocksInEpoch(from, to) = Cardinality(found) + OnesOf(S)
  BY DEF ConfirmedBlocksInEpoch, OnesOf, found, S
<1> QED BY <1>5, <1>9, <1>10

\* An entry of a ClusterHistory account.
ClusterEntryType == [epoch : 0 .. NoEpoch, total_blocks : Number, start : Number]
\* A ClusterHistory account.
ClusterType ==
  [arr : [Positions -> ClusterEntryType], idx : Positions, is_empty : BOOLEAN, last_update_slot : Int]

\* An entry of the cluster's account is rewritten where it is.
LEMMA RewriteCluster ==
  ASSUME NEW c \in ClusterType, Ring(c), NEW p \in Positions, NEW x \in ClusterEntryType,
         x.epoch = c.arr[p].epoch
  PROVE  /\ [c EXCEPT !.arr[p] = x] \in ClusterType
         /\ Ring([c EXCEPT !.arr[p] = x])
         /\ \A k \in Positions : [c EXCEPT !.arr[p] = x].arr[k] = IF k = p THEN x ELSE c.arr[k]
         /\ [c EXCEPT !.arr[p] = x].idx = c.idx /\ [c EXCEPT !.arr[p] = x].is_empty = c.is_empty
<1> DEFINE g == [c EXCEPT !.arr[p] = x]
<1>1. g \in ClusterType
  BY DEF ClusterType
<1>2. g.idx = c.idx /\ g.is_empty = c.is_empty
  BY DEF ClusterType
<1>3. \A k \in Positions : g.arr[k] = IF k = p THEN x ELSE c.arr[k]
  BY DEF ClusterType
<1> HIDE DEF g
<1>4. SameEpochs(g, c)
  BY <1>2, <1>3 DEF SameEpochs
<1>5. /\ {"arr", "idx", "is_empty"} \subseteq DOMAIN g /\ g = [f \in DOMAIN g |-> g[f]]
      /\ g.arr = [k \in Positions |-> g.arr[k]]
  BY <1>1 DEF ClusterType
<1>6. Ring(g)
  BY <1>4, <1>5, RewriteKeepsRing
<1> QED BY <1>1, <1>2, <1>3, <1>6 DEF g

\* The blocks of an epoch that is new.
LEMMA BlocksPushed ==
  ASSUME NEW c \in ClusterType, Ring(c), NEW e \in 0 .. MaxEpoch, NEW b \in Nat, IsNew(c, e)
  PROVE  LET g == SetTotalBlocks(c, e, b)
         IN  /\ g \in ClusterType /\ Ring(g) /\ ~g.is_empty
             /\ Newest(g).epoch = e /\ Newest(g).total_blocks = b
             /\ ~c.is_empty => \E k \in Positions : g.arr[k] = Newest(c)
             /\ \A k \in Positions : g.arr[k].epoch = e \/ \E j \in Positions : g.arr[k] = c.arr[j]
<1> DEFINE x == [DefaultClusterEntry EXCEPT !.epoch = e, !.total_blocks = b]
           n == At(c.idx, 0)
           g == SetTotalBlocks(c, e, b)
<1>1. x \in ClusterEntryType /\ x.epoch = e /\ x.total_blocks = b
  <2>1. DefaultClusterEntry = [f \in {"epoch", "total_blocks", "start"} |-> DefaultClusterEntry[f]]
        /\ DefaultClusterEntry.start = Unset
    BY DEF DefaultClusterEntry
  <2>2. x = [f \in {"epoch", "total_blocks", "start"} |-> x[f]]
        /\ x.epoch = e /\ x.total_blocks = b /\ x.start = Unset
    BY <2>1
  <2>3. e \in 0 .. NoEpoch /\ b \in Number /\ Unset \in Number
    BY AtFacts DEF Number
  <2> HIDE DEF x
  <2> QED BY <2>2, <2>3 DEF ClusterEntryType
<1>2. g = Push(c, x)
  BY DEF SetTotalBlocks
<1> HIDE DEF x, g
<1>3. c.idx \in Positions /\ IsRing(c)
  BY DEF Ring, IsRing
<1>4. Ring(g)
  BY <1>1, <1>2, PushKeepsRing
<1>5. n \in Positions
  BY <1>3, AtFacts, AtPlace
<1>6. n # c.idx
  BY <1>3, AtFacts DEF At
<1>7. /\ g.idx = n /\ ~g.is_empty /\ g.arr = [c.arr EXCEPT ![n] = x]
      /\ g.is_empty \in BOOLEAN
      /\ DOMAIN g = DOMAIN c /\ g = [f \in DOMAIN c |-> g[f]]
      /\ \A f \in DOMAIN c \ {"arr", "idx", "is_empty"} : g[f] = c[f]
  BY <1>2, <1>3, PushFields
<1>8. c.arr \in [Positions -> ClusterEntryType] /\ DOMAIN c = {"arr", "idx", "is_empty", "last_update_slot"}
      /\ c.last_update_slot \in Int
  BY DEF ClusterType
<1> HIDE DEF n
<1>9. g.arr \in [Positions -> ClusterEntryType] /\ \A k \in Positions : g.arr[k] = IF k = n THEN x ELSE c.arr[k]
  BY <1>1, <1>5, <1>7, <1>8
<1>10. g \in ClusterType
  <2>1. g.last_update_slot \in Int
    BY <1>7, <1>8
  <2> QED BY <1>5, <1>7, <1>8, <1>9, <2>1 DEF ClusterType
<1>11. Newest(g) = x
  BY <1>5, <1>7, <1>9 DEF Newest
<1>12. g.arr[c.idx] = Newest(c)
  BY <1>3, <1>6, <1>9 DEF Newest
<1>13. \A k \in Positions : g.arr[k].epoch = e \/ \E j \in Positions : g.arr[k] = c.arr[j]
  BY <1>1, <1>9
<1> QED BY <1>1, <1>3, <1>4, <1>7, <1>10, <1>11, <1>12, <1>13 DEF g

\* The blocks of an epoch that has an entry.
LEMMA BlocksRewritten ==
  ASSUME NEW c \in ClusterType, Ring(c), NEW e \in 0 .. MaxEpoch, NEW b \in Nat,
         ~IsNew(c, e), Holds(c, e)
  PROVE  LET g == SetTotalBlocks(c, e, b)
         IN  /\ g \in ClusterType /\ Ring(g) /\ g.is_empty = c.is_empty
             /\ Newest(g).epoch = Newest(c).epoch
             /\ \A k \in Positions : g.arr[k].epoch = c.arr[k].epoch
             /\ \A k \in Positions : g.arr[k].epoch = e => g.arr[k].total_blocks = b
             /\ \A k \in Positions : g.arr[k].epoch # e => g.arr[k] = c.arr[k]
<1> DEFINE p == PositionOf(c, e)
           x == [c.arr[p] EXCEPT !.total_blocks = b]
           g == SetTotalBlocks(c, e, b)
<1>1. p \in Positions /\ c.arr[p].epoch = e
  BY HeldPosition
<1>2. c.arr[p] \in ClusterEntryType
  BY <1>1 DEF ClusterType
<1>3. x \in ClusterEntryType /\ x.epoch = e /\ x.total_blocks = b
  BY <1>1, <1>2 DEF ClusterEntryType, Number
<1>4. g = [c EXCEPT !.arr[p] = x]
  BY DEF SetTotalBlocks
<1> HIDE DEF x, g, p
<1>5. /\ g \in ClusterType /\ Ring(g)
      /\ \A k \in Positions : g.arr[k] = IF k = p THEN x ELSE c.arr[k]
      /\ g.idx = c.idx /\ g.is_empty = c.is_empty
  BY <1>1, <1>3, <1>4, RewriteCluster
<1>6. c.idx \in Positions /\ e # NoEpoch
  BY AtFacts DEF Ring, IsRing
<1>7. \A k \in Positions : c.arr[k].epoch = e => k = p
  BY <1>1, <1>6, RingOrder
<1> QED BY <1>1, <1>3, <1>5, <1>6, <1>7 DEF g, Newest

\* The start of the epoch is noted in the latest entry.
LEMMA StartNoted ==
  ASSUME NEW c \in ClusterType, Ring(c), NEW e \in 0 .. MaxEpoch
  PROVE  LET g == SetEpochStartTimestamp(c, e)
         IN  /\ g \in ClusterType /\ Ring(g) /\ g.is_empty = c.is_empty /\ g.idx = c.idx
             /\ \A k \in Positions : /\ g.arr[k].epoch = c.arr[k].epoch
                                     /\ g.arr[k].total_blocks = c.arr[k].total_blocks
<1> DEFINE g == SetEpochStartTimestamp(c, e)
           x == [c.arr[c.idx] EXCEPT !.start = e]
<1>1. CASE Newest(c).epoch # e
  BY <1>1 DEF SetEpochStartTimestamp
<1>2. CASE Newest(c).epoch = e
  <2>1. c.idx \in Positions /\ c.arr[c.idx] \in ClusterEntryType
    BY DEF ClusterType
  <2>2. x \in ClusterEntryType /\ x.epoch = c.arr[c.idx].epoch /\ x.total_blocks = c.arr[c.idx].total_blocks
    BY <2>1, AtFacts DEF ClusterEntryType, Number
  <2>3. g = [c EXCEPT !.arr[c.idx] = x]
    BY <1>2 DEF SetEpochStartTimestamp
  <2> HIDE DEF x, g
  <2>4. /\ g \in ClusterType /\ Ring(g)
        /\ \A k \in Positions : g.arr[k] = IF k = c.idx THEN x ELSE c.arr[k]
        /\ g.idx = c.idx /\ g.is_empty = c.is_empty
    BY <2>1, <2>2, <2>3, RewriteCluster
  <2> QED BY <2>2, <2>4 DEF g
<1> QED BY <1>1, <1>2

-----------------------------------------------------------------------------
(* The setters, on the whole account *)

\* What held of the entries in an epoch holds of them in a later one.
LEMMA Later ==
  ASSUME NEW h, NEW c \in Int, NEW d \in Int, c <= d, AccountIn(h, c)
  PROVE  AccountIn(h, d)
<1>1. \A k \in Positions : h.arr[k].epoch \in Int
  BY RingOrder DEF AccountIn
<1>2. \A k \in Positions : EntryOf(h.arr[k], d)
  BY <1>1 DEF AccountIn, EntryOf
<1> QED BY <1>2 DEF AccountIn

\* The setters other than those of gossip.
LEMMA FactWritten ==
  ASSUME NEW current \in 0 .. MaxEpoch, NEW h, AccountIn(h, current), Fresh(h), NEW e \in 0 .. current,
         NEW facts, IsFacts(facts), DOMAIN facts \cap {"ip", "version"} = {},
         \A f \in DOMAIN facts \cap FactFields : facts[f] = e
  PROVE  AccountIn(SetEntry(h, e, facts), current) /\ Fresh(SetEntry(h, e, facts))
<1>1. AccountIn(SetEntry(h, e, facts), current)
  BY SetFact
<1>2. e \in 0 .. MaxEpoch /\ h \in AccountType /\ Ring(h)
  BY AtFacts DEF AccountIn
<1>3. GossipFrom(SetEntry(h, e, facts), h)
  BY <1>2, SetGossip
<1>4. \A k \in Positions : h.arr[k].epoch \in Int
  BY <1>2, RingOrder
<1>5. Fresh(SetEntry(h, e, facts))
  BY <1>3, <1>4, FreshFrom
<1> QED BY <1>1, <1>5

\* GossipFresh of one of the two kinds of gossip.
FreshIn(h, f, last) ==
  \A j, k \in Positions :
    h.arr[j].epoch # NoEpoch /\ h.arr[k].epoch # NoEpoch /\ h.arr[j].epoch <= h.arr[k].epoch =>
      /\ h.arr[j][f] # Unset /\ h.arr[k][f] # Unset => h.arr[j][f] <= h.arr[k][f]
      /\ h.arr[k][f] # Unset => h.arr[k][f] <= last

\* The two kinds of gossip are independent.
LEMMA FreshKinds ==
  ASSUME NEW h
  PROVE  Fresh(h) <=> /\ FreshIn(h, "ip", h.last_ip_timestamp)
                      /\ FreshIn(h, "version", h.last_version_timestamp)
BY DEF Fresh, FreshIn

\* A kind of gossip that is written, or left alone, in the current epoch.
LEMMA KindWritten ==
  ASSUME NEW current \in 0 .. MaxEpoch, NEW h, AccountIn(h, current), NEW facts, IsFacts(facts),
         NEW ts \in Int, NEW f \in {"ip", "version"}, NEW last \in Int, FreshIn(h, f, last),
         f \in DOMAIN facts => facts[f] = ts /\ last <= ts
  PROVE  FreshIn(SetEntry(h, current, facts), f, IF f \in DOMAIN facts THEN ts ELSE last)
<1> DEFINE s == SetEntry(h, current, facts)
<1>0. h \in AccountType /\ Ring(h) /\ current \in Int /\ NoEpoch \in Int /\ MaxEpoch \in Int
      /\ \A k \in Positions : h.arr[k] \in EntryType /\ EntryOf(h.arr[k], current)
  BY AtFacts DEF AccountIn, AccountType
<1>1. s \in AccountType /\ Ring(s) /\ Sets(s, h, current, facts)
  BY <1>0, SetEntryKeeps
<1> HIDE DEF s
<1>2. \A k \in Positions : s.arr[k].epoch \in Int /\ h.arr[k].epoch \in Int
  BY <1>0, <1>1, RingOrder
<1>3. \A j, k \in Positions : s.arr[j].epoch = s.arr[k].epoch /\ s.arr[j].epoch # NoEpoch => j = k
  BY <1>1, RingOrder
<1>4. \A x \in EntryType : x.epoch \in Int /\ x[f] \in Number
  BY AtFacts DEF EntryType
<1>5. \A x \in EntryType : /\ With(x, facts).epoch = x.epoch
                           /\ With(x, facts)[f] = IF f \in DOMAIN facts THEN facts[f] ELSE x[f]
  BY WithFacts DEF EntryFields
<1>6. Blank(current) \in EntryType /\ Blank(current).epoch = current /\ Blank(current)[f] = Unset
  <2>1. Blank(current)[f] = Unset
    BY DEF Blank, DefaultEntry
  <2> QED BY <2>1, BlankTyped
\* where the gossip of an entry comes from
<1>7. ASSUME NEW k \in Positions
      PROVE  \/ s.arr[k][f] = Unset
             \/ f \in DOMAIN facts /\ s.arr[k].epoch = current /\ s.arr[k][f] = ts
             \/ \E j \in Positions : s.arr[k].epoch = h.arr[j].epoch /\ s.arr[k][f] = h.arr[j][f]
  BY <1>0, <1>1, <1>5, <1>6 DEF Sets
<1>8. \A j \in Positions : h.arr[j].epoch # NoEpoch /\ h.arr[j][f] # Unset => h.arr[j][f] <= last /\ h.arr[j][f] \in Int
  BY <1>0, <1>2, <1>4 DEF FreshIn, Number
<1>9. \A k \in Positions : s.arr[k].epoch # NoEpoch => s.arr[k].epoch <= current
  <2>1. current \in 0 .. current
    BY <1>0
  <2>2. \A k \in Positions : \/ s.arr[k].epoch = current \/ \E j \in Positions : s.arr[k].epoch = h.arr[j].epoch
    BY <1>0, <1>1, <1>5, <1>6 DEF Sets
  <2> QED BY <1>0, <2>2 DEF EntryOf
<1> DEFINE bound == IF f \in DOMAIN facts THEN ts ELSE last
<1>10. ASSUME NEW j \in Positions, NEW k \in Positions,
              s.arr[j].epoch # NoEpoch, s.arr[k].epoch # NoEpoch, s.arr[j].epoch <= s.arr[k].epoch,
              s.arr[k][f] # Unset
       PROVE  /\ s.arr[j][f] # Unset => s.arr[j][f] <= s.arr[k][f]
              /\ s.arr[k][f] <= bound
  <2>1. CASE f \in DOMAIN facts /\ s.arr[k].epoch = current /\ s.arr[k][f] = ts
    <3>1. s.arr[j][f] # Unset => s.arr[j][f] <= ts
      BY <1>7, <1>8, <1>10, <2>1
    <3> QED BY <2>1, <3>1
  <2>2. ASSUME NEW m \in Positions, s.arr[k].epoch = h.arr[m].epoch, s.arr[k][f] = h.arr[m][f]
        PROVE  /\ s.arr[j][f] # Unset => s.arr[j][f] <= s.arr[k][f]
               /\ s.arr[k][f] <= bound
    <3>1. s.arr[k][f] <= last /\ s.arr[k][f] \in Int
      BY <1>8, <1>10, <2>2
    <3>2. s.arr[k][f] <= bound
      BY <3>1
    <3>3. CASE s.arr[j][f] = Unset
      BY <3>2, <3>3
    <3>4. CASE f \in DOMAIN facts /\ s.arr[j].epoch = current /\ s.arr[j][f] = ts
      <4>1. s.arr[j].epoch = s.arr[k].epoch
        BY <1>0, <1>2, <1>9, <1>10, <3>4
      <4>2. j = k
        BY <1>3, <1>10, <4>1
      <4> QED BY <3>1, <3>2, <4>2
    <3>5. ASSUME NEW i \in Positions, s.arr[j].epoch = h.arr[i].epoch, s.arr[j][f] = h.arr[i][f]
          PROVE  s.arr[j][f] # Unset => s.arr[j][f] <= s.arr[k][f]
      BY <1>10, <2>2, <3>5 DEF FreshIn
    <3> QED BY <1>7, <3>2, <3>3, <3>4, <3>5
  <2> QED BY <1>7, <1>10, <2>1, <2>2
<1> QED BY <1>10 DEF FreshIn, s

\* The instructions that copy gossip.
LEMMA GossipWritten ==
  ASSUME NEW current \in 0 .. MaxEpoch, NEW h, AccountIn(h, current), Fresh(h), NEW ts \in Int,
         NEW facts, DOMAIN facts \subseteq {"ip", "version"}, \A f \in DOMAIN facts : facts[f] = ts,
         "ip" \in DOMAIN facts => h.last_ip_timestamp <= ts,
         "version" \in DOMAIN facts => h.last_version_timestamp <= ts,
         NEW g,
         LET s == SetEntry(h, current, facts)
         IN  g = [s EXCEPT !.last_ip_timestamp = IF "ip" \in DOMAIN facts THEN ts ELSE h.last_ip_timestamp,
                           !.last_version_timestamp = IF "version" \in DOMAIN facts THEN ts ELSE h.last_version_timestamp]
  PROVE  AccountIn(g, current) /\ Fresh(g) /\ Survives(h, g)
<1> DEFINE s == SetEntry(h, current, facts)
           ip == IF "ip" \in DOMAIN facts THEN ts ELSE h.last_ip_timestamp
           version == IF "version" \in DOMAIN facts THEN ts ELSE h.last_version_timestamp
<1>1. IsFacts(facts) /\ DOMAIN facts \cap FactFields = {}
  BY DEF IsFacts, EntryFields, FactFields, Number
<1>2. current \in 0 .. current /\ h \in AccountType /\ h.last_ip_timestamp \in Int /\ h.last_version_timestamp \in Int
  BY AtFacts DEF AccountIn, AccountType
<1>3. AccountIn(s, current) /\ s \in AccountType
  BY <1>1, <1>2, SetFact DEF AccountIn
<1>4. FreshIn(h, "ip", h.last_ip_timestamp) /\ FreshIn(h, "version", h.last_version_timestamp)
  BY FreshKinds
<1>5. FreshIn(s, "ip", ip)
  BY <1>1, <1>2, <1>4, KindWritten
<1>6. FreshIn(s, "version", version)
  BY <1>1, <1>2, <1>4, KindWritten
<1>7. ip \in Int /\ version \in Int
  BY <1>2
<1>8. g = [s EXCEPT !.last_ip_timestamp = ip, !.last_version_timestamp = version]
  OBVIOUS
<1> HIDE DEF s, ip, version
<1>9. /\ g \in AccountType /\ g.arr = s.arr /\ g.idx = s.idx /\ g.is_empty = s.is_empty
      /\ g.last_ip_timestamp = ip /\ g.last_version_timestamp = version
  BY <1>3, <1>7, <1>8 DEF AccountType
<1>10. AccountIn(g, current)
  BY <1>3, <1>9, RestChanges
<1>11. Fresh(g)
  <2>1. FreshIn(g, "ip", ip) /\ FreshIn(g, "version", version)
    BY <1>5, <1>6, <1>9 DEF FreshIn
  <2> QED BY <1>9, <2>1, FreshKinds
<1>12. Survives(h, g)
  <2>1. Adds(facts, h, current) /\ Ring(h) /\ Ring(s)
    BY <1>1, <1>3 DEF Adds, AccountIn
  <2>2. Survives(h, s)
    BY <1>2, <2>1, SetEntrySurvives DEF s
  <2>3. Survives(s, g)
    BY <1>9, <2>1, SameEntries
  <2>4. Numbered(h) /\ Numbered(s) /\ Numbered(g)
    BY <1>9, <2>1, RingOrder DEF Numbered
  <2> QED BY <2>2, <2>3, <2>4, SurvivesTwice
<1> QED BY <1>10, <1>11, <1>12

-----------------------------------------------------------------------------
(* The invariant, and the steps of a validator's account *)

\* The clock, and what a setup leaves alone.
ClockInv ==
  /\ setup \in Setups /\ epoch \in 0 .. MaxEpoch /\ slot \in Nat
  /\ voted \subseteq 0 .. epoch
  /\ "cluster" \in setup.uploads /\ ~Scored => account.is_empty /\ voted = {}

\* The validator's account.
AccountInv == AccountIn(account, epoch) /\ Fresh(account)

\* The cluster's account beside it: the entry of the epoch before the latest is kept.
ClusterInv ==
  Scored =>
    /\ slot = FirstSlot(epoch) /\ produced \subseteq 0 .. slot - 1
    /\ cluster \in ClusterType /\ Ring(cluster)
    /\ \A k \in Positions : cluster.arr[k].epoch # NoEpoch => cluster.arr[k].epoch <= epoch
    /\ ~cluster.is_empty =>
         /\ cluster.last_update_slot = FirstSlot(Newest(cluster).epoch)
         /\ Newest(cluster).epoch > 0 =>
              \E k \in Positions : /\ cluster.arr[k].epoch = Newest(cluster).epoch - 1
                                   /\ cluster.arr[k].total_blocks \in Nat

\* Parameters that were validated in some epoch would be in this one.
ParametersInv ==
  parameters # NoParameters =>
    /\ Scored /\ epoch >= FirstReliable
    /\ {parameters.mev_range, parameters.credits_range, parameters.commission_range,
        parameters.bam_window} \subseteq 0 .. epoch - FirstReliable
    /\ parameters.mev_bps_threshold \in 0 .. BasisPointsMax
    /\ parameters.commission_threshold \in 0 .. CommissionMax

\* The inductive invariant of the two accounts and the parameters.
HistoryInv == ClockInv /\ AccountInv /\ ClusterInv /\ ParametersInv

\* What every step of the validator's account does.
AccountStep ==
  /\ setup' = setup /\ epoch' \in epoch .. MaxEpoch /\ voted' \subseteq 0 .. epoch'
  /\ AccountIn(account', epoch') /\ Fresh(account')
  /\ Survives(account, account')

\* The clock has its bounds.
LEMMA ClockTyped ==
  ASSUME ClockInv
  PROVE  /\ epoch \in 0 .. MaxEpoch /\ epoch \in Int /\ MaxEpoch \in Int
         /\ setup.epochs \in 0 .. MaxEpoch
<1>1. MaxEpoch \in Nat /\ Setups \subseteq [uploads : SUBSET AllUploads, epochs : 0 .. MaxEpoch, time : 0 .. MaxTime]
  BY HistoryAssumption
<1> QED BY <1>1 DEF ClockInv

\* An instruction that sets facts of epoch e.
LEMMA WritesFacts ==
  ASSUME ClockInv, AccountInv, NEW e \in 0 .. MaxEpoch, e <= epoch, NEW facts, IsFacts(facts),
         DOMAIN facts \cap {"ip", "version"} = {},
         \A f \in DOMAIN facts \cap FactFields : facts[f] = e,
         "tips" \in DOMAIN facts =>
           \A k \in Positions : account.arr[k].epoch = e => account.arr[k].tips = Unset,
         Writes(SetEntry(account, e, facts))
  PROVE  AccountStep
<1>1. epoch \in 0 .. MaxEpoch /\ epoch \in Int /\ MaxEpoch \in Int
  BY ClockTyped
<1>2. e \in 0 .. epoch
  BY <1>1
<1>3. AccountIn(SetEntry(account, e, facts), epoch) /\ Fresh(SetEntry(account, e, facts))
  BY <1>1, <1>2, FactWritten DEF AccountInv
<1>4. account' = SetEntry(account, e, facts) /\ setup' = setup /\ epoch' = epoch /\ voted' = voted
  BY DEF Writes
<1>5. Adds(facts, account, e)
  BY HistoryAssumption DEF Adds
<1>6. Survives(account, SetEntry(account, e, facts))
  BY <1>5, SetEntrySurvives DEF AccountInv, AccountIn
<1> QED BY <1>1, <1>3, <1>4, <1>6 DEF AccountStep, ClockInv

\* An instruction that copies gossip.
LEMMA WritesGossip ==
  ASSUME ClockInv, AccountInv, NEW ts \in Int,
         NEW facts, DOMAIN facts \subseteq {"ip", "version"}, \A f \in DOMAIN facts : facts[f] = ts,
         "ip" \in DOMAIN facts => account.last_ip_timestamp <= ts,
         "version" \in DOMAIN facts => account.last_version_timestamp <= ts,
         LET s == SetEntry(account, epoch, facts)
         IN  Writes([s EXCEPT
               !.last_ip_timestamp = IF "ip" \in DOMAIN facts THEN ts ELSE account.last_ip_timestamp,
               !.last_version_timestamp = IF "version" \in DOMAIN facts THEN ts ELSE account.last_version_timestamp])
  PROVE  AccountStep
<1> DEFINE s == SetEntry(account, epoch, facts)
           g == [s EXCEPT
               !.last_ip_timestamp = IF "ip" \in DOMAIN facts THEN ts ELSE account.last_ip_timestamp,
               !.last_version_timestamp = IF "version" \in DOMAIN facts THEN ts ELSE account.last_version_timestamp]
<1>1. epoch \in 0 .. MaxEpoch /\ epoch \in Int /\ MaxEpoch \in Int
  BY ClockTyped
<1>2. AccountIn(g, epoch) /\ Fresh(g) /\ Survives(account, g)
  <2>1. AccountIn(account, epoch) /\ Fresh(account)
    BY DEF AccountInv
  <2> QED BY <1>1, <2>1, GossipWritten
<1>3. account' = g /\ setup' = setup /\ epoch' = epoch /\ voted' = voted
  BY DEF Writes
<1> HIDE DEF g
<1> QED BY <1>1, <1>2, <1>3 DEF AccountStep, ClockInv

\* The validator's account after any step of the program or of the cluster.
LEMMA NextAccount ==
  ASSUME ClockInv, AccountInv, Next
  PROVE  AccountStep
<1>1. /\ epoch \in 0 .. MaxEpoch /\ epoch \in Int /\ MaxEpoch \in Int /\ setup.epochs \in 0 .. MaxEpoch
      /\ voted \subseteq 0 .. epoch
  BY ClockTyped DEF ClockInv
<1>2. /\ AccountIn(account, epoch) /\ Fresh(account) /\ account \in AccountType
      /\ account.last_ip_timestamp \in Int /\ account.last_version_timestamp \in Int
      /\ Ring(account) /\ Survives(account, account)
  BY SameEntries DEF AccountInv, AccountIn, AccountType
<1>3. CASE CopyVoteAccount
  <2> DEFINE g == UpdateValidatorAge(SetEpochCredits(InsertMissingEntries(
                    SetCommissionAndSlot(account, epoch), EpochCredits), EpochCredits), epoch)
  <2>1. EpochCredits \in SUBSET (0 .. epoch)
    BY <1>1 DEF EpochCredits
  <2>2. account' = g /\ setup' = setup /\ epoch' = epoch /\ voted' = voted
    BY <1>3 DEF CopyVoteAccount, Writes
  <2>3. AccountIn(g, epoch) /\ Fresh(g) /\ Survives(account, g)
    BY <1>1, <1>2, <2>1, VoteAccountCopied
  <2> HIDE DEF g
  <2> QED BY <1>1, <2>2, <2>3 DEF AccountStep
<1>4. ASSUME NEW e \in 0 .. MaxEpoch, CopyTipDistributionAccount(e) PROVE AccountStep
  <2>1. e <= epoch /\ Writes(SetEntry(account, e, [mev |-> e]))
    BY <1>4 DEF CopyTipDistributionAccount, SetMevCommission
  <2>2. IsFacts([mev |-> e])
    BY DEF IsFacts, EntryFields, Number
  <2> QED BY <2>1, <2>2, WritesFacts
<1>5. ASSUME NEW e \in 0 .. MaxEpoch, CopyPriorityFeeDistribution(e) PROVE AccountStep
  <2> DEFINE tips == IF e <= reclaimed THEN "none" ELSE "paid"
  <2>1. e <= epoch /\ Writes(SetEntry(account, e, [tips |-> tips]))
    BY <1>1, <1>5 DEF CopyPriorityFeeDistribution, SetTips
  <2>2. IsFacts([tips |-> tips]) /\ DOMAIN [tips |-> tips] \cap FactFields = {}
    BY DEF IsFacts, EntryFields, Tips, FactFields
  <2>3. ASSUME NEW k \in Positions, account.arr[k].epoch = e PROVE account.arr[k].tips = Unset
    <3>1. Holds(account, e)
      BY <2>3 DEF Holds
    <3>2. /\ PositionOf(account, e) \in Positions /\ account.arr[PositionOf(account, e)].epoch = e
          /\ account.arr[PositionOf(account, e)].tips = Unset
      BY <1>5, <3>1, HeldPosition DEF CopyPriorityFeeDistribution
    <3>3. e # NoEpoch
      BY AtFacts
    <3>4. PositionOf(account, e) = k
      BY <1>2, <2>3, <3>2, <3>3, RingOrder
    <3> QED BY <3>2, <3>4
  <2> HIDE DEF tips
  <2> QED BY <2>1, <2>2, <2>3, WritesFacts
<1>6. ASSUME NEW e \in 0 .. MaxEpoch, UpdateStakeHistory(e) PROVE AccountStep
  <2>1. e <= epoch /\ Writes(SetEntry(account, e, [stake |-> e]))
    BY <1>6 DEF UpdateStakeHistory, SetStake
  <2>2. IsFacts([stake |-> e])
    BY DEF IsFacts, EntryFields, Number
  <2> QED BY <2>1, <2>2, WritesFacts
<1>7. ASSUME NEW e \in 0 .. MaxEpoch, UpdatePriorityFeeHistory(e) PROVE AccountStep
  <2>1. e <= epoch /\ Writes(SetEntry(account, e, [blocks |-> e]))
    BY <1>7 DEF UpdatePriorityFeeHistory, SetBlocks
  <2>2. IsFacts([blocks |-> e])
    BY DEF IsFacts, EntryFields, Number
  <2> QED BY <2>1, <2>2, WritesFacts
<1>8. ASSUME NEW e \in 0 .. MaxEpoch, CopyIsBamConnected(e) PROVE AccountStep
  <2>1. e <= epoch /\ Writes(SetEntry(account, e, [bam |-> e]))
    BY <1>8 DEF CopyIsBamConnected, SetIsBamConnected
  <2>2. IsFacts([bam |-> e])
    BY DEF IsFacts, EntryFields, Number
  <2> QED BY <2>1, <2>2, WritesFacts
<1>9. CASE UploadValidatorAge
  <2> DEFINE K == {j \in Positions : account.arr[j].credits # Unset}
             onchain == {account.arr[k].epoch : k \in K}
             before == {e \in voted : \A f \in onchain : e < f}
             age == Cardinality(before) + Cardinality(onchain)
  <2>1. /\ account' = [account EXCEPT !.age = age, !.age_epoch = epoch]
        /\ setup' = setup /\ epoch' = epoch /\ voted' = voted
    BY <1>9 DEF UploadValidatorAge
  <2>2. Cardinality(before) \in Nat
    <3>1. before \in SUBSET (0 .. epoch)
      BY <1>1
    <3> HIDE DEF before
    <3>2. IsFiniteSet(0 .. epoch)
      BY <1>1, FS_Interval
    <3>3. IsFiniteSet(before)
      BY <3>1, <3>2, FS_Subset
    <3> QED BY <3>3, FS_CardinalityType
  <2>3. Cardinality(onchain) \in Nat
    <3> DEFINE f == [k \in K |-> account.arr[k].epoch]
    <3>1. onchain = {f[k] : k \in K}
      OBVIOUS
    <3>2. K \in SUBSET (0 .. MaxItems - 1) /\ MaxItems - 1 \in Int
      BY AtFacts
    <3> HIDE DEF K, f, onchain
    <3>3. IsFiniteSet(K)
      <4>1. IsFiniteSet(0 .. MaxItems - 1)
        BY <3>2, FS_Interval
      <4> QED BY <3>2, <4>1, FS_Subset
    <3>4. IsFiniteSet(onchain)
      BY <3>1, <3>3, ImageFinite
    <3> QED BY <3>4, FS_CardinalityType
  <2>4. age \in Int
    <3> HIDE DEF before, onchain
    <3> QED BY <2>2, <2>3
  <2> HIDE DEF age
  <2>5. /\ account' \in AccountType /\ account'.arr = account.arr /\ account'.idx = account.idx
        /\ account'.is_empty = account.is_empty
        /\ account'.last_ip_timestamp = account.last_ip_timestamp
        /\ account'.last_version_timestamp = account.last_version_timestamp
    BY <1>1, <1>2, <2>1, <2>4 DEF AccountType
  <2>6. AccountIn(account', epoch)
    BY <1>2, <2>5, RestChanges
  <2>7. Fresh(account')
    <3>1. GossipFrom(account', account)
      BY <2>5 DEF GossipFrom
    <3>2. \A k \in Positions : account.arr[k].epoch \in Int
      BY <1>2, RingOrder DEF AccountIn
    <3> QED BY <1>2, <3>1, <3>2, FreshFrom
  <2>8. Survives(account, account')
    BY <1>2, <2>5, SameEntries
  <2> QED BY <1>1, <2>1, <2>6, <2>7, <2>8 DEF AccountStep
<1>10. ASSUME NEW ts \in 1 .. MaxTime + 1, CopyContactInfo(ts) PROVE AccountStep
  <2> DEFINE facts == [ip |-> ts, version |-> ts]
             s == SetEntry(account, epoch, facts)
             g == [s EXCEPT
               !.last_ip_timestamp = IF "ip" \in DOMAIN facts THEN ts ELSE account.last_ip_timestamp,
               !.last_version_timestamp = IF "version" \in DOMAIN facts THEN ts ELSE account.last_version_timestamp]
  <2>1. ts \in Int
    BY HistoryAssumption
  <2>2. account.last_ip_timestamp <= ts /\ account.last_version_timestamp <= ts /\ Writes([s EXCEPT !.last_ip_timestamp = ts, !.last_version_timestamp = ts])
    BY <1>10 DEF CopyContactInfo
  <2>3. DOMAIN facts = {"ip", "version"} /\ \A f \in DOMAIN facts : facts[f] = ts
    OBVIOUS
  <2>4. IsFacts(facts)
    BY <2>1 DEF IsFacts, EntryFields, Number
  <2> HIDE DEF facts
  <2>5. s \in AccountType /\ s.last_ip_timestamp = account.last_ip_timestamp
        /\ s.last_version_timestamp = account.last_version_timestamp
    BY <1>1, <1>2, <2>4, SetEntryKeeps DEF SameRest, AccountIn
  <2>6. g = [s EXCEPT !.last_ip_timestamp = ts, !.last_version_timestamp = ts]
    <3> HIDE DEF s
    <3> QED BY <2>3, <2>5 DEF AccountType
  <2>7. Writes(g)
    BY <2>2, <2>6
  <2> QED BY <2>1, <2>2, <2>3, <2>7, WritesGossip
<1>11. ASSUME NEW ts \in 1 .. MaxTime + 1, CopyLegacyContactInfo(ts) PROVE AccountStep
  <2> DEFINE facts == [ip |-> ts]
             s == SetEntry(account, epoch, facts)
             g == [s EXCEPT
               !.last_ip_timestamp = IF "ip" \in DOMAIN facts THEN ts ELSE account.last_ip_timestamp,
               !.last_version_timestamp = IF "version" \in DOMAIN facts THEN ts ELSE account.last_version_timestamp]
  <2>1. ts \in Int
    BY HistoryAssumption
  <2>2. account.last_ip_timestamp <= ts /\ Writes([s EXCEPT !.last_ip_timestamp = ts])
    BY <1>11 DEF CopyLegacyContactInfo
  <2>3. DOMAIN facts = {"ip"} /\ \A f \in DOMAIN facts : facts[f] = ts
    OBVIOUS
  <2>4. IsFacts(facts)
    BY <2>1 DEF IsFacts, EntryFields, Number
  <2> HIDE DEF facts
  <2>5. s \in AccountType /\ s.last_ip_timestamp = account.last_ip_timestamp
        /\ s.last_version_timestamp = account.last_version_timestamp
    BY <1>1, <1>2, <2>4, SetEntryKeeps DEF SameRest, AccountIn
  <2>6. g = [s EXCEPT !.last_ip_timestamp = ts]
    <3> HIDE DEF s
    <3> QED BY <2>3, <2>5 DEF AccountType
  <2>7. Writes(g)
    BY <2>2, <2>6
  <2> QED BY <2>1, <2>2, <2>3, <2>7, WritesGossip
<1>12. ASSUME NEW ts \in 1 .. MaxTime + 1, CopyVersion(ts) PROVE AccountStep
  <2> DEFINE facts == [version |-> ts]
             s == SetEntry(account, epoch, facts)
             g == [s EXCEPT
               !.last_ip_timestamp = IF "ip" \in DOMAIN facts THEN ts ELSE account.last_ip_timestamp,
               !.last_version_timestamp = IF "version" \in DOMAIN facts THEN ts ELSE account.last_version_timestamp]
  <2>1. ts \in Int
    BY HistoryAssumption
  <2>2. account.last_version_timestamp <= ts /\ Writes([s EXCEPT !.last_version_timestamp = ts])
    BY <1>12 DEF CopyVersion
  <2>3. DOMAIN facts = {"version"} /\ \A f \in DOMAIN facts : facts[f] = ts
    OBVIOUS
  <2>4. IsFacts(facts)
    BY <2>1 DEF IsFacts, EntryFields, Number
  <2> HIDE DEF facts
  <2>5. s \in AccountType /\ s.last_ip_timestamp = account.last_ip_timestamp
        /\ s.last_version_timestamp = account.last_version_timestamp
    BY <1>1, <1>2, <2>4, SetEntryKeeps DEF SameRest, AccountIn
  <2>6. g = [s EXCEPT !.last_version_timestamp = ts]
    <3> HIDE DEF s
    <3> QED BY <2>3, <2>5 DEF AccountType
  <2>7. Writes(g)
    BY <2>2, <2>6
  <2> QED BY <2>1, <2>2, <2>3, <2>7, WritesGossip
<1>13. CASE NextEpoch
  <2>1. epoch' = epoch + 1 /\ epoch' \in epoch .. MaxEpoch /\ epoch' \in Int
    BY <1>1, <1>13 DEF NextEpoch
  <2>2. setup' = setup /\ account' = account /\ voted' = voted
    BY <1>13 DEF NextEpoch
  <2>3. AccountIn(account, epoch')
    BY <1>1, <1>2, <2>1, Later
  <2>4. voted \subseteq 0 .. epoch'
    BY <1>1, <2>1
  <2> QED BY <1>2, <2>1, <2>2, <2>3, <2>4 DEF AccountStep
<1>14. CASE Vote
  BY <1>1, <1>2, <1>14 DEF Vote, AccountStep
<1>15. CASE Tick
  BY <1>1, <1>2, <1>15 DEF Tick, AccountStep
<1>16. CASE ReclaimRent
  BY <1>1, <1>2, <1>16 DEF ReclaimRent, AccountStep
<1> QED BY <1>16, <1>3, <1>4, <1>5, <1>6, <1>7, <1>8, <1>9, <1>10, <1>11, <1>12, <1>13, <1>14, <1>15 DEF Next

-----------------------------------------------------------------------------
(* copy_cluster_info *)

\* Entries of epochs up to e.
UpTo(c, e) == \A k \in Positions : c.arr[k].epoch # NoEpoch => c.arr[k].epoch <= e

\* The blocks of an epoch are known.
Counted(c, e) == \E k \in Positions : c.arr[k].epoch = e /\ c.arr[k].total_blocks \in Nat

\* copy_cluster_info counts the epoch before, ...
LEMMA CountBefore ==
  ASSUME NEW c \in ClusterType, Ring(c), NEW e \in 0 .. MaxEpoch, NEW b \in Nat, UpTo(c, e + 1),
         ~c.is_empty => (Newest(c).epoch > 0 => Counted(c, Newest(c).epoch - 1))
  PROVE  LET g == SetTotalBlocks(c, e, b)
         IN  /\ g \in ClusterType /\ Ring(g) /\ ~g.is_empty /\ UpTo(g, e + 1)
             /\ \/ Newest(g).epoch = e /\ Newest(g).total_blocks \in Nat
                \/ Newest(g).epoch = e + 1 /\ Counted(g, e)
<1> DEFINE g == SetTotalBlocks(c, e, b)
<1>0. e \in Int /\ c.idx \in Positions /\ \A k \in Positions : c.arr[k].epoch \in Int
  BY RingOrder DEF Ring, IsRing
<1>1. CASE IsNew(c, e)
  <2>1. /\ g \in ClusterType /\ Ring(g) /\ ~g.is_empty /\ Newest(g).epoch = e /\ Newest(g).total_blocks = b
        /\ \A k \in Positions : g.arr[k].epoch = e \/ \E j \in Positions : g.arr[k] = c.arr[j]
    BY <1>1, BlocksPushed
  <2> HIDE DEF g
  <2>2. UpTo(g, e + 1)
    BY <1>0, <2>1 DEF UpTo
  <2> QED BY <2>1, <2>2 DEF g
<1>2. CASE ~IsNew(c, e)
  <2>1. ~c.is_empty /\ Newest(c).epoch >= e /\ Newest(c).epoch # NoEpoch /\ Newest(c).epoch = c.arr[c.idx].epoch
    BY <1>0, <1>2 DEF IsNew, Newest, Ring, Packed
  <2>2. Newest(c).epoch = e \/ Newest(c).epoch = e + 1
    BY <1>0, <2>1 DEF UpTo
  <2>3. Holds(c, e)
    <3>1. CASE Newest(c).epoch = e
      BY <1>0, <2>1, <3>1 DEF Holds
    <3>2. CASE Newest(c).epoch = e + 1
      <4>1. Counted(c, Newest(c).epoch - 1) /\ Newest(c).epoch - 1 = e
        BY <1>0, <2>1, <3>2
      <4> QED BY <4>1 DEF Counted, Holds
    <3> QED BY <2>2, <3>1, <3>2
  <2>4. /\ g \in ClusterType /\ Ring(g) /\ g.is_empty = c.is_empty /\ Newest(g).epoch = Newest(c).epoch
        /\ \A k \in Positions : g.arr[k].epoch = c.arr[k].epoch
        /\ \A k \in Positions : g.arr[k].epoch = e => g.arr[k].total_blocks = b
    BY <1>2, <2>3, BlocksRewritten
  <2> HIDE DEF g
  <2>5. UpTo(g, e + 1) /\ g.idx \in Positions
    BY <2>4 DEF UpTo, Ring, IsRing
  <2>6. Counted(g, e)
    BY <2>3, <2>4 DEF Counted, Holds
  <2>7. Newest(g).epoch = e => Newest(g).total_blocks \in Nat
    BY <2>4, <2>5 DEF Newest
  <2> QED BY <2>1, <2>2, <2>4, <2>5, <2>6, <2>7 DEF g
<1> QED BY <1>1, <1>2

\* ... and then this one.
LEMMA CountEpoch ==
  ASSUME NEW c \in ClusterType, Ring(c), NEW e \in 0 .. MaxEpoch, NEW b \in Nat, UpTo(c, e),
         e > 0 => /\ ~c.is_empty
                  /\ \/ Newest(c).epoch = e - 1 /\ Newest(c).total_blocks \in Nat
                     \/ Newest(c).epoch = e /\ Counted(c, e - 1)
  PROVE  LET g == SetTotalBlocks(c, e, b)
         IN  /\ g \in ClusterType /\ Ring(g) /\ ~g.is_empty /\ UpTo(g, e)
             /\ Newest(g).epoch = e
             /\ e > 0 => Counted(g, e - 1)
<1> DEFINE g == SetTotalBlocks(c, e, b)
<1>0. e \in Int /\ c.idx \in Positions /\ \A k \in Positions : c.arr[k].epoch \in Int
  BY RingOrder DEF Ring, IsRing
<1>1. CASE IsNew(c, e)
  <2>1. /\ g \in ClusterType /\ Ring(g) /\ ~g.is_empty /\ Newest(g).epoch = e
        /\ ~c.is_empty => \E k \in Positions : g.arr[k] = Newest(c)
        /\ \A k \in Positions : g.arr[k].epoch = e \/ \E j \in Positions : g.arr[k] = c.arr[j]
    BY <1>1, BlocksPushed
  <2> HIDE DEF g
  <2>2. UpTo(g, e)
    BY <1>0, <2>1 DEF UpTo
  <2>3. ASSUME e > 0 PROVE Counted(g, e - 1)
    <3>1. ~c.is_empty /\ Newest(c).epoch < e
      BY <1>1, <2>3 DEF IsNew
    <3>2. Newest(c).epoch = e - 1 /\ Newest(c).total_blocks \in Nat
      BY <1>0, <2>3, <3>1
    <3> QED BY <2>1, <3>1, <3>2 DEF Counted
  <2> QED BY <2>1, <2>2, <2>3 DEF g
<1>2. CASE ~IsNew(c, e)
  <2>1. ~c.is_empty /\ Newest(c).epoch >= e /\ Newest(c).epoch # NoEpoch /\ Newest(c).epoch = c.arr[c.idx].epoch
    BY <1>0, <1>2 DEF IsNew, Newest, Ring, Packed
  <2>2. Newest(c).epoch = e
    BY <1>0, <2>1 DEF UpTo
  <2>3. Holds(c, e)
    BY <1>0, <2>1, <2>2 DEF Holds
  <2>4. /\ g \in ClusterType /\ Ring(g) /\ g.is_empty = c.is_empty /\ Newest(g).epoch = Newest(c).epoch
        /\ \A k \in Positions : g.arr[k].epoch = c.arr[k].epoch
        /\ \A k \in Positions : g.arr[k].epoch # e => g.arr[k] = c.arr[k]
    BY <1>2, <2>3, BlocksRewritten
  <2> HIDE DEF g
  <2>5. UpTo(g, e)
    BY <2>4 DEF UpTo
  <2>6. ASSUME e > 0 PROVE Counted(g, e - 1)
    <3>1. Counted(c, e - 1)
      BY <1>0, <2>2, <2>6
    <3>2. e - 1 # e
      BY <1>0
    <3> QED BY <2>4, <3>1, <3>2 DEF Counted
  <2> QED BY <2>1, <2>2, <2>4, <2>5, <2>6 DEF g
<1> QED BY <1>1, <1>2

\* Slots of epochs are in the order of the epochs.
LEMMA SlotOrder ==
  ASSUME NEW e \in Nat
  PROVE  FirstSlot(e) \in Nat /\ LastSlot(e) \in Int
<1>1. SlotsPerEpoch \in Nat \ {0}
  BY ClusterAssumption
<1>2. e * SlotsPerEpoch \in Nat /\ (e + 1) * SlotsPerEpoch \in Nat
  BY <1>1
<1> QED BY <1>2 DEF FirstSlot, LastSlot

\* copy_cluster_info
LEMMA ClusterCopied ==
  ASSUME ClockInv, ClusterInv, Scored, CopyClusterInfo
  PROVE  /\ cluster' \in ClusterType /\ Ring(cluster') /\ ~cluster'.is_empty /\ UpTo(cluster', epoch)
         /\ Newest(cluster').epoch = epoch
         /\ epoch > 0 => Counted(cluster', epoch - 1)
         /\ cluster'.last_update_slot = slot
<1>1. epoch \in 0 .. MaxEpoch /\ epoch \in Int /\ MaxEpoch \in Int /\ slot \in Nat
  BY ClockTyped DEF ClockInv
<1>2. /\ cluster \in ClusterType /\ Ring(cluster) /\ UpTo(cluster, epoch)
      /\ ~cluster.is_empty => (Newest(cluster).epoch > 0 => Counted(cluster, Newest(cluster).epoch - 1))
      /\ produced \in SUBSET (0 .. slot - 1)
  BY DEF ClusterInv, UpTo, Counted
<1>3. IsFiniteSet(produced)
  <2>1. IsFiniteSet(0 .. slot - 1)
    BY <1>1, FS_Interval
  <2> QED BY <1>2, <2>1, FS_Subset
<1> DEFINE D == {d \in {epoch - 1, epoch} : d >= 0}
           ends == [e \in D |-> Min({LastSlot(e), slot})]
           blocks(e) == ConfirmedBlocksInEpoch(FirstSlot(e), ends[e])
           before == IF epoch > 0 THEN SetTotalBlocks(cluster, epoch - 1, blocks(epoch - 1)) ELSE cluster
           counted == SetTotalBlocks(before, epoch, blocks(epoch))
           noted == SetEpochStartTimestamp(counted, epoch)
<1>4. cluster' = [noted EXCEPT !.last_update_slot = slot]
  BY DEF CopyClusterInfo
<1>5. ASSUME NEW e \in D PROVE blocks(e) \in Nat
  <2>1. e \in Nat /\ ends[e] = Min({LastSlot(e), slot})
    BY <1>1
  <2>2. FirstSlot(e) \in Int /\ LastSlot(e) \in Int
    BY <2>1, SlotOrder
  <2>3. ends[e] \in Int
    BY <1>1, <2>1, <2>2, OfTwo
  <2> HIDE DEF ends
  <2> QED BY <1>3, <2>2, <2>3, BlocksNatural
<1>6. epoch \in D /\ (epoch > 0 => epoch - 1 \in D)
  BY <1>1
<1> HIDE DEF D, ends, blocks
<1>7. /\ before \in ClusterType /\ Ring(before) /\ UpTo(before, epoch)
      /\ epoch > 0 => /\ ~before.is_empty
                      /\ \/ Newest(before).epoch = epoch - 1 /\ Newest(before).total_blocks \in Nat
                         \/ Newest(before).epoch = epoch /\ Counted(before, epoch - 1)
  <2>1. CASE epoch > 0
    <3>1. epoch - 1 \in 0 .. MaxEpoch /\ (epoch - 1) + 1 = epoch /\ blocks(epoch - 1) \in Nat
      BY <1>1, <1>5, <1>6, <2>1
    <3> DEFINE e == epoch - 1
               b == blocks(epoch - 1)
    <3>2. before = SetTotalBlocks(cluster, e, b) /\ UpTo(cluster, e + 1) /\ e \in 0 .. MaxEpoch /\ b \in Nat
      BY <1>2, <2>1, <3>1
    <3> HIDE DEF e, b
    <3>3. /\ before \in ClusterType /\ Ring(before) /\ ~before.is_empty /\ UpTo(before, e + 1)
          /\ \/ Newest(before).epoch = e /\ Newest(before).total_blocks \in Nat
             \/ Newest(before).epoch = e + 1 /\ Counted(before, e)
      BY <1>2, <3>2, CountBefore
    <3> QED BY <3>1, <3>3 DEF e
  <2>2. CASE ~(epoch > 0)
    BY <1>2, <2>2
  <2> QED BY <2>1, <2>2
<1> HIDE DEF before
<1>8. /\ counted \in ClusterType /\ Ring(counted) /\ ~counted.is_empty /\ UpTo(counted, epoch)
      /\ Newest(counted).epoch = epoch
      /\ epoch > 0 => Counted(counted, epoch - 1)
  <2>1. blocks(epoch) \in Nat
    BY <1>5, <1>6
  <2> QED BY <1>1, <1>7, <2>1, CountEpoch
<1> HIDE DEF counted
<1>9. /\ noted \in ClusterType /\ Ring(noted) /\ noted.is_empty = counted.is_empty /\ noted.idx = counted.idx
      /\ \A k \in Positions : /\ noted.arr[k].epoch = counted.arr[k].epoch
                              /\ noted.arr[k].total_blocks = counted.arr[k].total_blocks
  BY <1>1, <1>8, StartNoted
<1> HIDE DEF noted
<1>10. /\ cluster' \in ClusterType /\ cluster'.arr = noted.arr /\ cluster'.idx = noted.idx
       /\ cluster'.is_empty = noted.is_empty /\ cluster'.last_update_slot = slot
  BY <1>1, <1>4, <1>9 DEF ClusterType
<1>11. Ring(cluster')
  <2>1. SameEpochs(cluster', noted)
    BY <1>10 DEF SameEpochs
  <2>2. /\ {"arr", "idx", "is_empty"} \subseteq DOMAIN cluster' /\ cluster' = [f \in DOMAIN cluster' |-> cluster'[f]]
        /\ cluster'.arr = [k \in Positions |-> cluster'.arr[k]]
    BY <1>10 DEF ClusterType
  <2> QED BY <1>9, <2>1, <2>2, RewriteKeepsRing
<1>12. counted.idx \in Positions
  BY <1>8 DEF Ring, IsRing
<1>13. UpTo(cluster', epoch) /\ Newest(cluster').epoch = epoch
  BY <1>8, <1>9, <1>10, <1>12 DEF UpTo, Newest
<1>14. epoch > 0 => Counted(cluster', epoch - 1)
  BY <1>8, <1>9, <1>10 DEF Counted
<1> QED BY <1>8, <1>9, <1>10, <1>11, <1>13, <1>14

-----------------------------------------------------------------------------
(* The invariant is inductive *)

\* All variables.
allVars == <<vars, clusterVars, scoreVars>>

\* A slot of an epoch up to m divides to an epoch up to m.
LEMMA SlotsEpoch ==
  ASSUME NEW x \in Nat, NEW n \in Nat \ {0}, NEW m \in Nat, x < (m + 1) * n
  PROVE  x \div n \in 0 .. m
<1> DEFINE d == x \div n
<1>1. d \in Int /\ d >= 0 /\ n * d <= x
  OBVIOUS
<1> HIDE DEF d
<1>2. ASSUME d > m PROVE FALSE
  <2>1. d - (m + 1) \in Nat
    BY <1>1, <1>2
  <2>2. n * (d - (m + 1)) \in Nat
    BY <2>1
  <2>3. n * d = n * (d - (m + 1)) + (m + 1) * n
    BY <1>1
  <2>4. n * d \in Int /\ (m + 1) * n \in Int
    BY <1>1
  <2> QED BY <1>1, <2>2, <2>3, <2>4
<1> QED BY <1>1, <1>2 DEF d

\* A window that was within the history stays within it as epochs go by.
LEMMA WiderWindow ==
  ASSUME NEW a \in Int, NEW b \in Int, NEW r \in Int, a >= r, a <= b
  PROVE  0 .. a - r \subseteq 0 .. b - r /\ b >= r
OBVIOUS

\* A buffer that nothing was pushed to.
LEMMA EmptyRing ==
  ASSUME NEW h, h.idx = MaxItems - 1, h.is_empty = TRUE, {"arr", "idx", "is_empty"} \subseteq DOMAIN h,
         h = [f \in DOMAIN h |-> h[f]], h.arr = [k \in Positions |-> h.arr[k]],
         \A k \in Positions : h.arr[k].epoch = NoEpoch
  PROVE  Ring(h)
<1>1. IsRing(h)
  <2>1. h.idx \in Positions /\ NoEpoch \in 0 .. NoEpoch
    BY AtFacts
  <2>2. h.is_empty \in BOOLEAN
    OBVIOUS
  <2> QED BY <2>1, <2>2 DEF IsRing
<1>2. \A c \in Positions : At(h.idx, c) \in Positions
  BY AtFacts, AtPlace
<1>3. Rising(h)
  BY <1>2 DEF Rising
<1>4. Packed(h)
  BY DEF Packed
<1> QED BY <1>1, <1>3, <1>4 DEF Ring

\* The accounts start out empty.
LEMMA InitHistory == ScoredInit => HistoryInv
<1> SUFFICES ASSUME ScoredInit PROVE HistoryInv
  OBVIOUS
<1>0. /\ setup \in Setups /\ epoch = 0 /\ voted = {} /\ slot = 0 /\ produced = {}
      /\ account = [arr |-> [k \in Positions |-> DefaultEntry], idx |-> MaxItems - 1,
                is_empty |-> TRUE, age |-> 0, age_epoch |-> 0,
                last_ip_timestamp |-> 0, last_version_timestamp |-> 0]
      /\ cluster = [arr |-> [k \in Positions |-> DefaultClusterEntry], idx |-> MaxItems - 1,
                is_empty |-> TRUE, last_update_slot |-> 0]
      /\ parameters = NoParameters
  BY DEF ScoredInit, Init, ClusterInit
<1>1. ClockInv
  BY <1>0, AtFacts DEF ClockInv
<1>2. DefaultEntry \in EntryType /\ DefaultEntry.epoch = NoEpoch /\ \A f \in FactFields : DefaultEntry[f] = Unset
  BY AtFacts DEF DefaultEntry, EntryType, Number, Tips, FactFields
<1>3. DefaultClusterEntry \in ClusterEntryType /\ DefaultClusterEntry.epoch = NoEpoch
  BY AtFacts DEF DefaultClusterEntry, ClusterEntryType, Number
<1>4. account \in AccountType /\ \A k \in Positions : account.arr[k] = DefaultEntry
  BY <1>0, <1>2, AtFacts DEF AccountType
<1>5. Ring(account)
  <2>1. /\ account.idx = MaxItems - 1 /\ account.is_empty = TRUE /\ {"arr", "idx", "is_empty"} \subseteq DOMAIN account
        /\ account = [f \in DOMAIN account |-> account[f]] /\ account.arr = [k \in Positions |-> account.arr[k]]
    BY <1>0
  <2>2. \A k \in Positions : account.arr[k].epoch = NoEpoch
    BY <1>2, <1>4
  <2> QED BY <2>1, <2>2, EmptyRing
<1>6. AccountIn(account, epoch)
  BY <1>2, <1>4, <1>5 DEF AccountIn, EntryOf
<1>7. Fresh(account)
  BY <1>2, <1>4 DEF Fresh
<1>8. cluster \in ClusterType /\ \A k \in Positions : cluster.arr[k] = DefaultClusterEntry
  BY <1>0, <1>3, AtFacts DEF ClusterType
<1>9. Ring(cluster)
  <2>1. /\ cluster.idx = MaxItems - 1 /\ cluster.is_empty = TRUE /\ {"arr", "idx", "is_empty"} \subseteq DOMAIN cluster
        /\ cluster = [f \in DOMAIN cluster |-> cluster[f]] /\ cluster.arr = [k \in Positions |-> cluster.arr[k]]
    BY <1>0
  <2>2. \A k \in Positions : cluster.arr[k].epoch = NoEpoch
    BY <1>3, <1>8
  <2> QED BY <2>1, <2>2, EmptyRing
<1>10. ClusterInv
  <2>1. slot = FirstSlot(epoch)
    BY <1>0, ClusterAssumption DEF FirstSlot
  <2>2. cluster.is_empty = TRUE
    BY <1>0
  <2> QED BY <1>0, <1>3, <1>8, <1>9, <2>1, <2>2 DEF ClusterInv
<1>11. ParametersInv
  BY <1>0 DEF ParametersInv
<1> QED BY <1>1, <1>6, <1>7, <1>10, <1>11 DEF HistoryInv, AccountInv

\* Every instruction, every step of the clock and every change of the parameters keeps
\* the invariant.
LEMMA StepHistory == HistoryInv /\ [ScoredNext]_allVars => HistoryInv'
<1> SUFFICES ASSUME HistoryInv, [ScoredNext]_allVars PROVE HistoryInv'
  OBVIOUS
<1> USE DEF HistoryInv
<1>1. /\ epoch \in 0 .. MaxEpoch /\ epoch \in Int /\ MaxEpoch \in Int /\ setup.epochs \in 0 .. MaxEpoch
      /\ setup \in Setups /\ slot \in Nat /\ voted \subseteq 0 .. epoch
  BY ClockTyped DEF ClockInv
<1>2. AccountIn(account, epoch) /\ Fresh(account) /\ account \in AccountType /\ Ring(account)
  BY DEF AccountInv, AccountIn
\* nothing but the cluster's account changes
<1>3. ASSUME vars' = vars, slot' = slot PROVE ClockInv' /\ AccountInv'
  <2>1. setup' = setup /\ account' = account /\ epoch' = epoch /\ voted' = voted
    BY <1>3 DEF vars
  <2>2. ClockInv'
    BY <1>3, <2>1 DEF ClockInv, Scored
  <2>3. AccountInv'
    BY <2>1 DEF AccountInv
  <2> QED BY <2>2, <2>3
\* the parameters do not change, and epochs only rise
<1>4. ASSUME parameters' = parameters, setup' = setup, Scored => epoch' \in epoch .. MaxEpoch
      PROVE  ParametersInv'
  <2>1. CASE parameters = NoParameters
    BY <1>4, <2>1 DEF ParametersInv
  <2>2. CASE parameters # NoParameters
    <3>0. Scored /\ epoch' \in epoch .. MaxEpoch
      BY <1>4, <2>2 DEF ParametersInv
    <3>1. epoch >= FirstReliable /\ epoch' \in Int /\ epoch' >= epoch /\ FirstReliable \in Int /\ epoch \in Int
      BY <1>1, <2>2, <3>0, ScoreAssumption DEF ParametersInv
    <3>2. 0 .. epoch - FirstReliable \subseteq 0 .. epoch' - FirstReliable /\ epoch' >= FirstReliable
      BY <3>1, WiderWindow
    <3>3. Scored'
      BY <1>4, <3>0 DEF Scored
    <3> QED BY <1>4, <2>2, <3>2, <3>3 DEF ParametersInv
  <2> QED BY <2>1, <2>2
<1>5. ASSUME ~Scored, setup' = setup PROVE ClusterInv'
  BY <1>5 DEF ClusterInv, Scored
<1>6. CASE ~Scored /\ "cluster" \notin setup.uploads /\ Next /\ UNCHANGED clusterVars /\ UNCHANGED scoreVars
  <2>1. AccountStep
    BY <1>6, NextAccount
  <2>2. slot' = slot /\ parameters' = parameters
    BY <1>6 DEF clusterVars, scoreVars
  <2>3. /\ setup' = setup /\ epoch' \in epoch .. MaxEpoch /\ voted' \subseteq 0 .. epoch'
        /\ AccountIn(account', epoch') /\ Fresh(account')
    BY <2>1 DEF AccountStep
  <2>4. ClockInv'
    BY <1>1, <1>6, <2>2, <2>3 DEF ClockInv
  <2>5. AccountInv'
    BY <2>3 DEF AccountInv
  <2> QED BY <1>4, <1>5, <1>6, <2>2, <2>3, <2>4, <2>5
<1>7. CASE ~Scored /\ "cluster" \in setup.uploads /\ ClusterNext /\ UNCHANGED scoreVars
  <2>1. parameters' = parameters
    BY <1>7 DEF scoreVars
  <2>2. CASE CopyClusterInfo \/ \E e \in 0 .. MaxEpoch : BackfillTotalBlocks(e)
    <3>1. vars' = vars /\ slot' = slot
      BY <2>2 DEF CopyClusterInfo, BackfillTotalBlocks
    <3>2. setup' = setup
      BY <3>1 DEF vars
    <3> QED BY <1>3, <1>4, <1>5, <1>7, <2>1, <3>1, <3>2
  <2>3. ASSUME NEW block \in BOOLEAN, Slot(block) PROVE HistoryInv'
    <3>1. /\ setup' = setup /\ account' = account /\ voted' = voted
          /\ slot < LastSlot(setup.epochs) /\ slot' = slot + 1 /\ epoch' = slot' \div SlotsPerEpoch
      BY <2>3 DEF Slot
    <3>2. account.is_empty /\ voted = {}
      BY <1>7 DEF ClockInv
    <3>3. epoch' \in 0 .. MaxEpoch
      <4> DEFINE m == setup.epochs
                 x == slot + 1
      <4>1. m \in Nat /\ m <= MaxEpoch /\ x \in Nat /\ SlotsPerEpoch \in Nat \ {0}
        BY <1>1, ClusterAssumption
      <4>2. (m + 1) * SlotsPerEpoch \in Int
        BY <4>1
      <4>3. slot < (m + 1) * SlotsPerEpoch - 1
        BY <3>1 DEF LastSlot, FirstSlot
      <4>4. x < (m + 1) * SlotsPerEpoch
        BY <1>1, <4>2, <4>3
      <4> HIDE DEF m, x
      <4>5. x \div SlotsPerEpoch \in 0 .. m
        BY <4>1, <4>4, SlotsEpoch
      <4> QED BY <1>1, <3>1, <4>1, <4>5 DEF x
    <3>4. ClockInv'
      <4>1. slot' \in Nat
        BY <1>1, <3>1
      <4> QED BY <1>1, <3>1, <3>2, <3>3, <4>1 DEF ClockInv
    <3>5. \A k \in Positions : account.arr[k].epoch = NoEpoch
      BY <1>2, <3>2 DEF Ring, Packed
    <3>6. AccountInv'
      BY <1>2, <3>1, <3>5 DEF AccountInv, AccountIn, EntryOf
    <3> QED BY <1>4, <1>5, <1>7, <2>1, <3>1, <3>4, <3>6
  <2> QED BY <1>7, <2>2, <2>3 DEF ClusterNext
<1>8. CASE Scored /\ Next /\ EpochsHaveBlocks /\ UNCHANGED scoreVars
  <2>1. AccountStep
    BY <1>8, NextAccount
  <2>2. /\ setup' = setup /\ epoch' \in epoch .. MaxEpoch /\ voted' \subseteq 0 .. epoch'
        /\ AccountIn(account', epoch') /\ Fresh(account')
    BY <2>1 DEF AccountStep
  <2>3. parameters' = parameters /\ cluster' = cluster /\ slot' = FirstSlot(epoch') /\ produced' = 0 .. slot' - 1
    BY <1>8 DEF EpochsHaveBlocks, scoreVars
  <2>4. epoch' \in Nat /\ slot' \in Nat
    BY <1>1, <2>2, <2>3, SlotOrder
  <2>5. ClockInv'
    BY <1>1, <1>8, <2>2, <2>4 DEF ClockInv, Scored
  <2>6. AccountInv'
    BY <2>2 DEF AccountInv
  <2>7. ClusterInv'
    <3>1. /\ cluster \in ClusterType /\ Ring(cluster)
          /\ \A k \in Positions : cluster.arr[k].epoch # NoEpoch => cluster.arr[k].epoch <= epoch
          /\ ~cluster.is_empty =>
               /\ cluster.last_update_slot = FirstSlot(Newest(cluster).epoch)
               /\ Newest(cluster).epoch > 0 =>
                    \E k \in Positions : /\ cluster.arr[k].epoch = Newest(cluster).epoch - 1
                                         /\ cluster.arr[k].total_blocks \in Nat
      BY <1>8 DEF ClusterInv
    <3>2. \A k \in Positions : cluster.arr[k].epoch \in Int
      BY <3>1, RingOrder
    <3>3. \A k \in Positions : cluster.arr[k].epoch # NoEpoch => cluster.arr[k].epoch <= epoch'
      BY <1>1, <2>2, <2>4, <3>1, <3>2
    <3> QED BY <2>3, <3>1, <3>3 DEF ClusterInv
  <2> QED BY <1>4, <2>2, <2>3, <2>5, <2>6, <2>7
<1>9. CASE Scored /\ CopyClusterInfo /\ UNCHANGED scoreVars
  <2>1. vars' = vars /\ slot' = slot /\ produced' = produced /\ parameters' = parameters
    BY <1>9 DEF CopyClusterInfo, scoreVars
  <2>2. setup' = setup /\ epoch' = epoch
    BY <2>1 DEF vars
  <2>3. /\ cluster' \in ClusterType /\ Ring(cluster') /\ ~cluster'.is_empty /\ UpTo(cluster', epoch)
        /\ Newest(cluster').epoch = epoch
        /\ epoch > 0 => Counted(cluster', epoch - 1)
        /\ cluster'.last_update_slot = slot
    BY <1>9, ClusterCopied
  <2>4. slot = FirstSlot(epoch) /\ produced \subseteq 0 .. slot - 1
    BY <1>9 DEF ClusterInv
  <2>5. ClusterInv'
    BY <2>1, <2>2, <2>3, <2>4 DEF ClusterInv, UpTo, Counted
  <2>6. epoch' \in epoch .. MaxEpoch
    BY <1>1, <2>2
  <2> QED BY <1>3, <1>4, <2>1, <2>2, <2>5, <2>6
<1>10. CASE Scored /\ ConfigNext /\ UNCHANGED <<vars, clusterVars>>
  <2>1. vars' = vars /\ cluster' = cluster /\ slot' = slot /\ produced' = produced
    BY <1>10 DEF clusterVars
  <2>2. setup' = setup /\ epoch' = epoch
    BY <2>1 DEF vars
  <2>3. ClusterInv'
    BY <2>1, <2>2 DEF ClusterInv, Scored
  <2>4. ASSUME NEW p, Validate(p), parameters' = p PROVE ParametersInv'
    <3>1. epoch - FirstReliable \in Int /\ MaxItems - 1 \in Int
      BY <1>1, AtFacts, ScoreAssumption
    <3>2. WindowMax \in Int /\ WindowMax <= epoch - FirstReliable
      BY <3>1, OfTwo DEF WindowMax
    <3>3. 0 .. WindowMax \subseteq 0 .. epoch - FirstReliable
      BY <3>1, <3>2
    <3>4. Scored'
      BY <1>10, <2>2 DEF Scored
    <3> QED BY <2>2, <2>4, <3>3, <3>4 DEF ParametersInv, Validate
  <2>5. ParametersInv'
    <3>1. CASE InitializeSteward
      BY <2>4, <3>1 DEF InitializeSteward
    <3>2. ASSUME NEW args, UpdateParameters(args) PROVE ParametersInv'
      BY <2>4, <3>2 DEF UpdateParameters
    <3>3. ASSUME NEW args, UpdatePriorityFeeParameters(args) PROVE ParametersInv'
      BY <2>4, <3>3 DEF UpdatePriorityFeeParameters
    <3>4. CASE AddValidatorsToBlacklist \/ RemoveValidatorsFromBlacklist
      <4>1. parameters' = parameters
        BY <3>4 DEF AddValidatorsToBlacklist, RemoveValidatorsFromBlacklist
      <4>2. epoch' \in epoch .. MaxEpoch
        BY <1>1, <2>2
      <4> QED BY <1>4, <2>2, <4>1, <4>2
    <3> QED BY <1>10, <3>1, <3>2, <3>3, <3>4 DEF ConfigNext
  <2> QED BY <1>3, <2>1, <2>3, <2>5
<1>11. CASE UNCHANGED allVars
  <2>1. vars' = vars /\ slot' = slot /\ cluster' = cluster /\ produced' = produced /\ parameters' = parameters
    BY <1>11 DEF allVars, clusterVars, scoreVars
  <2>2. setup' = setup /\ epoch' = epoch /\ epoch' \in epoch .. MaxEpoch
    BY <1>1, <2>1 DEF vars
  <2>3. ClusterInv'
    BY <2>1, <2>2 DEF ClusterInv, Scored
  <2> QED BY <1>3, <1>4, <2>1, <2>2, <2>3
<1> QED BY <1>6, <1>7, <1>8, <1>9, <1>10, <1>11 DEF ScoredNext, ProgramNext

\* Whatever the setups, the sizes and the order of the instructions, the invariant of the
\* two accounts and the parameters holds.
THEOREM HistoryKept == ScoredSpec => []HistoryInv
<1>1. ScoredInit => HistoryInv
  BY InitHistory
<1>2. HistoryInv /\ [ScoredNext]_<<vars, clusterVars, scoreVars>> => HistoryInv'
  BY StepHistory DEF allVars
<1> QED BY <1>1, <1>2, PTL DEF ScoredSpec

\* "in sorted order": for every size of the buffer and every order of the instructions,
\* insert with its binary search and its shift around the end of the buffer included, the
\* entries rise from the oldest place to idx and epoch_range finds what is held.
THEOREM SpecSortedByEpoch == ScoredSpec => []SortedByEpoch
<1>1. HistoryInv => SortedByEpoch
  BY RingSorted DEF HistoryInv, AccountInv, AccountIn
<1> QED BY <1>1, HistoryKept, PTL

\* Earlier gossip never replaces or follows later gossip, whichever of the gossip
\* instructions copy it and whatever entries the other instructions insert between.
THEOREM SpecGossipFresh == ScoredSpec => []GossipFresh
<1>1. HistoryInv => GossipFresh
  BY DEF HistoryInv, AccountInv, Fresh, GossipFresh, Known
<1> QED BY <1>1, HistoryKept, PTL

-----------------------------------------------------------------------------
(* The refinement of EpochLog *)

\* The places in use, and their epochs.
UsedPlaces(h) == {k \in Positions : h.arr[k].epoch # NoEpoch}
EpochsIn(h) == {h.arr[k].epoch : k \in UsedPlaces(h)}

\* The log has the epochs of the entries, and is the entry at each.
LEMMA LogEntries ==
  ASSUME NEW h, Ring(h)
  PROVE  /\ DOMAIN LogOf(h) = EpochsIn(h)
         /\ EpochsIn(h) \in SUBSET Nat
         /\ \A k \in UsedPlaces(h) : LogOf(h)[h.arr[k].epoch] = h.arr[k]
<1>1. LogOf(h) = [e \in EpochsIn(h) |-> h.arr[PositionOf(h, e)]]
  BY DEF LogOf, EpochsIn, UsedPlaces
<1>2. EpochsIn(h) \in SUBSET Nat
  BY AtFacts DEF EpochsIn, UsedPlaces, Ring, IsRing
<1>3. ASSUME NEW k \in UsedPlaces(h) PROVE LogOf(h)[h.arr[k].epoch] = h.arr[k]
  <2> DEFINE e == h.arr[k].epoch
  <2>1. k \in Positions /\ e # NoEpoch /\ e \in EpochsIn(h) /\ Holds(h, e)
    BY DEF UsedPlaces, EpochsIn, Holds
  <2>2. PositionOf(h, e) \in Positions /\ h.arr[PositionOf(h, e)].epoch = e
    BY <2>1, HeldPosition
  <2>3. PositionOf(h, e) = k
    BY <2>1, <2>2, RingOrder
  <2> QED BY <1>1, <2>1, <2>3
<1> QED BY <1>1, <1>2, <1>3

\* There are at most as many as places, and exactly as many if all are used.
LEMMA EpochsCount ==
  ASSUME NEW h, Ring(h)
  PROVE  /\ IsFiniteSet(EpochsIn(h)) /\ Cardinality(EpochsIn(h)) <= MaxItems
         /\ AllUsed(h) => Cardinality(EpochsIn(h)) = MaxItems
<1> DEFINE S == UsedPlaces(h)
           T == EpochsIn(h)
           m == [k \in S |-> h.arr[k].epoch]
<1>1. IsFiniteSet(Positions) /\ Cardinality(Positions) = MaxItems
  <2>1. 0 \in Int /\ MaxItems - 1 \in Int /\ MaxItems > 1 /\ Positions = 0 .. MaxItems - 1 /\ MaxItems \in Int
    BY AtFacts
  <2>2. IsFiniteSet(0 .. MaxItems - 1) /\ Cardinality(0 .. MaxItems - 1) = IF 0 > MaxItems - 1 THEN 0 ELSE MaxItems - 1 - 0 + 1
    BY <2>1, FS_Interval
  <2> QED BY <2>1, <2>2
<1>2. S \in SUBSET Positions
  BY DEF UsedPlaces
<1>3. IsFiniteSet(S) /\ Cardinality(S) <= MaxItems /\ Cardinality(S) \in Nat
  <2> HIDE DEF S
  <2> QED BY <1>1, <1>2, FS_Subset, FS_CardinalityType
<1>4. m \in Bijection(S, T)
  <2>1. m \in [S -> T] /\ \A t \in T : \E k \in S : m[k] = t
    BY DEF EpochsIn
  <2>2. \A j, k \in S : m[j] = m[k] => j = k
    BY RingOrder DEF UsedPlaces
  <2> HIDE DEF m, S, T
  <2> QED BY <2>1, <2>2 DEF Bijection, Injection, Surjection, IsInjective
<1>5. ExistsBijection(S, T)
  <2> HIDE DEF m, S, T
  <2> QED BY <1>4 DEF ExistsBijection
<1>6. IsFiniteSet(T) /\ Cardinality(T) = Cardinality(S)
  <2> HIDE DEF S, T
  <2> QED BY <1>3, <1>5, FS_Bijection
<1>7. AllUsed(h) => S = Positions
  BY DEF AllUsed, UsedPlaces
<1> HIDE DEF S, T
<1> QED BY <1>1, <1>3, <1>6, <1>7 DEF T

\* Of two sets of epochs the second is what is left of both, if what the first loses is
\* older than all of a full second.
LEMMA LatestLeft ==
  ASSUME NEW C \in Nat, NEW D \in SUBSET Nat, NEW D2 \in SUBSET Nat,
         IsFiniteSet(D), IsFiniteSet(D2), Cardinality(D2) <= C,
         \A d \in D \ D2 : Cardinality(D2) = C /\ \A e \in D2 : d < e
  PROVE  D2 = {e \in D \cup (D2 \ D) : Cardinality({f \in D \cup (D2 \ D) : f >= e}) <= C}
<1> DEFINE all == D \cup (D2 \ D)
           from(e) == {f \in all : f >= e}
<1>1. IsFiniteSet(all) /\ all = D \cup D2 /\ all \in SUBSET Nat
  BY FS_Union
<1>2. ASSUME NEW e \in D2 PROVE Cardinality(from(e)) <= C
  <2>1. from(e) \in SUBSET D2
    <3>1. ASSUME NEW f \in all, f >= e, f \notin D2 PROVE FALSE
      BY <3>1
    <3> QED BY <3>1
  <2> HIDE DEF from
  <2>2. Cardinality(from(e)) <= Cardinality(D2) /\ Cardinality(from(e)) \in Nat /\ Cardinality(D2) \in Nat
    BY <2>1, FS_Subset, FS_CardinalityType
  <2> QED BY <2>2
<1>3. ASSUME NEW e \in D \ D2 PROVE ~(Cardinality(from(e)) <= C)
  <2>1. D2 \cup {e} \in SUBSET from(e)
    <3>1. \A f \in D2 : f >= e
      BY <1>1
    <3> QED BY <1>1, <3>1
  <2>2. IsFiniteSet(D2 \cup {e}) /\ Cardinality(D2 \cup {e}) = C + 1
    BY FS_AddElement
  <2>3. IsFiniteSet(from(e))
    <3>1. from(e) \in SUBSET all
      OBVIOUS
    <3> HIDE DEF from, all
    <3> QED BY <1>1, <3>1, FS_Subset
  <2> HIDE DEF from
  <2>4. Cardinality(D2 \cup {e}) <= Cardinality(from(e)) /\ Cardinality(from(e)) \in Nat
    BY <2>1, <2>3, FS_Subset, FS_CardinalityType
  <2> QED BY <2>2, <2>4
<1>4. ASSUME NEW e PROVE e \in D2 <=> e \in all /\ Cardinality(from(e)) <= C
  <2> HIDE DEF from
  <2> QED BY <1>1, <1>2, <1>3
<1> QED BY <1>4

\* What survives is a step of the log.
LEMMA SurvivorsLog ==
  ASSUME NEW h, NEW g, Ring(h), Ring(g), Survives(h, g),
         NEW D, D = DOMAIN LogOf(h), NEW D2, D2 = DOMAIN LogOf(g)
  PROVE  /\ D # {} => \A e \in D2 \ D : e > Min(D)
         /\ D2 = {e \in D \cup (D2 \ D) : Cardinality({f \in D \cup (D2 \ D) : f >= e}) <= MaxItems}
         /\ \A e \in D \cap D2 : Kept(LogOf(h)[e], LogOf(g)[e])
<1>1. D = EpochsIn(h) /\ D2 = EpochsIn(g) /\ D \in SUBSET Nat /\ D2 \in SUBSET Nat
  BY LogEntries
<1>2. ASSUME D # {}, NEW e \in D2 \ D PROVE e > Min(D)
  <2>1. Min(D) \in D /\ \A d \in D : Min(D) <= d
    BY <1>1, <1>2, MinNatural
  <2>2. PICK k \in Positions : g.arr[k].epoch = e /\ e # NoEpoch
    BY <1>1 DEF EpochsIn, UsedPlaces
  <2>3. PICK i \in Positions : h.arr[i].epoch # NoEpoch
    BY <1>1, <1>2 DEF EpochsIn, UsedPlaces
  <2>4. PICK j \in Positions : h.arr[j].epoch # NoEpoch /\ h.arr[j].epoch <= e
    BY <2>2, <2>3 DEF Survives, Behind
  <2>5. h.arr[j].epoch \in D
    BY <1>1, <2>4 DEF EpochsIn, UsedPlaces
  <2>6. e \in Nat /\ e \notin D
    BY <1>1
  <2> HIDE <1>1
  <2>7. Min(D) <= h.arr[j].epoch /\ Min(D) \in Nat /\ h.arr[j].epoch \in Nat
    BY <1>1, <2>1, <2>5
  <2> QED BY <2>1, <2>4, <2>6, <2>7
<1>3. ASSUME NEW d \in D \ D2
      PROVE  Cardinality(D2) = MaxItems /\ \A e \in D2 : d < e
  <2>1. PICK j \in Positions : h.arr[j].epoch = d /\ d # NoEpoch
    BY <1>1 DEF EpochsIn, UsedPlaces
  <2>2. ~\E k \in Positions : g.arr[k].epoch = d
    BY <1>1, <2>1 DEF EpochsIn, UsedPlaces
  <2>3. AllUsed(g) /\ \A k \in Positions : d < g.arr[k].epoch
    BY <2>1, <2>2 DEF Survives, KeptOrOld
  <2>4. Cardinality(D2) = MaxItems
    BY <1>1, <2>3, EpochsCount
  <2> QED BY <1>1, <2>3, <2>4 DEF EpochsIn, UsedPlaces
<1>4. IsFiniteSet(D) /\ IsFiniteSet(D2) /\ Cardinality(D2) <= MaxItems /\ MaxItems \in Nat
  BY <1>1, AtFacts, EpochsCount
<1>5. D2 = {e \in D \cup (D2 \ D) : Cardinality({f \in D \cup (D2 \ D) : f >= e}) <= MaxItems}
  <2>1. D \in SUBSET Nat /\ D2 \in SUBSET Nat
    BY <1>1
  <2> QED BY <1>3, <1>4, <2>1, LatestLeft
<1>6. ASSUME NEW e \in D \cap D2 PROVE Kept(LogOf(h)[e], LogOf(g)[e])
  <2>1. PICK j \in UsedPlaces(h) : h.arr[j].epoch = e
    BY <1>1 DEF EpochsIn
  <2>2. PICK k \in UsedPlaces(g) : g.arr[k].epoch = e
    BY <1>1 DEF EpochsIn
  <2>3. LogOf(h)[e] = h.arr[j] /\ LogOf(g)[e] = g.arr[k]
    BY <2>1, <2>2, LogEntries
  <2>4. j \in Positions /\ k \in Positions /\ e # NoEpoch
    BY <2>1, <2>2 DEF UsedPlaces
  <2>5. g.arr[k].epoch \in Int
    BY <2>4, RingOrder
  <2>6. PICK i \in Positions : g.arr[i].epoch = e /\ Kept(h.arr[j], g.arr[i])
    BY <2>1, <2>2, <2>4, <2>5 DEF Survives, KeptOrOld
  <2>7. i = k
    BY <2>2, <2>4, <2>6, RingOrder
  <2> QED BY <2>3, <2>6, <2>7
<1> QED BY <1>2, <1>5, <1>6

\* Only instructions on the account change it.
LEMMA StepSurvives ==
  ASSUME HistoryInv, [ScoredNext]_allVars
  PROVE  Survives(account, account')
<1>1. Ring(account) /\ ClockInv /\ AccountInv
  BY DEF HistoryInv, AccountInv, AccountIn
<1>2. CASE Next
  BY <1>1, <1>2, NextAccount DEF AccountStep
<1>3. CASE account' = account
  BY <1>1, <1>3, SameEntries
<1>4. ~Next => account' = account
  BY DEF ScoredNext, ProgramNext, ClusterNext, CopyClusterInfo, BackfillTotalBlocks, Slot,
         ConfigNext, vars, allVars
<1> QED BY <1>2, <1>3, <1>4

\* Every step of the accounts is one of the log.
LEMMA StepLog ==
  ASSUME HistoryInv, HistoryInv', [ScoredNext]_allVars
  PROVE  [Log!Next]_(LogOf(account))
<1>1. Survives(account, account') /\ Ring(account) /\ Ring(account')
  BY StepSurvives DEF HistoryInv, AccountInv, AccountIn
<1> DEFINE D == DOMAIN LogOf(account)
           D2 == DOMAIN LogOf(account')
<1>2. /\ D # {} => \A e \in D2 \ D : e > Min(D)
      /\ D2 = {e \in D \cup (D2 \ D) : Cardinality({f \in D \cup (D2 \ D) : f >= e}) <= MaxItems}
      /\ \A e \in D \cap D2 : Kept(LogOf(account)[e], LogOf(account')[e])
  BY <1>1, SurvivorsLog
<1>3. Log!Extends(D2 \ D)
  BY <1>2 DEF Log!Extends, Log!Epochs, Log!Min, Min
<1>4. D2 = Log!Latest(D2 \ D)
  <2>1. \A S : Log!Cardinality(S) = Cardinality(S)
    BY DEF Log!Cardinality, Cardinality
  <2> QED BY <1>2, <2>1 DEF Log!Latest, Log!Epochs
<1>5. \A e \in D \cap D2 : Log!Keeps(LogOf(account)[e], LogOf(account')[e])
  BY <1>2 DEF Log!Keeps, Kept, FactFields
<1> QED BY <1>3, <1>4, <1>5 DEF Log!Next, Log!Epochs

\* The account implements EpochLog, for every size of the buffer: no instruction loses a
\* fact but with the oldest entry of a full buffer, none puts an epoch in front of the
\* known ones, and the priority fees of an epoch, once copied, are final, though entries
\* move through the buffer as late epochs are inserted.
THEOREM SpecImplementsLog == ScoredSpec => ImplementsLog
<1>1. ScoredInit => Log!Init
  <2> SUFFICES ASSUME ScoredInit PROVE DOMAIN LogOf(account) = {}
    BY DEF Log!Init, Log!Epochs
  <2>1. \A k \in Positions : account.arr[k].epoch = NoEpoch
    BY DEF ScoredInit, Init, DefaultEntry
  <2> QED BY <2>1 DEF LogOf
<1>2. HistoryInv /\ HistoryInv' /\ [ScoredNext]_<<vars, clusterVars, scoreVars>> => [Log!Next]_(LogOf(account))
  BY StepLog DEF allVars
<1> QED BY <1>1, <1>2, HistoryKept, PTL DEF ScoredSpec, ImplementsLog, Log!Spec

-----------------------------------------------------------------------------
(* What the steward concludes *)

\* The accounts were written in this epoch.
LEMMA RecentEntry ==
  ASSUME HistoryInv, VoteRecent
  PROVE  Newest(account).epoch = epoch /\ account.idx \in Positions /\ Latest("commission")
<1>1. epoch \in Int /\ Unset \notin Int
  BY ClockTyped, HistoryAssumption DEF HistoryInv
<1>2. account.idx \in Positions /\ EntryOf(account.arr[account.idx], epoch)
  BY DEF HistoryInv, AccountInv, AccountIn, AccountType
<1>3. Newest(account).commission = epoch /\ ~account.is_empty
  BY DEF VoteRecent
<1>4. Newest(account).commission \in {Unset, Newest(account).epoch}
  BY <1>2 DEF EntryOf, FactFields, Newest
<1> QED BY <1>1, <1>2, <1>3, <1>4 DEF Latest

\* copy_cluster_info in this epoch has left the total of the epoch before.
LEMMA RecentCluster ==
  ASSUME HistoryInv, Scored, ClusterRecent, epoch > 0
  PROVE  Counted(cluster, epoch - 1)
<1>1. epoch \in Nat /\ SlotsPerEpoch \in Nat \ {0}
  BY ClockTyped, ClusterAssumption DEF HistoryInv
<1>2. /\ Ring(cluster) /\ cluster.idx \in Positions
      /\ \A k \in Positions : cluster.arr[k].epoch # NoEpoch => cluster.arr[k].epoch <= epoch
      /\ ~cluster.is_empty =>
           /\ cluster.last_update_slot = FirstSlot(Newest(cluster).epoch)
           /\ Newest(cluster).epoch > 0 => Counted(cluster, Newest(cluster).epoch - 1)
  BY DEF HistoryInv, ClusterInv, Ring, IsRing, Counted
<1>3. ~cluster.is_empty /\ cluster.last_update_slot >= FirstSlot(epoch)
  BY DEF ClusterRecent
<1> DEFINE n == Newest(cluster).epoch
<1>4. n \in 0 .. NoEpoch /\ n # NoEpoch /\ n <= epoch
  BY <1>2, <1>3 DEF Newest, Ring, IsRing, Packed
<1>5. n \in Nat
  BY <1>4, AtFacts
<1>6. FirstSlot(n) >= FirstSlot(epoch)
  BY <1>2, <1>3
<1> HIDE DEF n
<1>7. n = epoch
  <2>1. ASSUME n < epoch PROVE FALSE
    <3>1. epoch - n - 1 \in Nat
      BY <1>1, <1>5, <2>1
    <3>2. (epoch - n - 1) * SlotsPerEpoch \in Nat
      BY <1>1, <3>1
    <3>3. epoch * SlotsPerEpoch = (epoch - n - 1) * SlotsPerEpoch + n * SlotsPerEpoch + SlotsPerEpoch
      BY <1>1, <1>5
    <3>4. n * SlotsPerEpoch \in Int /\ epoch * SlotsPerEpoch \in Int
      BY <1>1, <1>5
    <3>5. n * SlotsPerEpoch >= epoch * SlotsPerEpoch
      BY <1>6 DEF FirstSlot
    <3> QED BY <1>1, <3>2, <3>3, <3>4, <3>5
  <2> QED BY <1>1, <1>4, <1>5, <2>1
<1> QED BY <1>2, <1>3, <1>7 DEF n

\* The greatest of four numbers is one of them.
LEMMA MaxOfFour ==
  ASSUME NEW a \in Nat, NEW b \in Nat, NEW c \in Nat, NEW d \in Nat, NEW N \in Nat,
         a <= N, b <= N, c <= N, d <= N
  PROVE  ~(Max({a, b, c, d}) > N)
<1> DEFINE S == {a, b, c, d}
<1>1. S \in SUBSET (0 .. N) /\ S # {}
  OBVIOUS
<1> HIDE DEF S
<1>2. Max(S) \in 0 .. N
  BY <1>1, MaxBelow
<1> QED BY <1>2 DEF S

\* Parameters that validate accepted in whatever epoch never keep a validator from being
\* scored whose accounts were written in this epoch, for every size of the windows.
THEOREM SpecScoringDefined == ScoredSpec => []ScoringDefined
<1>1. HistoryInv => ScoringDefined
  <2> SUFFICES ASSUME HistoryInv, parameters # NoParameters, VoteRecent, ClusterRecent,
                      parameters.credits_range >= 1, Latest("stake")
               PROVE  ScoreErrors(parameters) = {}
    BY DEF ScoringDefined
  <2> DEFINE p == parameters
  <2>1. epoch \in 0 .. MaxEpoch /\ epoch \in Nat /\ MaxEpoch \in Nat /\ FirstReliable \in Nat \ {0}
    BY ClockTyped, AtFacts, ScoreAssumption DEF HistoryInv
  <2>2. /\ Scored /\ epoch >= FirstReliable
        /\ p.mev_range \in 0 .. epoch - FirstReliable /\ p.credits_range \in 0 .. epoch - FirstReliable
        /\ p.commission_range \in 0 .. epoch - FirstReliable /\ p.bam_window \in 0 .. epoch - FirstReliable
    BY DEF HistoryInv, ParametersInv
  <2>3. epoch > 0
    BY <2>1, <2>2
  <2>4. ~(Max({p.mev_range, p.credits_range, p.commission_range, p.bam_window + 1}) > epoch)
    <3>1. /\ p.mev_range \in Nat /\ p.credits_range \in Nat /\ p.commission_range \in Nat
          /\ p.bam_window + 1 \in Nat /\ p.mev_range <= epoch /\ p.credits_range <= epoch
          /\ p.commission_range <= epoch /\ p.bam_window + 1 <= epoch
      BY <2>1, <2>2
    <3> QED BY <2>1, <3>1, MaxOfFour
  <2>5. p.credits_range # 0 /\ ~account.is_empty
    BY <2>1, <2>2 DEF VoteRecent
  <2>6. TotalBlocksRange(CreditsStart(p), epoch - 1) # {}
    <3>1. PICK k \in Positions : cluster.arr[k].epoch = epoch - 1 /\ cluster.arr[k].total_blocks \in Nat
      BY <2>2, <2>3, RecentCluster DEF Counted
    <3>2. Unset \notin Int /\ Ring(cluster)
      BY <2>2, HistoryAssumption DEF HistoryInv, ClusterInv
    <3>3. CreditsStart(p) \in Int /\ epoch - 1 \in Int /\ epoch - 1 <= MaxEpoch /\ CreditsStart(p) <= epoch - 1
      BY <2>1, <2>2 DEF CreditsStart
    <3> DEFINE first == CreditsStart(p)
               last == epoch - 1
               R == EpochRange(cluster, first, last)
    <3>4. R = {cluster.arr[j] : j \in {i \in Positions : cluster.arr[i].epoch \in first .. last}}
      <4> HIDE DEF first, last
      <4> QED BY <3>2, <3>3, RangeIsWhatIsHeld DEF first, last
    <3>5. cluster.arr[k].epoch \in first .. last
      BY <3>1, <3>3
    <3> HIDE DEF R
    <3>6. cluster.arr[k] \in R
      BY <3>4, <3>5
    <3>7. cluster.arr[k].total_blocks # Unset
      BY <3>1, <3>2
    <3> QED BY <3>6, <3>7 DEF TotalBlocksRange, R
  <2> QED BY <2>4, <2>5, <2>6 DEF ScoreErrors
<1> QED BY <1>1, HistoryKept, PTL

\* What a window of the history is.
LEMMA WindowIs ==
  ASSUME HistoryInv, NEW f, NEW first \in Int, NEW last \in Int, last <= MaxEpoch
  PROVE  Window(f, first, last) =
           {account.arr[k].epoch : k \in {j \in Positions : /\ account.arr[j].epoch \in first .. last
                                                            /\ account.arr[j][f] # Unset}}
<1>1. EpochRange(account, first, last) =
        {account.arr[k] : k \in {j \in Positions : account.arr[j].epoch \in first .. last}}
  BY RangeIsWhatIsHeld DEF HistoryInv, AccountInv, AccountIn
<1> QED BY <1>1 DEF Window

\* The greatest of some values, or a default, against a threshold.
LEMMA MaxOrBelow ==
  ASSUME NEW N \in Nat, NEW V \in SUBSET (0 .. N), NEW t \in 0 .. N, NEW d \in 0 .. N
  PROVE  /\ V # {} => (~(MaxOr(V, d) > t) <=> \A v \in V : v <= t)
         /\ V = {} => MaxOr(V, d) = d
<1>1. CASE V = {}
  BY <1>1 DEF MaxOr
<1>2. CASE V # {}
  <2>1. Max(V) \in V /\ \A y \in V : Max(V) >= y
    BY <1>2, MaxBelow
  <2>2. MaxOr(V, d) = Max(V)
    BY <1>2 DEF MaxOr
  <2>0. \A y \in V : y \in Int
    OBVIOUS
  <2> DEFINE m == Max(V)
  <2>3. m \in Int
    <3> HIDE DEF m
    <3> QED BY <2>0, <2>1 DEF m
  <2>4. m \in V /\ \A y \in V : m >= y
    BY <2>1
  <2>5. MaxOr(V, d) = m
    BY <2>2
  <2> HIDE DEF m
  <2> QED BY <1>2, <2>0, <2>3, <2>4, <2>5
<1> QED BY <1>1, <1>2

\* A validator with a score is not instantly unstaked for its commissions, its authorities
\* or the blacklist, for all parameters that validate accepts and every size of the history.
THEOREM SpecScoredThenKept == ScoredSpec => []ScoredThenKept
<1>1. HistoryInv => ScoredThenKept
  <2> SUFFICES ASSUME HistoryInv, parameters # NoParameters, VoteRecent, parameters.mev_range >= 1,
                      NEW truth \in Truths, Filters(parameters, truth) = {},
                      NEW x \in InstantUnstake(parameters, truth), x # "delinquency"
               PROVE  FALSE
    <3>1. \A truth : Score(parameters, truth) > 0 => Filters(parameters, truth) = {}
      BY DEF Score
    <3> QED BY <3>1 DEF ScoredThenKept, Scorable
  <2> DEFINE p == parameters
  <2>1. /\ epoch \in 0 .. MaxEpoch /\ epoch \in Nat /\ MaxEpoch \in Nat /\ FirstReliable \in Nat \ {0}
        /\ BasisPointsMax \in Nat /\ CommissionMax \in Nat
    BY ClockTyped, AtFacts, ScoreAssumption, EncodingAssumption DEF HistoryInv
  <2>2. /\ epoch >= FirstReliable
        /\ p.mev_range \in 0 .. epoch - FirstReliable /\ p.commission_range \in 0 .. epoch - FirstReliable
        /\ p.mev_bps_threshold \in 0 .. BasisPointsMax /\ p.commission_threshold \in 0 .. CommissionMax
    BY DEF HistoryInv, ParametersInv
  <2>3. Newest(account).epoch = epoch /\ account.idx \in Positions /\ Latest("commission")
    BY RecentEntry
  <2>4. /\ ~(CalculateMaxMevCommission(p, truth) > p.mev_bps_threshold)
        /\ ~(CalculateMaxCommission(p, truth) > p.commission_threshold)
        /\ ~blacklisted /\ ~BadAuthority(truth) /\ ~BadFeeAuthority
    BY DEF Filters
  <2>5. \/ InstantMevCommission(truth) > p.mev_bps_threshold
        \/ InstantCommission(truth) > p.commission_threshold
    BY <2>4 DEF InstantUnstake
  \* the two epochs are within the window of the score
  <2>6. ~(InstantMevCommission(truth) > p.mev_bps_threshold)
    <3> DEFINE near == Window("mev", Max({0, epoch - 1}), epoch)
               wide == MevWindow(p)
               N == {MevCommission(truth, e) : e \in near}
               W == {MevCommission(truth, e) : e \in wide}
    <3>1. Max({0, epoch - 1}) \in Int /\ Max({0, epoch - 1}) >= epoch - p.mev_range
      BY <2>1, <2>2, OfTwo
    <3>2. near \subseteq wide
      <4>1. Window("mev", Max({0, epoch - 1}), epoch) =
              {account.arr[k].epoch : k \in {j \in Positions :
                 account.arr[j].epoch \in Max({0, epoch - 1}) .. epoch /\ account.arr[j]["mev"] # Unset}}
        BY <2>1, <3>1, WindowIs
      <4>2. Window("mev", epoch - p.mev_range, epoch) =
              {account.arr[k].epoch : k \in {j \in Positions :
                 account.arr[j].epoch \in epoch - p.mev_range .. epoch /\ account.arr[j]["mev"] # Unset}}
        BY <2>1, <2>2, WindowIs
      <4>3. Max({0, epoch - 1}) .. epoch \subseteq epoch - p.mev_range .. epoch
        BY <2>1, <2>2, <3>1
      <4> QED BY <4>1, <4>2, <4>3 DEF MevWindow
    <3>3. \A e : MevCommission(truth, e) \in 0 .. BasisPointsMax
      BY <2>1 DEF MevCommission
    <3> HIDE DEF near, wide
    <3>4. N \in SUBSET (0 .. BasisPointsMax) /\ W \in SUBSET (0 .. BasisPointsMax) /\ N \subseteq W
      BY <3>2, <3>3
    <3>5. InstantMevCommission(truth) = MaxOr(N, 0) /\ CalculateMaxMevCommission(p, truth) = MaxOr(W, BasisPointsMax)
      BY DEF InstantMevCommission, CalculateMaxMevCommission, near, wide
    <3> HIDE DEF N, W
    <3>6. CASE N = {}
      BY <2>1, <2>2, <3>5, <3>6 DEF MaxOr
    <3>7. CASE N # {}
      <4>1. W # {} /\ ~(MaxOr(W, BasisPointsMax) > p.mev_bps_threshold)
        BY <2>4, <3>4, <3>5, <3>7
      <4>2. BasisPointsMax \in 0 .. BasisPointsMax /\ 0 \in 0 .. BasisPointsMax
        BY <2>1
      <4>3. \A v \in W : v <= p.mev_bps_threshold
        BY <2>1, <2>2, <3>4, <4>1, <4>2, MaxOrBelow
      <4>4. \A v \in N : v <= p.mev_bps_threshold
        BY <3>4, <4>3
      <4> QED BY <2>1, <2>2, <3>4, <3>5, <3>7, <4>2, <4>4, MaxOrBelow
    <3> QED BY <3>6, <3>7
  \* this epoch's commission is in the window of the score
  <2>7. ~(InstantCommission(truth) > p.commission_threshold)
    <3> DEFINE W == {Commission(truth, e) : e \in CommissionWindow(p)}
    <3>1. InstantCommission(truth) = Commission(truth, epoch)
      BY <2>3 DEF InstantCommission
    <3>2. epoch \in CommissionWindow(p)
      <4>1. Window("commission", epoch - p.commission_range, epoch) =
              {account.arr[k].epoch : k \in {j \in Positions :
                 account.arr[j].epoch \in epoch - p.commission_range .. epoch /\ account.arr[j]["commission"] # Unset}}
        BY <2>1, <2>2, WindowIs
      <4>2. account.arr[account.idx].epoch = epoch /\ account.arr[account.idx]["commission"] # Unset
        BY <2>3 DEF Newest, Latest
      <4>3. epoch \in epoch - p.commission_range .. epoch
        BY <2>1, <2>2
      <4> QED BY <2>3, <4>1, <4>2, <4>3 DEF CommissionWindow
    <3>3. \A e : Commission(truth, e) \in 0 .. CommissionMax
      BY <2>1 DEF Commission
    <3>4. W \in SUBSET (0 .. CommissionMax) /\ Commission(truth, epoch) \in W /\ W # {}
      BY <3>2, <3>3
    <3>5. CalculateMaxCommission(p, truth) = MaxOr(W, 0)
      BY DEF CalculateMaxCommission
    <3> HIDE DEF W
    <3>6. ~(MaxOr(W, 0) > p.commission_threshold) /\ 0 \in 0 .. CommissionMax
      BY <2>1, <2>4, <3>5
    <3>7. \A v \in W : v <= p.commission_threshold
      BY <2>1, <2>2, <3>4, <3>6, MaxOrBelow
    <3>8. Commission(truth, epoch) <= p.commission_threshold /\ Commission(truth, epoch) \in Int
      BY <3>3, <3>4, <3>7
    <3> QED BY <2>2, <3>1, <3>8
  <2> QED BY <2>5, <2>6, <2>7
<1> QED BY <1>1, HistoryKept, PTL

-----------------------------------------------------------------------------
(* Credits: what a copy of the vote account leaves behind *)

\* The entry of an epoch, if there is one, has credits.
HasCredits(h, e) == \A k \in Positions : h.arr[k].epoch = e => h.arr[k].credits # Unset

\* Only epochs in V have credits.
CreditsOf(h, V) == \A k \in Positions : h.arr[k].credits # Unset => h.arr[k].epoch \in V

\* No entry is older than first, and first has one unless a full buffer has moved on.
Begins(h, first) ==
  /\ \A k \in Positions : h.arr[k].epoch # NoEpoch => first <= h.arr[k].epoch
  /\ Holds(h, first) \/ AllUsed(h)

\* The credits and the commission of an entry are unset, or those of before.
FactsFrom(g, h) ==
  \A k \in Positions : \A f \in {"credits", "commission"} :
    \/ g.arr[k][f] = Unset
    \/ \E j \in Positions : g.arr[k].epoch = h.arr[j].epoch /\ g.arr[k][f] = h.arr[j][f]

\* An epoch stays with its credits.
LEMMA CreditsSurvive ==
  ASSUME NEW h, NEW g, Ring(h), Ring(g), ~h.is_empty, Survives(h, g), NEW e \in 0 .. MaxEpoch,
         HeldOrOld(h, e), HasCredits(h, e)
  PROVE  HeldOrOld(g, e) /\ HasCredits(g, e)
<1>1. e # NoEpoch /\ e \in Int /\ Numbered(h) /\ Numbered(g) /\ HeldOrOld(g, e)
  BY AtFacts, RingOrder, HeldSurvives DEF Numbered
<1>2. ASSUME NEW k \in Positions, g.arr[k].epoch = e PROVE g.arr[k].credits # Unset
  <2>1. PICK i \in Positions : h.arr[i].epoch # NoEpoch
    BY NotEmpty
  <2>2. PICK j \in Positions : h.arr[j].epoch # NoEpoch /\ h.arr[j].epoch <= e
    BY <1>1, <1>2, <2>1 DEF Survives, Behind
  <2>3. Holds(h, e)
    <3>1. ~(e < h.arr[j].epoch)
      BY <1>1, <2>2 DEF Numbered
    <3> QED BY <2>2, <3>1 DEF HeldOrOld
  <2>4. PICK m \in Positions : h.arr[m].epoch = e
    BY <2>3 DEF Holds
  <2>5. ~\A n \in Positions : e < g.arr[n].epoch
    BY <1>1, <1>2
  <2>6. PICK n \in Positions : g.arr[n].epoch = e /\ Kept(h.arr[m], g.arr[n])
    BY <1>1, <2>4, <2>5 DEF Survives, KeptOrOld
  <2>7. n = k
    BY <1>1, <1>2, <2>6, RingOrder
  <2> QED BY <2>4, <2>6, <2>7 DEF HasCredits, Kept, FactFields
<1> QED BY <1>1, <1>2 DEF HasCredits

\* Where a history begins.
LEMMA BeginsSurvives ==
  ASSUME NEW h, NEW g, Ring(h), Ring(g), ~h.is_empty, Survives(h, g), NEW e \in 0 .. MaxEpoch,
         Begins(h, e)
  PROVE  Begins(g, e)
<1>1. e # NoEpoch /\ e \in Int /\ Numbered(h) /\ Numbered(g)
  BY AtFacts, RingOrder DEF Numbered
<1>2. PICK i \in Positions : h.arr[i].epoch # NoEpoch
  BY NotEmpty
<1>3. ASSUME NEW k \in Positions, g.arr[k].epoch # NoEpoch PROVE e <= g.arr[k].epoch
  <2>1. PICK j \in Positions : h.arr[j].epoch # NoEpoch /\ h.arr[j].epoch <= g.arr[k].epoch
    BY <1>2, <1>3 DEF Survives, Behind
  <2> QED BY <1>1, <2>1 DEF Begins, Numbered
<1>4. Holds(g, e) \/ AllUsed(g)
  <2>1. CASE AllUsed(h)
    BY <2>1 DEF Survives
  <2>2. CASE Holds(h, e)
    BY <1>1, <2>2 DEF Holds, Survives, KeptOrOld
  <2> QED BY <2>1, <2>2 DEF Begins
<1> QED BY <1>3, <1>4 DEF Begins

\* Epochs from the beginning on have entries, if the buffer has room for what follows.
LEMMA HeldSince ==
  ASSUME NEW h, Ring(h), NEW current \in 0 .. MaxEpoch, UpTo(h, current), NEW first \in 0 .. MaxEpoch,
         Begins(h, first), NEW e \in Int, first <= e, current - e < MaxItems, HeldOrOld(h, e)
  PROVE  Holds(h, e)
<1>1. /\ MaxItems \in Int /\ Positions = 0 .. MaxItems - 1 /\ \A k \in Positions : h.arr[k].epoch \in Int
      /\ current \in Int
  BY RingFacts
<1> SUFFICES ASSUME \A k \in Positions : h.arr[k].epoch # NoEpoch => e < h.arr[k].epoch, ~Holds(h, e)
             PROVE  FALSE
  BY DEF HeldOrOld
<1>2. CASE AllUsed(h)
  <2> DEFINE D == EpochsIn(h)
             I == e + 1 .. current
  <2>1. IsFiniteSet(D) /\ Cardinality(D) = MaxItems
    BY <1>2, EpochsCount
  <2>2. D \in SUBSET I
    BY <1>1, <1>2 DEF EpochsIn, UsedPlaces, UpTo, AllUsed
  <2>3. e + 1 \in Int /\ current \in Int
    BY <1>1
  <2>4. IsFiniteSet(I) /\ Cardinality(I) = IF e + 1 > current THEN 0 ELSE current - (e + 1) + 1
    BY <2>3, FS_Interval
  <2> HIDE DEF D, I
  <2>5. Cardinality(D) <= Cardinality(I)
    BY <2>2, <2>4, FS_Subset
  <2>6. MaxItems > 0
    BY AtFacts
  <2> QED BY <1>1, <2>1, <2>4, <2>5, <2>6
<1>3. CASE Holds(h, first)
  <2>1. PICK k \in Positions : h.arr[k].epoch = first /\ first # NoEpoch /\ first \in Int
    BY <1>3, AtFacts DEF Holds
  <2> QED BY <1>1, <2>1
<1> QED BY <1>2, <1>3 DEF Begins

\* set_commission_and_slot makes the epoch's entry the newest.
LEMMA CommissionNewest ==
  ASSUME NEW current \in 0 .. MaxEpoch, NEW h, AccountIn(h, current)
  PROVE  /\ ~SetCommissionAndSlot(h, current).is_empty
         /\ Newest(SetCommissionAndSlot(h, current)).epoch = current
<1> DEFINE facts == [commission |-> current]
           w == SetEntry(h, current, facts)
<1>1. /\ h \in AccountType /\ Ring(h) /\ IsRing(h) /\ h.idx \in Positions /\ current \in Int
      /\ \A k \in Positions : h.arr[k] \in EntryType
  BY AtFacts DEF AccountIn, AccountType, Ring, IsRing
<1>2. IsFacts(facts)
  BY <1>1 DEF IsFacts, EntryFields, Number
<1> HIDE DEF facts
<1>3. CASE IsNew(h, current)
  <2> DEFINE x == With(Blank(current), facts)
  <2>1. x.epoch = current
    BY <1>2, BlankTyped, WithFacts
  <2>2. w = Push(h, x)
    BY <1>3 DEF SetEntry
  <2> HIDE DEF x, w
  <2>3. w.idx = At(h.idx, 0) /\ ~w.is_empty /\ w.arr = [h.arr EXCEPT ![At(h.idx, 0)] = x]
    BY <1>1, <2>2, PushFields
  <2>4. At(h.idx, 0) \in Positions /\ h.arr = [k \in Positions |-> h.arr[k]]
    BY <1>1, RingFacts DEF IsRing
  <2>5. w.arr[w.idx] = x
    BY <2>3, <2>4
  <2> QED BY <2>1, <2>3, <2>5 DEF w, facts, SetCommissionAndSlot, Newest
<1>4. CASE ~IsNew(h, current)
  <2>1. ~h.is_empty /\ h.arr[h.idx].epoch \in Int /\ h.arr[h.idx].epoch # NoEpoch
    BY <1>1, <1>4, RingOrder DEF IsNew, Ring, Packed
  <2>2. h.arr[h.idx].epoch <= current
    BY <1>1, <2>1 DEF AccountIn, EntryOf
  <2>3. ~(h.arr[h.idx].epoch < current)
    BY <1>4 DEF IsNew, Newest
  <2>4. h.arr[h.idx].epoch = current
    BY <1>1, <2>1, <2>2, <2>3
  <2>5. w = [h EXCEPT !.arr[h.idx] = With(h.arr[h.idx], facts)]
    BY <1>4, <2>4 DEF SetEntry, Newest
  <2> DEFINE x == With(h.arr[h.idx], facts)
  <2>6. x \in EntryType /\ x.epoch = h.arr[h.idx].epoch
    BY <1>1, <1>2, WithFacts
  <2> HIDE DEF x, w
  <2>7. w = [h EXCEPT !.arr[h.idx] = x]
    BY <2>5 DEF x
  <2>8. (\A k \in Positions : w.arr[k] = IF k = h.idx THEN x ELSE h.arr[k]) /\ w.idx = h.idx /\ w.is_empty = h.is_empty
    BY <1>1, <2>6, <2>7, RewriteEntry
  <2>9. w.arr[w.idx].epoch = current
    BY <1>1, <2>4, <2>6, <2>8
  <2> QED BY <2>1, <2>8, <2>9 DEF w, facts, SetCommissionAndSlot, Newest
<1> QED BY <1>3, <1>4

\* set_epoch_credits reaches the entry of every epoch with credits.
LEMMA CreditsReach ==
  ASSUME NEW h, Ring(h), NEW credits \in SUBSET Nat, NEW k \in Positions, h.arr[k].epoch \in credits,
         h.arr[k].epoch # NoEpoch
  PROVE  \E i \in Positions :
           /\ (h.idx + MaxItems - i) % MaxItems = k
           /\ \A j \in 0 .. i - 1 : h.arr[(h.idx + MaxItems - j) % MaxItems].epoch # Min(credits)
<1>1. h.idx \in Positions /\ MaxItems \in Nat /\ Positions = 0 .. MaxItems - 1
  BY RingFacts
<1>2. Min(credits) \in credits /\ Min(credits) <= h.arr[k].epoch /\ Min(credits) \in Nat
  BY MinNatural
<1>3. ASSUME NEW i \in Positions PROVE (h.idx + MaxItems - i) % MaxItems = At(h.idx, MaxItems - 1 - i)
  <2>1. MaxItems - 1 - i \in Positions /\ h.idx + 1 + (MaxItems - 1 - i) = h.idx + MaxItems - i
    BY <1>1
  <2> DEFINE c == MaxItems - 1 - i
  <2> HIDE DEF c
  <2>2. c \in Positions
    BY <2>1 DEF c
  <2>3. \A j, d \in Positions : (j + 1 + d) % MaxItems = At(j, d)
    BY Places
  <2>4. (h.idx + 1 + c) % MaxItems = At(h.idx, c)
    BY <1>1, <2>2, <2>3
  <2> QED BY <2>1, <2>4 DEF c
<1>4. PICK c \in Positions : At(h.idx, c) = k
  BY RingFacts
<1>5. MaxItems - 1 - c \in Positions /\ MaxItems - 1 - (MaxItems - 1 - c) = c
  BY <1>1
<1>6. ASSUME NEW j \in 0 .. MaxItems - 1 - c - 1
      PROVE  h.arr[(h.idx + MaxItems - j) % MaxItems].epoch # Min(credits)
  <2>1. j \in Positions /\ MaxItems - 1 - j \in Positions /\ c < MaxItems - 1 - j
    BY <1>1
  <2> DEFINE d == MaxItems - 1 - j
  <2>2. (h.idx + MaxItems - j) % MaxItems = At(h.idx, d)
    BY <1>3, <2>1
  <2> HIDE DEF d
  <2>3. d \in Positions /\ c < d
    BY <2>1 DEF d
  <2>4. h.arr[k].epoch < h.arr[At(h.idx, d)].epoch
    BY <1>4, <2>3 DEF Ring, Rising
  <2>5. At(h.idx, d) \in Positions
    BY <1>1, <2>3, Places
  <2>6. h.arr[k].epoch \in Int /\ h.arr[At(h.idx, d)].epoch \in Int
    BY <2>5, RingFacts
  <2> QED BY <1>2, <2>2, <2>4, <2>6
<1>7. (h.idx + MaxItems - (MaxItems - 1 - c)) % MaxItems = k
  BY <1>3, <1>4, <1>5
<1> QED BY <1>5, <1>6, <1>7

\* set_epoch_credits gives credits to the epochs that have them, and to no other.
LEMMA CreditsWritten ==
  ASSUME NEW h \in AccountType, Ring(h), NEW credits \in SUBSET (0 .. MaxEpoch)
  PROVE  /\ \A e \in credits : HasCredits(SetEpochCredits(h, credits), e)
         /\ \A V : credits \subseteq V /\ CreditsOf(h, V) => CreditsOf(SetEpochCredits(h, credits), V)
         /\ \A k \in Positions : SetEpochCredits(h, credits).arr[k].epoch = h.arr[k].epoch
         /\ SetEpochCredits(h, credits).idx = h.idx /\ SetEpochCredits(h, credits).is_empty = h.is_empty
         /\ SameRest(SetEpochCredits(h, credits), h)
<1> DEFINE place(i) == (h.idx + MaxItems - i) % MaxItems
           walked(i) == \A j \in 0 .. i - 1 : h.arr[place(j)].epoch # Min(credits)
           reached == {place(i) : i \in {j \in Positions : walked(j)}}
           written == {k \in Positions : k \in reached /\ h.arr[k].epoch \in credits}
           a == [k \in Positions |-> IF k \in written
                   THEN [h.arr[k] EXCEPT !.credits = h.arr[k].epoch] ELSE h.arr[k]]
           g == SetEpochCredits(h, credits)
<1>1. g = [h EXCEPT !.arr = a]
  BY DEF SetEpochCredits
<1>2. ASSUME NEW k \in Positions, h.arr[k].epoch \in credits PROVE k \in written
  <2>1. credits \in SUBSET Nat /\ h.arr[k].epoch # NoEpoch
    BY <1>2, AtFacts
  <2>2. \E i \in Positions :
           /\ (h.idx + MaxItems - i) % MaxItems = k
           /\ \A j \in 0 .. i - 1 : h.arr[(h.idx + MaxItems - j) % MaxItems].epoch # Min(credits)
    BY <1>2, <2>1, CreditsReach
  <2> QED BY <1>2, <2>2
<1>3. \A k \in Positions : k \in written => h.arr[k].epoch \in credits
  OBVIOUS
<1> HIDE DEF g, written
<1>4. \A k \in Positions : h.arr[k] \in EntryType
  BY DEF AccountType
<1>5. ASSUME NEW x \in EntryType
      PROVE  LET y == [x EXCEPT !.credits = x.epoch]
             IN  y.epoch = x.epoch /\ y.credits # Unset
  BY AtFacts, HistoryAssumption DEF EntryType
<1>6. \A k \in Positions : /\ a[k].epoch = h.arr[k].epoch
                           /\ k \in written => a[k].credits # Unset
                           /\ k \notin written => a[k] = h.arr[k]
  BY <1>4, <1>5
<1> HIDE DEF a
<1>7. g.arr = a /\ SameRest(g, h) /\ g.idx = h.idx /\ g.is_empty = h.is_empty
  BY <1>1 DEF AccountType, SameRest
<1>8. \A e \in credits : HasCredits(g, e)
  BY <1>2, <1>6, <1>7 DEF HasCredits
<1>9. \A V : credits \subseteq V /\ CreditsOf(h, V) => CreditsOf(g, V)
  BY <1>3, <1>6, <1>7 DEF CreditsOf
<1> QED BY <1>6, <1>7, <1>8, <1>9 DEF g

\* Facts are moved with their entries, or new.
LEMMA CreditsFrom ==
  ASSUME NEW h, NEW g, NEW V, FactsFrom(g, h), CreditsOf(h, V)
  PROVE  CreditsOf(g, V)
<1> SUFFICES ASSUME NEW k \in Positions, g.arr[k].credits # Unset PROVE g.arr[k].epoch \in V
  BY DEF CreditsOf
<1>1. "credits" \in {"credits", "commission"}
  OBVIOUS
<1>2. PICK j \in Positions : g.arr[k].epoch = h.arr[j].epoch /\ g.arr[k]["credits"] = h.arr[j]["credits"]
  BY <1>1 DEF FactsFrom
<1> QED BY <1>2 DEF CreditsOf

\* A setter of an empty account writes its only entry.
LEMMA SetterBegins ==
  ASSUME NEW h \in AccountType, Ring(h), NEW e \in 0 .. MaxEpoch, NEW facts, IsFacts(facts),
         NEW g, g = SetEntry(h, e, facts)
  PROVE  ~g.is_empty /\ (h.is_empty => Begins(g, Newest(g).epoch))
<1>1. /\ IsRing(h) /\ h.idx \in Positions /\ At(h.idx, 0) \in Positions /\ h.arr = [k \in Positions |-> h.arr[k]]
      /\ e \in Int /\ e # NoEpoch
  BY RingFacts, AtFacts DEF Ring, IsRing
<1>2. CASE h.is_empty
  <2> DEFINE x == With(Blank(e), facts)
             n == At(h.idx, 0)
  <2>1. x.epoch = e
    BY BlankTyped, WithFacts
  <2>2. g = Push(h, x)
    BY <1>2 DEF SetEntry, IsNew
  <2> HIDE DEF x
  <2>3. g.idx = n /\ ~g.is_empty /\ g.arr = [h.arr EXCEPT ![n] = x]
    BY <1>1, <2>2, PushFields
  <2> HIDE DEF n
  <2>4. n \in Positions
    BY <1>1 DEF n
  <2>5. \A k \in Positions : h.arr[k].epoch = NoEpoch
    BY <1>2 DEF Ring, Packed
  <2>6. g.arr[n] = x /\ \A k \in Positions : k # n => g.arr[k] = h.arr[k]
    BY <1>1, <2>3, <2>4
  <2>7. Newest(g).epoch = e /\ \A k \in Positions : g.arr[k].epoch # NoEpoch => g.arr[k].epoch = e
    BY <2>1, <2>3, <2>5, <2>6 DEF Newest
  <2>8. Holds(g, e)
    BY <2>1, <2>4, <2>6 DEF Holds
  <2>9. Begins(g, e)
    BY <1>1, <2>7, <2>8 DEF Begins
  <2> QED BY <2>3, <2>7, <2>9
<1>3. CASE ~h.is_empty
  <2>1. ASSUME NEW p, NEW y, g = [h EXCEPT !.arr[p] = y] PROVE g.is_empty = h.is_empty
    BY <2>1 DEF AccountType
  <2>2. ASSUME NEW y, g = Push(h, y) PROVE ~g.is_empty
    <3>1. ~Push(h, y).is_empty
      BY <1>1, PushFields
    <3> QED BY <2>2, <3>1
  <2>3. \/ \E y : g = Push(h, y)
        \/ \E p, y : g = [h EXCEPT !.arr[p] = y]
        \/ g = h
    BY DEF SetEntry
  <2> QED BY <1>3, <2>1, <2>2, <2>3
<1> QED BY <1>2, <1>3

\* copy_vote_account, before it updates the age: every epoch the vote account remembers has
\* an entry with credits, or is older than all entries.
LEMMA CopiedCredits ==
  ASSUME NEW current \in 0 .. MaxEpoch, NEW h, AccountIn(h, current), NEW credits \in SUBSET (0 .. current),
         NEW s, s = SetEpochCredits(InsertMissingEntries(SetCommissionAndSlot(h, current), credits), credits)
  PROVE  /\ AccountIn(s, current) /\ Survives(h, s)
         /\ ~s.is_empty /\ Newest(s).epoch = current
         /\ SameRest(s, h) /\ (h.is_empty => Begins(s, current))
         /\ \A e \in credits : HeldOrOld(s, e) /\ HasCredits(s, e)
         /\ \A V : credits \subseteq V /\ CreditsOf(h, V) => CreditsOf(s, V)
<1> DEFINE w == SetCommissionAndSlot(h, current)
           f == InsertMissingEntries(w, credits)
           facts == [commission |-> current]
<1>1. /\ IsFacts(facts) /\ Adds(facts, h, current) /\ "credits" \notin DOMAIN facts
      /\ \A x \in DOMAIN facts \cap FactFields : facts[x] = current
  BY AtFacts, HistoryAssumption DEF IsFacts, EntryFields, Number, Adds
<1>2. /\ current \in 0 .. current /\ current \in Int /\ h \in AccountType /\ Ring(h)
      /\ w = SetEntry(h, current, facts)
  BY AtFacts DEF SetCommissionAndSlot, AccountIn
<1> HIDE DEF facts
<1>3. ~w.is_empty /\ Newest(w).epoch = current
  BY CommissionNewest
<1> HIDE DEF w
<1>4. AccountIn(w, current)
  BY <1>1, <1>2, SetFact
<1>5. SameRest(w, h) /\ Sets(w, h, current, facts) /\ w \in AccountType /\ Ring(w)
  BY <1>1, <1>2, SetEntryKeeps
<1>6. Survives(h, w)
  BY <1>1, <1>2, SetEntrySurvives
<1>7. credits \in SUBSET (0 .. MaxEpoch)
  BY AtFacts
<1>8. \A e \in credits : e <= Newest(w).epoch
  BY <1>2, <1>3
<1> HIDE DEF f
<1>9. /\ f \in AccountType /\ Ring(f) /\ FilledFrom(f, w, credits) /\ Survives(w, f)
      /\ \A e \in credits : HeldOrOld(f, e)
  BY <1>3, <1>5, <1>7, <1>8, MissingKeeps DEF f
<1>10. AccountIn(f, current)
  BY <1>4, FillMissing DEF f
<1>11. s = SetEpochCredits(f, credits)
  BY DEF f, w
<1>12. AccountIn(s, current) /\ Survives(f, s)
  BY <1>10, <1>11, CreditsSet
<1>13. /\ \A e \in credits : HasCredits(s, e)
       /\ \A V : credits \subseteq V /\ CreditsOf(f, V) => CreditsOf(s, V)
       /\ \A k \in Positions : s.arr[k].epoch = f.arr[k].epoch
       /\ s.idx = f.idx /\ s.is_empty = f.is_empty
       /\ SameRest(s, f)
  BY <1>7, <1>9, <1>11, CreditsWritten
<1>14. ASSUME NEW e \in credits PROVE HeldOrOld(s, e)
  BY <1>9, <1>13 DEF HeldOrOld, Holds
<1>15. Numbered(h) /\ Numbered(w) /\ Numbered(f) /\ Numbered(s)
  BY <1>2, <1>5, <1>9, <1>13, RingOrder DEF Numbered
<1>16. Survives(h, f)
  BY <1>6, <1>9, <1>15, SurvivesTwice
<1>17. Survives(h, s)
  BY <1>12, <1>15, <1>16, SurvivesTwice
<1>18. f.is_empty = w.is_empty /\ Newest(f) = Newest(w) /\ SameRest(f, w)
  BY <1>9 DEF FilledFrom
<1>19. ~s.is_empty
  BY <1>3, <1>13, <1>18
<1>20. Newest(s).epoch = current
  <2>1. f.idx \in Positions
    BY <1>9 DEF Ring, IsRing
  <2> QED BY <1>3, <1>13, <1>18, <2>1 DEF Newest
<1>21. SameRest(s, h)
  BY <1>5, <1>13, <1>18 DEF SameRest
<1>22. ASSUME NEW V, credits \subseteq V, CreditsOf(h, V) PROVE CreditsOf(s, V)
  <2>1. ASSUME NEW x \in EntryType PROVE With(x, facts).epoch = x.epoch /\ With(x, facts).credits = x.credits
    BY <1>1, WithFacts DEF EntryFields
  <2>2. Blank(current) \in EntryType /\ Blank(current).credits = Unset
    BY BlankTyped DEF Blank, DefaultEntry
  <2>3. \A k \in Positions : h.arr[k] \in EntryType
    BY <1>2 DEF AccountType
  <2>4. CreditsOf(w, V)
    BY <1>5, <1>22, <2>1, <2>2, <2>3 DEF CreditsOf, Sets
  <2>5. \A e : Blank(e).credits = Unset
    BY DEF Blank, DefaultEntry
  <2>6. CreditsOf(f, V)
    BY <1>9, <2>4, <2>5 DEF CreditsOf, FilledFrom
  <2> QED BY <1>13, <1>22, <2>6
<1>23. ASSUME h.is_empty PROVE Begins(s, current)
  <2>1. Begins(w, current)
    BY <1>1, <1>2, <1>3, <1>23, SetterBegins
  <2>2. ~f.is_empty /\ Ring(s)
    BY <1>3, <1>12, <1>18 DEF AccountIn
  <2>3. Begins(f, current)
    BY <1>3, <1>5, <1>9, <2>1, BeginsSurvives
  <2> QED BY <1>9, <1>12, <2>2, <2>3, BeginsSurvives
<1> QED BY <1>12, <1>13, <1>14, <1>17, <1>19, <1>20, <1>21, <1>22, <1>23

\* The epochs of V from first to last, and the entries of them that have credits.
Between(V, first, last) == {e \in V : first <= e /\ e <= last}
Credited(h, first, last) ==
  {h.arr[k] : k \in {j \in Positions : h.arr[j].epoch \in first .. last /\ h.arr[j].credits # Unset}}

\* As many entries in a range have credits as epochs of the range are in V, if all of these
\* have an entry with credits.
LEMMA CountsVotes ==
  ASSUME NEW h, Ring(h), NEW V \in SUBSET (0 .. MaxEpoch), CreditsOf(h, V), NEW first \in Int, NEW last \in Int,
         \A e \in Between(V, first, last) : Holds(h, e) /\ HasCredits(h, e)
  PROVE  Cardinality(Credited(h, first, last)) = Cardinality(Between(V, first, last))
<1> DEFINE K == {j \in Positions : h.arr[j].epoch \in first .. last /\ h.arr[j].credits # Unset}
           S == Credited(h, first, last)
           T == Between(V, first, last)
<1>0. /\ K \in SUBSET Positions
      /\ \A j \in Positions : j \in K <=> h.arr[j].epoch \in first .. last /\ h.arr[j].credits # Unset
      /\ S = {h.arr[j] : j \in K}
      /\ T \in SUBSET V /\ \A e \in V : e \in T <=> first <= e /\ e <= last
      /\ \A e \in T : Holds(h, e) /\ HasCredits(h, e)
  BY DEF Credited, Between
<1> HIDE DEF K, S, T
<1> DEFINE m == [x \in S |-> x.epoch]
<1>1. \A j \in K : h.arr[j].epoch \in T /\ h.arr[j].epoch # NoEpoch
  <2>1. \A j \in K : h.arr[j].epoch \in V
    BY <1>0 DEF CreditsOf
  <2>2. MaxEpoch \in Nat /\ NoEpoch = MaxEpoch + 1
    BY AtFacts
  <2>3. ASSUME NEW j \in K PROVE first <= h.arr[j].epoch /\ h.arr[j].epoch <= last
    <3>1. h.arr[j].epoch \in first .. last
      BY <1>0
    <3> QED BY <3>1
  <2> QED BY <1>0, <2>1, <2>2, <2>3
<1>2. \A e \in T : \E j \in K : h.arr[j].epoch = e
  <2> SUFFICES ASSUME NEW e \in T PROVE \E j \in K : h.arr[j].epoch = e
    OBVIOUS
  <2>1. e \in V /\ first <= e /\ e <= last /\ e \in Int
    BY <1>0, AtFacts
  <2>2. PICK j \in Positions : h.arr[j].epoch = e
    BY <1>0, <2>1 DEF Holds
  <2>3. h.arr[j].credits # Unset
    BY <1>0, <2>2 DEF HasCredits
  <2> QED BY <1>0, <2>1, <2>2, <2>3
<1>3. \A j, k \in K : h.arr[j].epoch = h.arr[k].epoch => j = k
  BY <1>0, <1>1, RingOrder
<1>4. S = {h.arr[k] : k \in K}
  BY <1>0
<1>5. m \in [S -> T] /\ \A t \in T : \E x \in S : m[x] = t
  BY <1>1, <1>2, <1>4
<1>6. \A x, y \in S : m[x] = m[y] => x = y
  BY <1>3, <1>4
<1>7. m \in Bijection(S, T)
  <2> HIDE DEF m
  <2> QED BY <1>5, <1>6 DEF Bijection, Injection, Surjection, IsInjective
<1>8. ExistsBijection(S, T)
  <2> HIDE DEF m
  <2> QED BY <1>7 DEF ExistsBijection
<1>9. IsFiniteSet(Positions)
  BY AtFacts, FS_Interval
<1>10. IsFiniteSet(K)
  BY <1>0, <1>9, FS_Subset
<1>11. IsFiniteSet({h.arr[k] : k \in K})
  BY <1>10, ImageFinite
<1>12. IsFiniteSet(S)
  BY <1>4, <1>11
<1>13. Cardinality(S) = Cardinality(T)
  BY <1>8, <1>12, FS_Bijection
<1> QED BY <1>13 DEF S, T

\* The epoch from which the age is counted is that of the first entry, or there is none.
Dated(h, current, first) ==
  \/ first = Ever
  \/ first = NoEpoch /\ h.is_empty /\ h.age_epoch = 0
  \/ first \in 0 .. current /\ ~h.is_empty /\ Begins(h, first)

\* A copy of the vote account in this epoch has left the credits that it remembers.
Filled(h, current, V) ==
  ~h.is_empty /\ Newest(h).commission = current =>
    \A e \in V : e < current /\ current - e < CreditHistory => HeldOrOld(h, e) /\ HasCredits(h, e)

\* The age is the number of epochs with credits, up to the one it was counted in.
Aged(h, current, V, first, gap) ==
  first # Ever /\ h.age_epoch # 0 =>
    /\ h.age_epoch \in 1 .. current - 1 /\ first <= h.age_epoch + 1
    /\ ~gap => h.age = Cardinality(Between(V, first, h.age_epoch))

\* What a setter other than those of the vote account does.
Quiet(g, h) ==
  /\ g.age = h.age /\ g.age_epoch = h.age_epoch
  /\ FactsFrom(g, h)
  /\ ~g.is_empty
  /\ h.is_empty => Begins(g, Newest(g).epoch)

\* Setters of other facts move the credits and the commission.
LEMMA SetterFactsFrom ==
  ASSUME NEW h \in AccountType, Ring(h), NEW e \in 0 .. MaxEpoch, NEW facts, IsFacts(facts),
         DOMAIN facts \cap {"credits", "commission"} = {}
  PROVE  FactsFrom(SetEntry(h, e, facts), h)
<1> DEFINE g == SetEntry(h, e, facts)
<1>1. Sets(g, h, e, facts)
  BY SetEntryKeeps
<1> HIDE DEF g
<1>2. ASSUME NEW x \in EntryType, NEW f \in {"credits", "commission"}
      PROVE  With(x, facts).epoch = x.epoch /\ With(x, facts)[f] = x[f]
  BY WithFacts DEF EntryFields
<1>3. ASSUME NEW f \in {"credits", "commission"} PROVE Blank(e) \in EntryType /\ Blank(e)[f] = Unset
  BY BlankTyped DEF Blank, DefaultEntry
<1>4. \A k \in Positions : h.arr[k] \in EntryType
  BY DEF AccountType
<1>5. ASSUME NEW k \in Positions, NEW f \in {"credits", "commission"}
      PROVE  \/ g.arr[k][f] = Unset
             \/ \E j \in Positions : g.arr[k].epoch = h.arr[j].epoch /\ g.arr[k][f] = h.arr[j][f]
  BY <1>1, <1>2, <1>3, <1>4 DEF Sets
<1> QED BY <1>5 DEF FactsFrom, g

\* Setters leave credits, age and the first epoch as they are.
LEMMA SetterQuiet ==
  ASSUME NEW h \in AccountType, Ring(h), NEW e \in 0 .. MaxEpoch, NEW facts, IsFacts(facts),
         DOMAIN facts \cap {"credits", "commission"} = {}, NEW s, s = SetEntry(h, e, facts),
         NEW g, g.arr = s.arr, g.idx = s.idx, g.is_empty = s.is_empty, g.age = s.age, g.age_epoch = s.age_epoch
  PROVE  Quiet(g, h)
<1>1. FactsFrom(s, h)
  BY SetterFactsFrom
<1>2. ~s.is_empty /\ (h.is_empty => Begins(s, Newest(s).epoch))
  BY SetterBegins
<1>3. s.age = h.age /\ s.age_epoch = h.age_epoch
  BY SetEntryKeeps DEF SameRest
<1>4. FactsFrom(g, h)
  BY <1>1 DEF FactsFrom
<1>5. ~g.is_empty
  BY <1>2
<1>6. h.is_empty => Begins(g, Newest(g).epoch)
  BY <1>2 DEF Begins, Newest, Holds, AllUsed
<1> QED BY <1>3, <1>4, <1>5, <1>6 DEF Quiet

\* The three parts of the invariant after such a setter.
LEMMA QuietKeeps ==
  ASSUME NEW current \in 0 .. MaxEpoch, NEW h, AccountIn(h, current), NEW g, AccountIn(g, current),
         Survives(h, g), Quiet(g, h), NEW V \in SUBSET (0 .. current), NEW first, NEW gap,
         Dated(h, current, first), CreditsOf(h, V), Filled(h, current, V), Aged(h, current, V, first, gap),
         NEW later, later = IF first = NoEpoch /\ ~g.is_empty THEN Newest(g).epoch ELSE first
  PROVE  /\ Dated(g, current, later) /\ CreditsOf(g, V) /\ Filled(g, current, V)
         /\ Aged(g, current, V, later, gap)
<1>1. /\ Ring(h) /\ Ring(g) /\ g.age = h.age /\ g.age_epoch = h.age_epoch /\ ~g.is_empty
      /\ FactsFrom(g, h) /\ current \in Nat /\ MaxEpoch \in Nat /\ NoEpoch = MaxEpoch + 1 /\ Ever = -1
      /\ current <= MaxEpoch
  BY AtFacts DEF AccountIn, Quiet, Ever
<1>2. CreditsOf(g, V)
  BY <1>1, CreditsFrom
<1>3. g.idx \in Positions /\ g.arr[g.idx].epoch \in 0 .. current /\ g.arr[g.idx].epoch # NoEpoch
  <2>1. g.idx \in Positions /\ g.arr[g.idx].epoch # NoEpoch /\ g.arr[g.idx].epoch \in 0 .. NoEpoch
    BY <1>1 DEF Ring, IsRing, Packed
  <2>2. g.arr[g.idx].epoch <= current
    BY <2>1 DEF AccountIn, EntryOf
  <2> QED BY <1>1, <2>1, <2>2
<1>4. Dated(g, current, later)
  <2>1. CASE first = Ever
    BY <1>1, <2>1 DEF Dated
  <2>2. CASE first = NoEpoch /\ h.is_empty
    <3>1. later = Newest(g).epoch /\ Begins(g, later)
      BY <1>1, <2>2 DEF Quiet
    <3> QED BY <1>1, <1>3, <3>1 DEF Dated, Newest
  <2>3. CASE first \in 0 .. current /\ ~h.is_empty /\ Begins(h, first)
    <3>1. first \in 0 .. MaxEpoch /\ first # NoEpoch
      BY <1>1, <2>3
    <3>2. Begins(g, first)
      BY <1>1, <2>3, <3>1, BeginsSurvives
    <3> QED BY <1>1, <2>3, <3>1, <3>2 DEF Dated
  <2> QED BY <2>1, <2>2, <2>3 DEF Dated
<1>5. Aged(g, current, V, later, gap)
  <2>1. CASE first = NoEpoch
    <3>1. h.age_epoch = 0
      BY <1>1, <2>1 DEF Dated
    <3> QED BY <1>1, <3>1 DEF Aged
  <2>2. CASE first # NoEpoch
    <3>1. later = first
      BY <2>2
    <3> QED BY <1>1, <3>1 DEF Aged
  <2> QED BY <2>1, <2>2
<1>6. Filled(g, current, V)
  <2> SUFFICES ASSUME Newest(g).commission = current, NEW e \in V, e < current, current - e < CreditHistory
               PROVE  HeldOrOld(g, e) /\ HasCredits(g, e)
    BY DEF Filled
  <2>1. current # Unset /\ e \in 0 .. MaxEpoch
    BY <1>1, HistoryAssumption
  <2>2. PICK j \in Positions : g.arr[g.idx]["commission"] = h.arr[j]["commission"]
    <3>1. "commission" \in {"credits", "commission"}
      OBVIOUS
    <3> QED BY <1>1, <1>3, <2>1, <3>1 DEF FactsFrom, Newest
  <2>3. h.arr[j].commission = current
    BY <2>2 DEF Newest
  <2>4. h.arr[j].epoch = current
    <3>1. h.arr[j].commission \in {Unset, h.arr[j].epoch}
      BY DEF AccountIn, EntryOf, FactFields
    <3> QED BY <2>1, <2>3, <3>1
  <2>5. ~h.is_empty
    <3>1. current # NoEpoch
      BY <1>1
    <3> QED BY <1>1, <2>4, <3>1 DEF Ring, Packed
  <2>6. h.idx \in Positions /\ h.arr[h.idx].epoch \in Int /\ h.arr[h.idx].epoch # NoEpoch
    BY <1>1, <2>5, RingOrder DEF Ring, IsRing, Packed
  <2>7. h.arr[h.idx].epoch <= current
    BY <2>6 DEF AccountIn, EntryOf
  <2>8. current <= h.arr[h.idx].epoch
    BY <1>1, <2>4, <2>5, RingOrder
  <2>9. h.idx = j
    BY <1>1, <2>4, <2>6, <2>7, <2>8, RingOrder
  <2>10. Newest(h).commission = current
    BY <2>3, <2>9 DEF Newest
  <2>11. HeldOrOld(h, e) /\ HasCredits(h, e)
    BY <2>5, <2>10 DEF Filled
  <2> QED BY <1>1, <2>1, <2>5, <2>11, CreditsSurvive
<1> QED BY <1>2, <1>4, <1>5, <1>6

\* An epoch passes, or the validator votes.
LEMMA ClockKeeps ==
  ASSUME NEW current \in 0 .. MaxEpoch, NEW h, AccountIn(h, current), NEW V \in SUBSET (0 .. current),
         NEW first, NEW gap, NEW next \in 0 .. MaxEpoch, NEW W,
         (next > current /\ W = V) \/ (next = current /\ W \in {V, V \cup {current}}),
         Dated(h, current, first), CreditsOf(h, V), Filled(h, current, V), Aged(h, current, V, first, gap)
  PROVE  Dated(h, next, first) /\ CreditsOf(h, W) /\ Filled(h, next, W) /\ Aged(h, next, W, first, gap)
<1>1. current \in Nat /\ next \in Nat /\ current <= next /\ V \subseteq W /\ current <= MaxEpoch /\ NoEpoch = MaxEpoch + 1
  BY AtFacts
<1>2. CreditsOf(h, W)
  BY <1>1 DEF CreditsOf
<1>3. Dated(h, next, first)
  BY <1>1 DEF Dated
<1>4. Aged(h, next, W, first, gap)
  <2> SUFFICES ASSUME first # Ever, h.age_epoch # 0
               PROVE  /\ h.age_epoch \in 1 .. next - 1 /\ first <= h.age_epoch + 1
                      /\ ~gap => h.age = Cardinality(Between(W, first, h.age_epoch))
    BY DEF Aged
  <2>1. /\ h.age_epoch \in 1 .. current - 1 /\ first <= h.age_epoch + 1
        /\ ~gap => h.age = Cardinality(Between(V, first, h.age_epoch))
    BY DEF Aged
  <2>2. Between(W, first, h.age_epoch) = Between(V, first, h.age_epoch)
    <3>1. ~(current <= h.age_epoch)
      BY <1>1, <2>1
    <3> QED BY <3>1 DEF Between
  <2>3. h.age_epoch \in 1 .. next - 1
    BY <1>1, <2>1
  <2> QED BY <2>1, <2>2, <2>3
<1>5. Filled(h, next, W)
  <2>1. CASE next = current
    <3>1. \A e \in W : e < current => e \in V
      BY <1>1
    <3> QED BY <2>1, <3>1 DEF Filled
  <2>2. CASE next > current
    <3> SUFFICES ASSUME ~h.is_empty PROVE Newest(h).commission # next
      BY DEF Filled
    <3>1. h.idx \in Positions /\ h.arr[h.idx].epoch \in Int /\ h.arr[h.idx].epoch # NoEpoch
      BY RingOrder DEF AccountIn, Ring, IsRing, Packed
    <3>2. h.arr[h.idx].epoch <= current /\ h.arr[h.idx].commission \in {Unset, h.arr[h.idx].epoch}
      BY <3>1 DEF AccountIn, EntryOf, FactFields
    <3>3. next # Unset /\ h.arr[h.idx].epoch # next
      BY <1>1, <2>2, <3>1, <3>2, HistoryAssumption
    <3> QED BY <3>2, <3>3 DEF Newest
  <2> QED BY <1>1, <2>1, <2>2
<1> QED BY <1>2, <1>3, <1>4, <1>5

\* A vote account remembers the epochs that are less than CreditHistory back.
LEMMA VoteAccountRemembers ==
  ASSUME NEW current \in Nat, NEW V \in SUBSET (0 .. current), NEW e \in V,
         current - e < CreditHistory
  PROVE  Cardinality({x \in V : x > e}) < CreditHistory
<1>1. e \in Int /\ e + 1 \in Int /\ current \in Int /\ e <= current /\ CreditHistory \in Int
  BY HistoryAssumption
<1>2. {x \in V : x > e} \in SUBSET (e + 1 .. current)
  <2>1. ASSUME NEW x \in V, x > e PROVE x \in e + 1 .. current
    <3>1. x \in 0 .. current
      OBVIOUS
    <3> QED BY <1>1, <2>1, <3>1
  <2> QED BY <2>1
<1>3. IsFiniteSet(e + 1 .. current) /\ Cardinality(e + 1 .. current) = IF e + 1 > current THEN 0 ELSE current - (e + 1) + 1
  BY <1>1, FS_Interval
<1>4. Cardinality(e + 1 .. current) = current - e
  BY <1>1, <1>3
<1>5. IsFiniteSet({x \in V : x > e}) /\ Cardinality({x \in V : x > e}) <= Cardinality(e + 1 .. current)
  BY <1>2, <1>3, FS_Subset
<1>6. Cardinality({x \in V : x > e}) \in Nat
  BY <1>5, FS_CardinalityType
<1>7. QED
  BY <1>1, <1>4, <1>5, <1>6

\* The epochs up to last are those up to middle and those after it.
LEMMA EpochsAdd ==
  ASSUME NEW V \in SUBSET Int, IsFiniteSet(V), NEW first \in Int, NEW middle \in Int, NEW last \in Int,
         first <= middle + 1, middle <= last
  PROVE  Cardinality(Between(V, first, last)) =
           Cardinality(Between(V, first, middle)) + Cardinality(Between(V, middle + 1, last))
<1> DEFINE A == Between(V, first, middle)
           B == Between(V, middle + 1, last)
           C == Between(V, first, last)
<1>0. /\ A \in SUBSET V /\ \A e \in V : e \in A <=> first <= e /\ e <= middle
      /\ B \in SUBSET V /\ \A e \in V : e \in B <=> middle + 1 <= e /\ e <= last
      /\ C \in SUBSET V /\ \A e \in V : e \in C <=> first <= e /\ e <= last
  BY DEF Between
<1> HIDE DEF A, B, C
<1>1. V \in SUBSET Int
  OBVIOUS
<1>2. C = A \cup B
  <2>1. ASSUME NEW e \in V PROVE e \in C <=> e \in A \/ e \in B
    BY <1>0, <1>1
  <2> QED BY <1>0, <2>1
<1>9. A \cap B = {}
  <2>1. ASSUME NEW e \in V PROVE ~(e \in A /\ e \in B)
    BY <1>0, <1>1
  <2> QED BY <1>0, <2>1
<1>5. IsFiniteSet(A) /\ IsFiniteSet(B)
  BY <1>0, FS_Subset
<1>6. Cardinality(A) \in Nat /\ Cardinality(B) \in Nat /\ Cardinality({}) = 0
  BY <1>5, FS_CardinalityType, FS_EmptySet
<1>7. Cardinality(A \cup B) = Cardinality(A) + Cardinality(B) - Cardinality(A \cap B)
  BY <1>5, FS_Union
<1>8. Cardinality(C) = Cardinality(A) + Cardinality(B)
  <2>1. Cardinality(C) = Cardinality(A) + Cardinality(B) - Cardinality({})
    BY <1>2, <1>7, <1>9
  <2> QED BY <1>6, <2>1
<1> QED BY <1>8 DEF A, B, C

\* update_validator_age changes the age only.
Ages(g, h, current, end) ==
  /\ g.arr = h.arr /\ g.idx = h.idx /\ g.is_empty = h.is_empty
  /\ h.age_epoch = 0 =>
       /\ g.age_epoch = end
       /\ current # 0 => g.age = Cardinality({entry \in {h.arr[k] : k \in Positions} :
                                                entry.epoch <= end /\ entry.credits # Unset})
  /\ h.age_epoch # 0 /\ end <= h.age_epoch => g = h
  /\ h.age_epoch # 0 /\ ~(end <= h.age_epoch) =>
       /\ g.age_epoch = end
       /\ g.age = h.age + Cardinality({entry \in EpochRange(h, h.age_epoch + 1, end) : entry.credits # Unset})

\* It counts the entries with credits.
LEMMA AgeFields ==
  ASSUME NEW h \in AccountType, NEW current,
         NEW end, end = IF current = 0 THEN 0 ELSE current - 1
  PROVE  Ages(UpdateValidatorAge(h, current), h, current, end)
<1> DEFINE g == UpdateValidatorAge(h, current)
           known == {entry \in {h.arr[k] : k \in Positions} : entry.epoch <= end}
           K == {entry \in known : entry.credits # Unset}
           R == {entry \in EpochRange(h, h.age_epoch + 1, end) : entry.credits # Unset}
<1>1. K = {entry \in {h.arr[k] : k \in Positions} : entry.epoch <= end /\ entry.credits # Unset}
  OBVIOUS
<1>2. g = IF h.age_epoch = 0
          THEN [h EXCEPT !.age = IF current = 0 THEN 0 ELSE Cardinality(K), !.age_epoch = end]
          ELSE IF end <= h.age_epoch THEN h
          ELSE [h EXCEPT !.age = h.age + Cardinality(R), !.age_epoch = end]
  BY DEF UpdateValidatorAge
<1> HIDE DEF K, R, g
<1>3. /\ g.arr = h.arr /\ g.idx = h.idx /\ g.is_empty = h.is_empty
      /\ h.age_epoch = 0 => g.age_epoch = end /\ (current # 0 => g.age = Cardinality(K))
      /\ h.age_epoch # 0 /\ end <= h.age_epoch => g = h
      /\ h.age_epoch # 0 /\ ~(end <= h.age_epoch) => g.age_epoch = end /\ g.age = h.age + Cardinality(R)
  BY <1>2 DEF AccountType
<1>4. CASE h.age_epoch = 0
  BY <1>1, <1>3, <1>4 DEF Ages, g
<1>5. CASE h.age_epoch # 0
  BY <1>3, <1>5 DEF Ages, R, g
<1> QED BY <1>4, <1>5

\* copy_vote_account keeps the three parts of the invariant: what is counted was still in
\* the vote account, unless a gap is noted.
LEMMA CopyKeeps ==
  ASSUME NEW current \in 0 .. MaxEpoch, NEW h, AccountIn(h, current), NEW V \in SUBSET (0 .. current),
         NEW first, NEW gap,
         Dated(h, current, first), CreditsOf(h, V), Aged(h, current, V, first, gap),
         NEW credits \in SUBSET V, \A e \in V : current - e < CreditHistory => e \in credits,
         NEW s, s = SetEpochCredits(InsertMissingEntries(SetCommissionAndSlot(h, current), credits), credits),
         NEW g, g = UpdateValidatorAge(s, current),
         NEW later, later = IF first = NoEpoch /\ ~g.is_empty THEN Newest(g).epoch ELSE first,
         NEW from, from = IF h.age_epoch > 0 THEN h.age_epoch + 1 ELSE first,
         NEW lost, ~lost => ~gap /\ ~(~h.is_empty /\ current - from >= CreditHistory)
  PROVE  /\ Dated(g, current, later) /\ CreditsOf(g, V) /\ Filled(g, current, V)
         /\ Aged(g, current, V, later, lost)
<1> DEFINE end == IF current = 0 THEN 0 ELSE current - 1
<1>1. /\ current \in Nat /\ MaxEpoch \in Nat /\ NoEpoch = MaxEpoch + 1 /\ current <= MaxEpoch /\ Ever = -1
      /\ CreditHistory \in 1 .. MaxItems /\ MaxItems \in Nat /\ V \in SUBSET Int
  BY AtFacts, HistoryAssumption DEF Ever
<1>2. /\ AccountIn(s, current) /\ Survives(h, s)
      /\ ~s.is_empty /\ Newest(s).epoch = current
      /\ SameRest(s, h) /\ (h.is_empty => Begins(s, current))
      /\ \A e \in credits : HeldOrOld(s, e) /\ HasCredits(s, e)
      /\ CreditsOf(s, V)
  <2>1. credits \in SUBSET (0 .. current) /\ credits \subseteq V
    OBVIOUS
  <2> QED BY <2>1, CopiedCredits
<1>3. s \in AccountType /\ Ring(s) /\ Ring(h) /\ h.age_epoch \in Int /\ s.age = h.age /\ s.age_epoch = h.age_epoch
  BY <1>2 DEF AccountIn, AccountType, SameRest
<1>4. /\ g.arr = s.arr /\ g.idx = s.idx /\ g.is_empty = s.is_empty
      /\ h.age_epoch = 0 =>
           /\ g.age_epoch = end
           /\ current # 0 => g.age = Cardinality({entry \in {s.arr[k] : k \in Positions} :
                                                    entry.epoch <= end /\ entry.credits # Unset})
      /\ h.age_epoch # 0 /\ end <= h.age_epoch => g = s
      /\ h.age_epoch # 0 /\ ~(end <= h.age_epoch) =>
           /\ g.age_epoch = end
           /\ g.age = h.age + Cardinality({entry \in EpochRange(s, h.age_epoch + 1, end) : entry.credits # Unset})
  <2>1. end = IF current = 0 THEN 0 ELSE current - 1
    OBVIOUS
  <2> HIDE DEF end
  <2>2. Ages(g, s, current, end)
    BY <1>3, <2>1, AgeFields
  <2> QED BY <1>3, <2>2 DEF Ages
<1>5. ~g.is_empty /\ Newest(g).epoch = current
  BY <1>2, <1>4 DEF Newest
<1>6. CreditsOf(g, V)
  BY <1>2, <1>4 DEF CreditsOf
<1>7. ASSUME NEW e \in V, current - e < CreditHistory PROVE HeldOrOld(s, e) /\ HasCredits(s, e)
  BY <1>2, <1>7
<1>8. Filled(g, current, V)
  BY <1>4, <1>7 DEF Filled, HeldOrOld, HasCredits, Holds
<1>9. \A x : Begins(g, x) = Begins(s, x)
  BY <1>4 DEF Begins, Holds, AllUsed
<1>10. first # Ever => later \in 0 .. current /\ Begins(s, later)
  <2>1. CASE first = NoEpoch /\ h.is_empty
    BY <1>1, <1>2, <1>5, <2>1
  <2>2. CASE first \in 0 .. current /\ ~h.is_empty /\ Begins(h, first)
    <3>1. first \in 0 .. MaxEpoch /\ first # NoEpoch
      BY <1>1, <2>2
    <3>2. Begins(s, first)
      BY <1>2, <1>3, <2>2, <3>1, BeginsSurvives
    <3> QED BY <2>2, <3>1, <3>2
  <2> QED BY <2>1, <2>2 DEF Dated
<1>11. Dated(g, current, later)
  <2>1. CASE first = Ever
    BY <1>1, <2>1 DEF Dated
  <2>2. CASE first # Ever
    BY <1>5, <1>9, <1>10, <2>2 DEF Dated
  <2> QED BY <2>1, <2>2
<1>12. ASSUME NEW a \in Int, first # Ever, later <= a, current - a < CreditHistory
       PROVE  \A e \in Between(V, a, end) : Holds(s, e) /\ HasCredits(s, e)
  <2> SUFFICES ASSUME NEW e \in V, a <= e, e <= end PROVE Holds(s, e) /\ HasCredits(s, e)
    BY DEF Between
  <2>1. e \in Int /\ later \in 0 .. current /\ Begins(s, later) /\ CreditHistory \in Int
    BY <1>1, <1>10, <1>12
  <2>2. current - e < CreditHistory /\ current - e < MaxItems /\ later <= e /\ later \in 0 .. MaxEpoch
    BY <1>1, <1>12, <2>1
  <2>3. HeldOrOld(s, e) /\ HasCredits(s, e)
    BY <1>7, <2>2
  <2>4. UpTo(s, current)
    BY <1>2 DEF AccountIn, EntryOf, UpTo
  <2>5. Holds(s, e)
    BY <1>3, <2>1, <2>2, <2>3, <2>4, HeldSince
  <2> QED BY <2>3, <2>5
<1>13. Aged(g, current, V, later, lost)
  <2> SUFFICES ASSUME later # Ever, g.age_epoch # 0
               PROVE  /\ g.age_epoch \in 1 .. current - 1 /\ later <= g.age_epoch + 1
                      /\ ~lost => g.age = Cardinality(Between(V, later, g.age_epoch))
    BY DEF Aged
  <2>1. first # Ever /\ later \in 0 .. current /\ Begins(s, later) /\ later \in Int
    <3>1. first # Ever
      BY <1>1
    <3> QED BY <1>1, <1>10, <3>1
  <2>2. end \in Int /\ V \in SUBSET (0 .. MaxEpoch)
    BY <1>1
  <2>3. CASE h.age_epoch = 0
    <3>1. current # 0 /\ end = current - 1 /\ g.age_epoch = end
      BY <1>1, <1>4, <2>3
    <3> DEFINE S == Credited(s, later, end)
               T == Between(V, later, end)
    <3>2. g.age = Cardinality({entry \in {s.arr[k] : k \in Positions} : entry.epoch <= end /\ entry.credits # Unset})
      BY <1>4, <2>3, <3>1
    <3>3. {entry \in {s.arr[k] : k \in Positions} : entry.epoch <= end /\ entry.credits # Unset} = S
      <4>1. \A k \in Positions : s.arr[k].epoch <= end => s.arr[k].epoch \in later .. end
        <5>1. \A k \in Positions : s.arr[k].epoch \in Int
          BY <1>3, RingOrder
        <5>2. \A k \in Positions : s.arr[k].epoch <= end => s.arr[k].epoch # NoEpoch
          BY <1>1, <3>1, <5>1
        <5> HIDE DEF end
        <5> QED BY <2>1, <2>2, <5>1, <5>2 DEF Begins
      <4>2. \A k \in Positions : s.arr[k].epoch \in later .. end => s.arr[k].epoch <= end
        OBVIOUS
      <4> HIDE DEF end
      <4> QED BY <4>1, <4>2 DEF Credited
    <3>4. ASSUME ~lost PROVE Cardinality(S) = Cardinality(T)
      <4>1. \A e \in Between(V, later, end) : Holds(s, e) /\ HasCredits(s, e)
        <5>1. CASE h.is_empty
          <6>1. later = current
            BY <1>1, <1>5, <2>1, <5>1 DEF Dated
          <6> QED BY <1>1, <3>1, <6>1 DEF Between
        <5>2. CASE ~h.is_empty
          <6>1. first = later
            BY <1>1, <2>1, <5>2 DEF Dated
          <6>2. current - later < CreditHistory
            BY <1>1, <2>1, <2>3, <3>4, <5>2, <6>1
          <6>3. later <= later
            BY <2>1
          <6> HIDE DEF end
          <6> QED BY <1>12, <2>1, <6>2, <6>3
        <5> QED BY <5>1, <5>2
      <4> HIDE DEF end
      <4> QED BY <1>2, <1>3, <2>1, <2>2, <4>1, CountsVotes
    <3> HIDE DEF S
    <3>5. ~lost => g.age = Cardinality(T)
      BY <3>2, <3>3, <3>4
    <3>6. g.age_epoch \in 1 .. current - 1 /\ later <= g.age_epoch + 1
      BY <1>1, <2>1, <3>1
    <3> QED BY <3>1, <3>5, <3>6
  <2>4. CASE h.age_epoch # 0
    <3>1. ~h.is_empty /\ first = later /\ first # NoEpoch
      BY <1>1, <2>1, <2>4 DEF Dated
    <3>2. /\ h.age_epoch \in 1 .. current - 1 /\ first <= h.age_epoch + 1
          /\ ~gap => h.age = Cardinality(Between(V, first, h.age_epoch))
      BY <2>1, <2>4 DEF Aged
    <3>3. current # 0 /\ end = current - 1 /\ h.age_epoch > 0 /\ from = h.age_epoch + 1
      BY <1>1, <3>2
    <3>4. CASE end <= h.age_epoch
      <4>1. g.age_epoch = h.age_epoch /\ g.age = h.age
        BY <1>3, <1>4, <2>4, <3>4
      <4> QED BY <3>1, <3>2, <4>1
    <3>5. CASE ~(end <= h.age_epoch)
      <4> DEFINE n == h.age_epoch
                 S == Credited(s, n + 1, end)
                 T == Between(V, n + 1, end)
                 R == {entry \in EpochRange(s, n + 1, end) : entry.credits # Unset}
      <4>1. g.age_epoch = end /\ g.age = h.age + Cardinality(R)
        BY <1>4, <2>4, <3>5
      <4>2. n \in Int /\ n + 1 \in Int /\ end \in Int /\ end <= MaxEpoch /\ later <= n + 1 /\ n <= end
        BY <1>1, <1>3, <3>1, <3>2, <3>3, <3>5
      <4> HIDE DEF end, n
      <4>3. EpochRange(s, n + 1, end) = {s.arr[k] : k \in {j \in Positions : s.arr[j].epoch \in n + 1 .. end}}
        BY <1>3, <4>2, RangeIsWhatIsHeld
      <4>4. R = S
        BY <4>3 DEF Credited
      <4>5. ASSUME ~lost PROVE Cardinality(S) = Cardinality(T)
        <5>1. current - (n + 1) < CreditHistory
          <6>1. ~(current - from >= CreditHistory) /\ from = n + 1 /\ CreditHistory \in Int
            BY <1>1, <3>1, <3>3, <4>5 DEF n
          <6> QED BY <1>1, <4>2, <6>1
        <5>2. \A e \in Between(V, n + 1, end) : Holds(s, e) /\ HasCredits(s, e)
          BY <1>12, <2>1, <4>2, <5>1
        <5> QED BY <1>2, <1>3, <2>2, <4>2, <5>2, CountsVotes
      <4> HIDE DEF R, S, T
      <4>6. ~lost => g.age = Cardinality(Between(V, later, n)) + Cardinality(T)
        <5>1. ASSUME ~lost PROVE g.age = Cardinality(Between(V, later, n)) + Cardinality(T)
          <6>1. h.age = Cardinality(Between(V, later, n))
            BY <3>1, <3>2, <5>1 DEF n
          <6> QED BY <4>1, <4>4, <4>5, <5>1, <6>1
        <5> QED BY <5>1
      <4>7. Cardinality(Between(V, later, end)) = Cardinality(Between(V, later, n)) + Cardinality(T)
        <5>1. V \in SUBSET Int /\ later \in Int /\ later <= n + 1 /\ n <= end
          BY <1>1, <2>1, <4>2
        <5>3. IsFiniteSet(0 .. current)
          BY <1>1, FS_Interval
        <5>4. IsFiniteSet(V)
          BY <5>3, FS_Subset
        <5>2. Cardinality(Between(V, later, end)) =
                Cardinality(Between(V, later, n)) + Cardinality(Between(V, n + 1, end))
          BY <4>2, <5>1, <5>4, EpochsAdd
        <5> QED BY <5>2 DEF T
      <4>8. g.age_epoch \in 1 .. current - 1 /\ later <= g.age_epoch + 1
        BY <1>1, <2>1, <3>3, <4>1, <4>2
      <4> QED BY <4>1, <4>6, <4>7, <4>8
    <3> QED BY <3>4, <3>5
  <2> QED BY <2>3, <2>4
<1> QED BY <1>6, <1>8, <1>11, <1>13

\* The inductive invariant of the credits and the age, beside HistoryInv.
CreditsInv ==
  /\ Dated(account, epoch, since) /\ CreditsOf(account, voted)
  /\ Filled(account, epoch, voted) /\ Aged(account, epoch, voted, since, missed)

\* An instruction that leaves the credits and the commission alone.
LEMMA QuietWrites ==
  ASSUME HistoryInv, HistoryInv', CreditsInv, Survives(account, account'),
         NEW e \in 0 .. MaxEpoch, NEW facts, IsFacts(facts), DOMAIN facts \cap {"credits", "commission"} = {},
         NEW h, h.arr = SetEntry(account, e, facts).arr, h.idx = SetEntry(account, e, facts).idx,
         h.is_empty = SetEntry(account, e, facts).is_empty, h.age = SetEntry(account, e, facts).age,
         h.age_epoch = SetEntry(account, e, facts).age_epoch,
         Writes(h), missed' = missed
  PROVE  CreditsInv'
<1>1. /\ account' = h /\ epoch' = epoch /\ voted' = voted
      /\ since' = IF since = NoEpoch /\ ~h.is_empty THEN Newest(h).epoch ELSE since
  BY DEF Writes
<1>2. AccountIn(account, epoch) /\ AccountIn(h, epoch) /\ account \in AccountType /\ Ring(account)
  BY <1>1 DEF HistoryInv, AccountInv, AccountIn
<1>3. epoch \in 0 .. MaxEpoch /\ voted \in SUBSET (0 .. epoch)
  BY DEF HistoryInv, ClockInv
<1>4. Quiet(h, account)
  BY <1>2, SetterQuiet
<1>5. /\ Dated(account, epoch, since) /\ CreditsOf(account, voted)
      /\ Filled(account, epoch, voted) /\ Aged(account, epoch, voted, since, missed)
      /\ Survives(account, h)
  BY <1>1 DEF CreditsInv
<1> DEFINE later == IF since = NoEpoch /\ ~h.is_empty THEN Newest(h).epoch ELSE since
<1>6. later = IF since = NoEpoch /\ ~h.is_empty THEN Newest(h).epoch ELSE since
  OBVIOUS
<1> HIDE DEF later
<1>7. /\ Dated(h, epoch, later) /\ CreditsOf(h, voted) /\ Filled(h, epoch, voted)
      /\ Aged(h, epoch, voted, later, missed)
  BY <1>2, <1>3, <1>4, <1>5, <1>6, QuietKeeps
<1>8. since' = later
  BY <1>1, <1>6
<1> QED BY <1>1, <1>7, <1>8 DEF CreditsInv

\* An account that is not written, in this epoch or the next.
LEMMA AccountRests ==
  ASSUME HistoryInv, CreditsInv, account' = account, since' = since, missed' = missed, epoch' \in 0 .. MaxEpoch,
         (epoch' > epoch /\ voted' = voted) \/ (epoch' = epoch /\ voted' \in {voted, voted \cup {epoch}})
  PROVE  CreditsInv'
<1>1. AccountIn(account, epoch) /\ epoch \in 0 .. MaxEpoch /\ voted \in SUBSET (0 .. epoch)
  BY DEF HistoryInv, AccountInv, ClockInv
<1>2. /\ Dated(account, epoch, since) /\ CreditsOf(account, voted)
      /\ Filled(account, epoch, voted) /\ Aged(account, epoch, voted, since, missed)
  BY DEF CreditsInv
<1>3. /\ Dated(account, epoch', since) /\ CreditsOf(account, voted')
      /\ Filled(account, epoch', voted') /\ Aged(account, epoch', voted', since, missed)
  BY <1>1, <1>2, ClockKeeps
<1> QED BY <1>3 DEF CreditsInv

\* Every step of the program keeps the invariant.
LEMMA NextCredits ==
  ASSUME HistoryInv, HistoryInv', CreditsInv, Survives(account, account'), Next
  PROVE  CreditsInv'
<1>1. /\ epoch \in 0 .. MaxEpoch /\ epoch \in Int /\ MaxEpoch \in Int /\ voted \in SUBSET (0 .. epoch)
      /\ AccountIn(account, epoch) /\ account \in AccountType /\ Ring(account) /\ epoch' \in 0 .. MaxEpoch
  BY ClockTyped DEF HistoryInv, ClockInv, AccountInv, AccountIn
<1>2. ASSUME NEW e \in 0 .. MaxEpoch, NEW facts, IsFacts(facts), DOMAIN facts \cap {"credits", "commission"} = {},
             Writes(SetEntry(account, e, facts)), missed' = missed
      PROVE  CreditsInv'
  BY <1>2, QuietWrites
<1>3. CASE CopyVoteAccount
  <2> DEFINE s == SetEpochCredits(InsertMissingEntries(SetCommissionAndSlot(account, epoch), EpochCredits), EpochCredits)
             g == UpdateValidatorAge(s, epoch)
             later == IF since = NoEpoch /\ ~g.is_empty THEN Newest(g).epoch ELSE since
             from == IF account.age_epoch > 0 THEN account.age_epoch + 1 ELSE since
  <2>1. account' = g /\ epoch' = epoch /\ voted' = voted /\ since' = later
    BY <1>3 DEF CopyVoteAccount, Writes
  <2>2. ~missed' => ~missed /\ ~Uncounted
    BY <1>3 DEF CopyVoteAccount
  <2>3. Uncounted <=> ~account.is_empty /\ epoch - from >= CreditHistory
    BY DEF Uncounted
  <2>4. EpochCredits \in SUBSET voted
    BY DEF EpochCredits
  <2>5. ASSUME NEW e \in voted, epoch - e < CreditHistory PROVE e \in EpochCredits
    <3>1. epoch \in Nat
      BY <1>1
    <3>2. Cardinality({x \in voted : x > e}) < CreditHistory
      BY <1>1, <2>5, <3>1, VoteAccountRemembers
    <3> QED BY <3>2 DEF EpochCredits
  <2>6. Dated(account, epoch, since) /\ CreditsOf(account, voted) /\ Aged(account, epoch, voted, since, missed)
    BY DEF CreditsInv
  <2>7. /\ s = SetEpochCredits(InsertMissingEntries(SetCommissionAndSlot(account, epoch), EpochCredits), EpochCredits)
        /\ g = UpdateValidatorAge(s, epoch)
        /\ later = IF since = NoEpoch /\ ~g.is_empty THEN Newest(g).epoch ELSE since
        /\ from = IF account.age_epoch > 0 THEN account.age_epoch + 1 ELSE since
    OBVIOUS
  <2> HIDE DEF s, g, later, from
  <2>8. ~missed' => ~missed /\ ~(~account.is_empty /\ epoch - from >= CreditHistory)
    BY <2>2, <2>3
  <2>9. /\ Dated(g, epoch, later) /\ CreditsOf(g, voted) /\ Filled(g, epoch, voted)
        /\ Aged(g, epoch, voted, later, missed')
    BY <1>1, <2>4, <2>5, <2>6, <2>7, <2>8, CopyKeeps
  <2> QED BY <2>1, <2>9 DEF CreditsInv
<1>4. ASSUME NEW e \in 0 .. MaxEpoch, CopyTipDistributionAccount(e) PROVE CreditsInv'
  <2>1. Writes(SetEntry(account, e, [mev |-> e])) /\ missed' = missed
    BY <1>4 DEF CopyTipDistributionAccount, SetMevCommission
  <2>2. IsFacts([mev |-> e]) /\ DOMAIN [mev |-> e] \cap {"credits", "commission"} = {}
    BY DEF IsFacts, EntryFields, Number
  <2> QED BY <1>2, <2>1, <2>2
<1>5. ASSUME NEW e \in 0 .. MaxEpoch, CopyPriorityFeeDistribution(e) PROVE CreditsInv'
  <2> DEFINE tips == IF e <= reclaimed THEN "none" ELSE "paid"
  <2>1. Writes(SetEntry(account, e, [tips |-> tips])) /\ missed' = missed
    BY <1>5 DEF CopyPriorityFeeDistribution, SetTips
  <2>2. IsFacts([tips |-> tips]) /\ DOMAIN [tips |-> tips] \cap {"credits", "commission"} = {}
    BY DEF IsFacts, EntryFields, Tips
  <2> HIDE DEF tips
  <2> QED BY <1>2, <2>1, <2>2
<1>6. ASSUME NEW e \in 0 .. MaxEpoch, UpdateStakeHistory(e) PROVE CreditsInv'
  <2>1. Writes(SetEntry(account, e, [stake |-> e])) /\ missed' = missed
    BY <1>6 DEF UpdateStakeHistory, SetStake
  <2>2. IsFacts([stake |-> e]) /\ DOMAIN [stake |-> e] \cap {"credits", "commission"} = {}
    BY DEF IsFacts, EntryFields, Number
  <2> QED BY <1>2, <2>1, <2>2
<1>7. ASSUME NEW e \in 0 .. MaxEpoch, UpdatePriorityFeeHistory(e) PROVE CreditsInv'
  <2>1. Writes(SetEntry(account, e, [blocks |-> e])) /\ missed' = missed
    BY <1>7 DEF UpdatePriorityFeeHistory, SetBlocks
  <2>2. IsFacts([blocks |-> e]) /\ DOMAIN [blocks |-> e] \cap {"credits", "commission"} = {}
    BY DEF IsFacts, EntryFields, Number
  <2> QED BY <1>2, <2>1, <2>2
<1>8. ASSUME NEW e \in 0 .. MaxEpoch, CopyIsBamConnected(e) PROVE CreditsInv'
  <2>1. Writes(SetEntry(account, e, [bam |-> e])) /\ missed' = missed
    BY <1>8 DEF CopyIsBamConnected, SetIsBamConnected
  <2>2. IsFacts([bam |-> e]) /\ DOMAIN [bam |-> e] \cap {"credits", "commission"} = {}
    BY DEF IsFacts, EntryFields, Number
  <2> QED BY <1>2, <2>1, <2>2
<1>9. CASE UploadValidatorAge
  <2>1. /\ account'.arr = account.arr /\ account'.idx = account.idx /\ account'.is_empty = account.is_empty
        /\ epoch' = epoch /\ voted' = voted /\ since' = Ever
    <3>1. \E n : account' = [account EXCEPT !.age = n, !.age_epoch = epoch]
      BY <1>9 DEF UploadValidatorAge
    <3>2. account'.arr = account.arr /\ account'.idx = account.idx /\ account'.is_empty = account.is_empty
      BY <1>1, <3>1 DEF AccountType
    <3>3. epoch' = epoch /\ voted' = voted /\ since' = Ever
      BY <1>9 DEF UploadValidatorAge
    <3> QED BY <3>2, <3>3
  <2>2. CreditsOf(account, voted) /\ Filled(account, epoch, voted)
    BY DEF CreditsInv
  <2>3. CreditsOf(account', voted)
    BY <2>1, <2>2 DEF CreditsOf
  <2>4. Filled(account', epoch, voted)
    BY <2>1, <2>2 DEF Filled, HeldOrOld, HasCredits, Holds, Newest
  <2>5. Dated(account', epoch, Ever) /\ Aged(account', epoch, voted, Ever, missed')
    BY DEF Dated, Aged
  <2> QED BY <2>1, <2>3, <2>4, <2>5 DEF CreditsInv
<1>10. ASSUME NEW ts \in 1 .. MaxTime + 1, NEW facts, DOMAIN facts \subseteq {"ip", "version"},
              \A f \in DOMAIN facts : facts[f] = ts, NEW h, Writes(h), missed' = missed,
              LET s == SetEntry(account, epoch, facts)
              IN  \/ h = [s EXCEPT !.last_ip_timestamp = ts, !.last_version_timestamp = ts]
                  \/ h = [s EXCEPT !.last_ip_timestamp = ts]
                  \/ h = [s EXCEPT !.last_version_timestamp = ts]
       PROVE  CreditsInv'
  <2> DEFINE s == SetEntry(account, epoch, facts)
  <2>1. IsFacts(facts) /\ DOMAIN facts \cap {"credits", "commission"} = {}
    <3>1. ts \in Int
      BY HistoryAssumption
    <3> QED BY <1>10, <3>1 DEF IsFacts, EntryFields, Number
  <2>2. s \in AccountType
    BY <1>1, <2>1, SetEntryKeeps
  <2>3. h.arr = s.arr /\ h.idx = s.idx /\ h.is_empty = s.is_empty /\ h.age = s.age /\ h.age_epoch = s.age_epoch
    <3>1. \/ h = [s EXCEPT !.last_ip_timestamp = ts, !.last_version_timestamp = ts]
          \/ h = [s EXCEPT !.last_ip_timestamp = ts]
          \/ h = [s EXCEPT !.last_version_timestamp = ts]
      BY <1>10
    <3> HIDE DEF s
    <3> QED BY <2>2, <3>1 DEF AccountType
  <2> QED BY <1>1, <1>10, <2>1, <2>3, QuietWrites
<1>11. ASSUME NEW ts \in 1 .. MaxTime + 1, CopyContactInfo(ts) PROVE CreditsInv'
  <2> DEFINE facts == [ip |-> ts, version |-> ts]
             h == [SetEntry(account, epoch, facts) EXCEPT !.last_ip_timestamp = ts, !.last_version_timestamp = ts]
  <2>1. Writes(h) /\ missed' = missed
    BY <1>11 DEF CopyContactInfo
  <2>2. DOMAIN facts \subseteq {"ip", "version"} /\ \A f \in DOMAIN facts : facts[f] = ts
    OBVIOUS
  <2> HIDE DEF facts
  <2> QED BY <1>10, <2>1, <2>2
<1>12. ASSUME NEW ts \in 1 .. MaxTime + 1, CopyLegacyContactInfo(ts) PROVE CreditsInv'
  <2> DEFINE facts == [ip |-> ts]
             h == [SetEntry(account, epoch, facts) EXCEPT !.last_ip_timestamp = ts]
  <2>1. Writes(h) /\ missed' = missed
    BY <1>12 DEF CopyLegacyContactInfo
  <2>2. DOMAIN facts \subseteq {"ip", "version"} /\ \A f \in DOMAIN facts : facts[f] = ts
    OBVIOUS
  <2> HIDE DEF facts
  <2> QED BY <1>10, <2>1, <2>2
<1>13. ASSUME NEW ts \in 1 .. MaxTime + 1, CopyVersion(ts) PROVE CreditsInv'
  <2> DEFINE facts == [version |-> ts]
             h == [SetEntry(account, epoch, facts) EXCEPT !.last_version_timestamp = ts]
  <2>1. Writes(h) /\ missed' = missed
    BY <1>13 DEF CopyVersion
  <2>2. DOMAIN facts \subseteq {"ip", "version"} /\ \A f \in DOMAIN facts : facts[f] = ts
    OBVIOUS
  <2> HIDE DEF facts
  <2> QED BY <1>10, <2>1, <2>2
<1>14. CASE NextEpoch
  <2>1. account' = account /\ since' = since /\ missed' = missed /\ voted' = voted /\ epoch' = epoch + 1
    BY <1>14 DEF NextEpoch
  <2>2. epoch' > epoch
    BY <1>1, <2>1
  <2> QED BY <1>1, <2>1, <2>2, AccountRests
<1>15. CASE Vote \/ Tick \/ ReclaimRent
  <2>1. /\ account' = account /\ since' = since /\ missed' = missed /\ epoch' = epoch
        /\ voted' \in {voted, voted \cup {epoch}}
    BY <1>15 DEF Vote, Tick, ReclaimRent
  <2> QED BY <1>1, <2>1, AccountRests
<1> QED BY <1>3, <1>4, <1>5, <1>6, <1>7, <1>8, <1>9, <1>11, <1>12, <1>13, <1>14, <1>15 DEF Next

\* The invariant holds at first.
LEMMA InitCredits == ScoredInit => CreditsInv
<1> SUFFICES ASSUME ScoredInit PROVE CreditsInv
  OBVIOUS
<1>1. /\ account.is_empty /\ account.age_epoch = 0 /\ since = NoEpoch
      /\ \A k \in Positions : account.arr[k].credits = Unset
  BY DEF ScoredInit, Init, DefaultEntry
<1>2. Dated(account, epoch, since)
  BY <1>1 DEF Dated
<1>3. CreditsOf(account, voted)
  BY <1>1 DEF CreditsOf
<1>4. Filled(account, epoch, voted)
  BY <1>1 DEF Filled
<1>5. Aged(account, epoch, voted, since, missed)
  BY <1>1 DEF Aged
<1> QED BY <1>2, <1>3, <1>4, <1>5 DEF CreditsInv

\* Every step keeps the invariant: those of the cluster's account and of the parameters
\* leave the account alone, and where slots end on their own it is empty.
LEMMA StepCredits ==
  ASSUME HistoryInv, HistoryInv', CreditsInv, [ScoredNext]_allVars
  PROVE  CreditsInv'
<1>1. CASE Next
  BY <1>1, StepSurvives, NextCredits
<1>2. CASE account' = account /\ since' = since /\ missed' = missed /\ voted' = voted /\ epoch' = epoch
  <2>1. epoch' \in 0 .. MaxEpoch
    BY <1>2 DEF HistoryInv, ClockInv
  <2> QED BY <1>2, <2>1, AccountRests
<1>3. CASE "cluster" \in setup.uploads /\ ~Scored /\ \E block \in BOOLEAN : Slot(block)
  <2>1. account' = account /\ since' = since /\ missed' = missed /\ voted' = voted
    BY <1>3 DEF Slot
  <2>2. account.is_empty
    BY <1>3 DEF HistoryInv, ClockInv
  <2>3. since = Ever \/ (since = NoEpoch /\ account.age_epoch = 0)
    <3>1. Dated(account, epoch, since)
      BY DEF CreditsInv
    <3>2. ~(since \in 0 .. epoch /\ ~account.is_empty /\ Begins(account, since))
      BY <2>2
    <3> QED BY <3>1, <3>2, Zenon DEF Dated
  <2>4. Dated(account, epoch', since)
    BY <2>2, <2>3 DEF Dated
  <2>5. CreditsOf(account, voted)
    BY DEF CreditsInv
  <2>6. Filled(account, epoch', voted)
    BY <2>2 DEF Filled
  <2>7. Aged(account, epoch', voted, since, missed)
    BY <2>3 DEF Aged
  <2> QED BY <2>1, <2>4, <2>5, <2>6, <2>7 DEF CreditsInv
<1>4. CASE vars' = vars
  BY <1>2, <1>4 DEF vars
<1>5. CASE CopyClusterInfo \/ \E e \in 0 .. MaxEpoch : BackfillTotalBlocks(e)
  <2>1. vars' = vars
    BY <1>5 DEF CopyClusterInfo, BackfillTotalBlocks
  <2> QED BY <1>4, <2>1
<1>6. CASE ~Scored /\ "cluster" \in setup.uploads /\ ClusterNext
  BY <1>3, <1>5, <1>6 DEF ClusterNext
<1>7. ASSUME ~Next PROVE \/ ~Scored /\ "cluster" \in setup.uploads /\ ClusterNext
                         \/ CopyClusterInfo
                         \/ vars' = vars
  BY <1>7 DEF ScoredNext, ProgramNext, allVars
<1> QED BY <1>1, <1>4, <1>5, <1>6, <1>7

\* The credits and the age are what the votes were.
THEOREM CreditsKept == ScoredSpec => []CreditsInv
<1>1. ScoredInit => CreditsInv
  BY InitCredits
<1>2. HistoryInv /\ HistoryInv' /\ CreditsInv /\ [ScoredNext]_<<vars, clusterVars, scoreVars>> => CreditsInv'
  BY StepCredits DEF allVars
<1> QED BY <1>1, <1>2, HistoryKept, PTL DEF ScoredSpec

\* "Only counts completed epochs": validator_age is the number of epochs with credits since
\* the first entry, for every size of the buffer, however late and in whatever order the
\* vote account and everything else is copied, unless more epochs went by than a vote
\* account remembers or a backfill replaced the age.
THEOREM SpecAgeCountsCredits == ScoredSpec => []AgeCountsCredits
<1>1. CreditsInv => AgeCountsCredits
  <2> SUFFICES ASSUME CreditsInv, since # Ever, ~missed, 0 < account.age_epoch
               PROVE  account.age = Cardinality({e \in voted : since <= e /\ e <= account.age_epoch})
    BY DEF AgeCountsCredits, BackfillCountsCredits
  <2>1. account.age_epoch # 0
    OBVIOUS
  <2>2. account.age = Cardinality(Between(voted, since, account.age_epoch))
    BY <2>1 DEF CreditsInv, Aged
  <2> QED BY <2>2 DEF Between
<1> QED BY <1>1, CreditsKept, PTL

\* A validator that voted in every epoch of the window is not delinquent, however late its
\* vote account was copied and whatever else was written in between, for every size of the
\* buffer and of the window, if its history reaches back to the window and a vote account
\* remembers as much.
THEOREM SpecActiveNotDelinquent == ScoredSpec => []ActiveNotDelinquent
<1>1. HistoryInv /\ CreditsInv => ActiveNotDelinquent
  <2> DEFINE first == CreditsStart(parameters)
             last == epoch - 1
  <2> SUFFICES ASSUME HistoryInv, CreditsInv, Scorable, first .. last \subseteq voted,
                      since \in 0 .. first, parameters.credits_range < CreditHistory
               PROVE  ~Delinquent(parameters)
    BY DEF ActiveNotDelinquent
  <2>1. /\ epoch \in 0 .. MaxEpoch /\ epoch \in Nat /\ MaxEpoch \in Nat /\ FirstReliable \in Nat \ {0}
        /\ Ring(account) /\ AccountIn(account, epoch)
        /\ CreditHistory \in Nat /\ CreditHistory <= MaxItems /\ MaxItems \in Nat /\ NoEpoch = MaxEpoch + 1
    BY ClockTyped, AtFacts, ScoreAssumption, HistoryAssumption DEF HistoryInv, AccountInv, AccountIn
  <2>2. /\ parameters.credits_range \in 0 .. epoch - FirstReliable /\ Ring(cluster)
        /\ ~account.is_empty /\ Newest(account).commission = epoch
    BY DEF HistoryInv, ParametersInv, ClusterInv, Scorable, VoteRecent
  <2>3. first \in Int /\ last \in Int /\ last <= MaxEpoch /\ first = epoch - parameters.credits_range /\ first <= epoch
    BY <2>1, <2>2 DEF CreditsStart
  <2>4. since \in 0 .. epoch /\ since # Ever /\ since # NoEpoch /\ since \in 0 .. MaxEpoch
    BY <2>1, <2>3 DEF Ever
  <2>5. Begins(account, since)
    BY <2>4 DEF CreditsInv, Dated
  <2>6. ASSUME NEW e \in first .. last PROVE e \in Window("credits", first, last)
    <3>1. e \in voted /\ e \in Int /\ e < epoch /\ epoch - e < CreditHistory /\ epoch - e < MaxItems /\ since <= e
      BY <2>1, <2>2, <2>3, <2>4
    <3>2. HeldOrOld(account, e) /\ HasCredits(account, e)
      BY <2>2, <3>1 DEF CreditsInv, Filled
    <3>3. UpTo(account, epoch)
      BY <2>1 DEF AccountIn, EntryOf, UpTo
    <3>4. Holds(account, e)
      BY <2>1, <2>4, <2>5, <3>1, <3>2, <3>3, HeldSince
    <3>5. PICK k \in Positions : account.arr[k].epoch = e
      BY <3>4 DEF Holds
    <3>6. account.arr[k]["credits"] # Unset
      BY <3>2, <3>5 DEF HasCredits
    <3> HIDE DEF first, last
    <3>7. Window("credits", first, last) =
            {account.arr[j].epoch : j \in {i \in Positions : /\ account.arr[i].epoch \in first .. last
                                                             /\ account.arr[i]["credits"] # Unset}}
      BY <2>3, WindowIs
    <3> QED BY <2>6, <3>5, <3>6, <3>7
  <2>7. TotalBlocksRange(first, last) \subseteq first .. last
    <3> HIDE DEF first, last
    <3>1. EpochRange(cluster, first, last) =
            {cluster.arr[j] : j \in {i \in Positions : cluster.arr[i].epoch \in first .. last}}
      BY <2>2, <2>3, RangeIsWhatIsHeld
    <3> QED BY <3>1 DEF TotalBlocksRange
  <2> QED BY <2>6, <2>7 DEF Delinquent
<1> QED BY <1>1, HistoryKept, CreditsKept, PTL

-----------------------------------------------------------------------------
(* confirmed_blocks_in_epoch *)

\* The elements of Q with the key i.
WithKey(Q, key, i) == {x \in Q : key[x] = i}

\* The words together hold what they hold one by one.
LEMMA WordsTogether ==
  ASSUME NEW S, IsFiniteSet(S), NEW Q, IsFiniteSet(Q), NEW key, \A x \in Q : key[x] \in S,
         \A i \in S : CountOnes(i) = Cardinality(WithKey(Q, key, i))
  PROVE  OnesOf(S) = Cardinality(Q)
<1> DEFINE of(s) == {x \in Q : key[x] \in s}
<1>1. \A s : IsFiniteSet(of(s)) /\ Cardinality(of(s)) \in Nat
  <2> SUFFICES ASSUME NEW s PROVE IsFiniteSet(of(s)) /\ Cardinality(of(s)) \in Nat
    OBVIOUS
  <2> DEFINE X == of(s)
  <2>1. X \in SUBSET Q
    OBVIOUS
  <2> HIDE DEF X
  <2>2. IsFiniteSet(X)
    BY <2>1, FS_Subset
  <2>3. Cardinality(X) \in Nat
    BY <2>2, FS_CardinalityType
  <2> QED BY <2>2, <2>3 DEF X
<1>2. \A i \in S : CountOnes(i) = Cardinality(of({i}))
  <2>1. \A i : WithKey(Q, key, i) = of({i})
    BY DEF WithKey
  <2> QED BY <2>1
<1>3. \A i \in S : CountOnes(i) \in Int
  <2> SUFFICES ASSUME NEW i \in S PROVE CountOnes(i) \in Int
    OBVIOUS
  <2>1. Cardinality(of({i})) \in Nat /\ CountOnes(i) = Cardinality(of({i}))
    BY <1>1, <1>2
  <2> QED BY <2>1
<1>4. PICK f : /\ OnesOf(S) = f[S] /\ f[{}] = 0
               /\ \A s \in SUBSET S : s # {} =>
                    f[s] = CountOnes(AnyOf(s)) + f[s \ {AnyOf(s)}]
  BY <1>3, WordSums
<1> DEFINE pick == [s \in SUBSET S |-> AnyOf(s)]
           B == {s \in SUBSET S : f[s] = Cardinality(of(s))}
<1>5. \A s \in SUBSET S : s # {} => pick[s] \in s /\ pick[s] = AnyOf(s)
  BY DEF AnyOf
<1>6. {} \in B
  <2>1. of({}) = {}
    OBVIOUS
  <2>2. Cardinality(of({})) = 0
    BY <2>1, FS_EmptySet
  <2> QED BY <1>4, <2>2
<1>7. ASSUME NEW s \in SUBSET S, s # {}, s \ {pick[s]} \in B PROVE s \in B
  <2> DEFINE a == AnyOf(s)
             r == s \ {a}
             X == of({a})
             Y == of(r)
  <2>1. a \in s /\ pick[s] = a /\ a \in S
    BY <1>5, <1>7
  <2>2. f[s] = CountOnes(a) + f[r]
    BY <1>4, <1>7
  <2>3. f[r] = Cardinality(Y)
    BY <1>7, <2>1
  <2> HIDE DEF a
  <2>4. of(s) = X \cup Y /\ X \cap Y = {}
    BY <2>1
  <2>5. IsFiniteSet(X) /\ IsFiniteSet(Y) /\ Cardinality(X) \in Nat /\ Cardinality(Y) \in Nat
    BY <1>1
  <2>6. CountOnes(a) = Cardinality(X)
    BY <1>2, <2>1
  <2> HIDE DEF X, Y, of
  <2>7. Cardinality(X \cup Y) = Cardinality(X) + Cardinality(Y) - Cardinality(X \cap Y)
    BY <2>5, FS_Union
  <2>8. Cardinality(X \cap Y) = 0
    BY <2>4, FS_EmptySet
  <2>9. Cardinality(X \cup Y) = Cardinality(X) + Cardinality(Y)
    BY <2>5, <2>7, <2>8
  <2>10. Cardinality(of(s)) = f[s]
    BY <2>2, <2>3, <2>4, <2>6, <2>9
  <2> QED BY <2>10
<1>8. \A s \in SUBSET S : s \in B
  <2>1. B \in SUBSET SUBSET S
    OBVIOUS
  <2> HIDE DEF B, pick, of
  <2>2. \A s \in SUBSET S : s # {} => pick[s] \in s
    BY <1>5
  <2>3. \A s \in SUBSET S : s # {} /\ s \ {pick[s]} \in B => s \in B
    BY <1>7
  <2> QED BY <1>6, <2>1, <2>2, <2>3, SubsetInduction
<1>9. f[S] = Cardinality(of(S))
  BY <1>8
<1>10. of(S) = Q
  OBVIOUS
<1> QED BY <1>4, <1>9, <1>10

\* The whole words of a range of slots are within it, and there are none unless they
\* begin and end where words do.
LEMMA WholeWords ==
  ASSUME NEW from \in Nat, NEW to \in Nat, from <= to
  PROVE  LET a == FirstFullBlock(from, to)
             b == LastFullBlock(from, to)
         IN  /\ a \in Nat /\ b \in Nat /\ from <= a /\ a <= b /\ b <= to
             /\ a = b \/ (a % BlockSize = 0 /\ b % BlockSize = 0)
<1> DEFINE d == BlockSize
           a == FirstFullBlock(from, to)
           b == LastFullBlock(from, to)
           low == to - (to % d)
           up == from + d - (from % d)
           down == from - (from % d)
<1>1. d \in Nat \ {0}
  BY ClusterAssumption
<1>2. b = IF low >= a THEN low ELSE a
  <2> SUFFICES ASSUME low \in Int, a \in Int PROVE b = IF low >= a THEN low ELSE a
    <3>1. low \in Int
      BY <1>1, RoundedDown
    <3>2. from % d \in Int
      BY <1>1
    <3>3. up \in Int
      BY <1>1, <3>2
    <3>4. Min({up, to}) \in Int
      <4> HIDE DEF up
      <4> QED BY <3>3, OfTwo
    <3>5. a \in Int
      BY <3>4 DEF FirstFullBlock
    <3> QED BY <3>1, <3>5
  <2>1. b = Max({low, a})
    BY DEF LastFullBlock
  <2> HIDE DEF low, a, b
  <2> QED BY <2>1, OfTwo
<1>3. low \in Int /\ low % d = 0 /\ low <= to /\ to < low + d
  <2>1. to \in Int
    OBVIOUS
  <2> HIDE DEF d
  <2> QED BY <1>1, <2>1, RoundedDown
<1>4. down \in Int /\ down % d = 0 /\ down <= from /\ from < down + d
  <2>1. from \in Int
    OBVIOUS
  <2> HIDE DEF d
  <2> QED BY <1>1, <2>1, RoundedDown
<1>5. up = down + d /\ up \in Int
  <2>1. from % d \in Int
    BY <1>1
  <2> QED BY <1>1, <2>1
<1>6. up % d = 0
  <2>1. up - down = d
    BY <1>1, <1>4, <1>5
  <2>2. d % d = 0
    <3>1. d \in Int /\ 1 \in Int /\ 0 \in 0 .. d - 1 /\ d = d * 1 + 0
      BY <1>1
    <3> QED BY <1>1, <3>1, DividedOnce
  <2>3. (up - down) % d = 0
    BY <2>1, <2>2
  <2> HIDE DEF up, down, d
  <2> QED BY <1>1, <1>4, <1>5, <2>3, Aligned
<1>7. a = IF from % d = 0 THEN from ELSE IF up <= to THEN up ELSE to
  <2>1. Min({up, to}) = IF up <= to THEN up ELSE to
    <3> HIDE DEF up
    <3> QED BY <1>5, OfTwo
  <2> QED BY <2>1 DEF FirstFullBlock
<1> HIDE DEF a, b, low, up, down, d
<1>8. ASSUME NEW x \in Int, x % d = 0, x <= to PROVE low >= x
  <2>1. x > low => x >= low + d
    BY <1>1, <1>3, <1>8, Aligned
  <2> QED BY <1>1, <1>3, <1>8, <2>1
<1>9. CASE from % d = 0
  <2>1. a = from
    BY <1>7, <1>9
  <2>2. low >= from
    BY <1>8, <1>9
  <2>3. b = low
    BY <1>2, <2>1, <2>2
  <2>4. a \in Nat /\ b \in Nat /\ from <= a /\ a <= b /\ b <= to
    BY <1>3, <2>1, <2>2, <2>3
  <2>5. a % d = 0 /\ b % d = 0
    BY <1>3, <1>9, <2>1, <2>3
  <2> QED BY <2>4, <2>5 DEF a, b, d
<1>10. CASE from % d # 0 /\ up <= to
  <2>1. a = up
    BY <1>7, <1>10
  <2>2. low >= up
    BY <1>5, <1>6, <1>8, <1>10
  <2>3. b = low
    BY <1>2, <2>1, <2>2
  <2>4. a \in Nat /\ b \in Nat /\ from <= a /\ a <= b /\ b <= to
    BY <1>1, <1>3, <1>4, <1>5, <2>1, <2>2, <2>3
  <2>5. a % d = 0 /\ b % d = 0
    BY <1>3, <1>6, <2>1, <2>3
  <2> QED BY <2>4, <2>5 DEF a, b, d
<1>11. CASE from % d # 0 /\ ~(up <= to)
  <2>1. a = to
    BY <1>7, <1>11
  <2>2. b = to
    BY <1>2, <1>3, <2>1
  <2>3. a \in Nat /\ b \in Nat /\ from <= a /\ a <= b /\ b <= to /\ a = b
    BY <2>1, <2>2
  <2> QED BY <2>3 DEF a, b, d
<1> QED BY <1>9, <1>10, <1>11

\* SlotHistory has every block of the last MAX_ENTRIES slots before its next slot.
LEMMA NextSlotAfter ==
  ASSUME NEW n \in Nat, produced \in SUBSET (0 .. n - 1)
  PROVE  /\ NextSlot \in 0 .. n /\ IsFiniteSet(produced)
         /\ \A s \in produced : s \in Nat /\ s < NextSlot
<1>1. IsFiniteSet(produced)
  <2>1. IsFiniteSet(0 .. n - 1)
    BY FS_Interval
  <2> QED BY <2>1, FS_Subset
<1>2. CASE produced = {}
  BY <1>1, <1>2 DEF NextSlot
<1>3. CASE produced # {}
  <2> DEFINE N == n - 1
             m == Max(produced)
  <2>1. N \in Nat
    <3>1. PICK s \in produced : s \in 0 .. n - 1
      BY <1>3
    <3> QED BY <3>1
  <2>2. m \in produced /\ \A y \in produced : m >= y
    <3>1. produced \in SUBSET (0 .. N)
      OBVIOUS
    <3> HIDE DEF N
    <3> QED BY <1>3, <2>1, <3>1, MaxBelow
  <2>3. NextSlot = m + 1
    BY <1>3 DEF NextSlot
  <2> HIDE DEF m
  <2> QED BY <1>1, <2>2, <2>3
<1> QED BY <1>2, <1>3

\* The slots of a word that lies between two ends of words, and the word they are of.
LEMMA OneWord ==
  ASSUME NEW n \in Nat, produced \in SUBSET (0 .. n - 1), NEW a \in Nat, NEW b \in Nat,
         a % BlockSize = 0, b % BlockSize = 0, a >= NextSlot - MaxEntries, b <= NextSlot,
         NEW i \in a .. b - 1, (i - a) % BlockSize = 0
  PROVE  CountOnes(i) = Cardinality({s \in {x \in produced : a <= x /\ x < b} :
                                       s - (s % BlockSize) = i})
<1> DEFINE d == BlockSize
           M == MaxEntries
           N == NextSlot
           word(s) == (s % M) \div d = (i % M) \div d
           W == {s \in Remembered : word(s)}
           V == {s \in {x \in produced : a <= x /\ x < b} : s - (s % d) = i}
<1>1. d \in Nat \ {0} /\ M \in Nat \ {0} /\ M % d = 0
  BY ClusterAssumption
<1>2. N \in Nat /\ \A s \in produced : s \in Nat /\ s < N
  <2>1. N \in 0 .. n /\ \A s \in produced : s \in Nat /\ s < N
    BY NextSlotAfter
  <2> HIDE DEF N
  <2> QED BY <2>1
<1>4. i \in Int /\ i % d = 0 /\ i + d <= b
  <2>1. i \in Int /\ i % d = 0
    <3>1. i \in Int /\ a \in Int
      OBVIOUS
    <3> HIDE DEF d
    <3>2. (i - a) % d = 0 /\ a % d = 0
      BY DEF d
    <3> QED BY <1>1, <3>1, <3>2, Aligned
  <2>2. b > i => b >= i + d
    <3>1. b \in Int /\ b % d = 0
      OBVIOUS
    <3> HIDE DEF d
    <3> QED BY <1>1, <2>1, <3>1, Aligned
  <2> QED BY <1>1, <2>1, <2>2
<1>5. Remembered = {s \in produced : s >= N - M}
  BY DEF Remembered
<1>6. a >= N - M /\ b <= N
  OBVIOUS
<1> HIDE DEF d, M, N
<1>7. ASSUME NEW s \in Int, N - M <= s, s < N PROVE word(s) <=> s \in i .. i + d - 1
  <2>1. N - M <= i /\ i + d <= N
    BY <1>1, <1>2, <1>4, <1>6
  <2>2. s - i < M /\ i - s <= M - d
    BY <1>1, <1>2, <1>4, <1>7, <2>1
  <2> QED BY <1>1, <1>4, <2>2, SameWord
<1>8. ASSUME NEW s \in W PROVE s \in V
  <2>1. s \in produced /\ s >= N - M /\ word(s) /\ s \in Int /\ s < N
    BY <1>2, <1>5
  <2>2. s \in i .. i + d - 1
    BY <1>7, <2>1
  <2>3. i <= s /\ s < i + d
    BY <1>1, <1>4, <2>2
  <2>4. s - (s % d) = i
    BY <1>1, <1>4, <2>1, <2>3, RoundedOnce
  <2>5. a <= s /\ s < b
    BY <1>1, <1>4, <2>1, <2>3
  <2> QED BY <2>1, <2>4, <2>5
<1>9. ASSUME NEW s \in V PROVE s \in W
  <2>1. s \in produced /\ s \in Int /\ s < N /\ a <= s /\ s - (s % d) = i
    BY <1>2
  <2>2. s - (s % d) <= s /\ s < s - (s % d) + d
    BY <1>1, <2>1, RoundedDown
  <2>3. i <= s /\ s < i + d
    BY <2>1, <2>2
  <2>4. s \in i .. i + d - 1
    BY <1>1, <1>4, <2>1, <2>3
  <2>5. s >= N - M
    BY <1>1, <1>2, <1>6, <2>1
  <2>6. word(s)
    BY <1>7, <2>1, <2>4, <2>5
  <2> QED BY <1>5, <2>1, <2>5, <2>6
<1>10. W = V
  BY <1>8, <1>9
<1>11. CountOnes(i) = Cardinality(W)
  BY DEF CountOnes, d, M
<1>12. V = {s \in {x \in produced : a <= x /\ x < b} : s - (s % BlockSize) = i}
  BY DEF d
<1> QED BY <1>10, <1>11, <1>12

\* confirmed_blocks_in_epoch counts the blocks of a range of slots, whatever words of the
\* bit vector the range begins and ends in, if SlotHistory has all of its whole words.
LEMMA BlocksOfRange ==
  ASSUME NEW n \in Nat, produced \in SUBSET (0 .. n - 1), NEW from \in Nat, NEW to \in Nat,
         from <= to, from >= NextSlot - MaxEntries, LastFullBlock(from, to) <= NextSlot
  PROVE  ConfirmedBlocksInEpoch(from, to) = Cardinality({s \in produced : from <= s /\ s <= to})
<1> DEFINE d == BlockSize
           a == FirstFullBlock(from, to)
           b == LastFullBlock(from, to)
           S == FullBlocks(from, to)
           P == {s \in Partial(from, to) : Found(s)}
           Q == {x \in produced : a <= x /\ x < b}
           R == {s \in produced : from <= s /\ s <= to}
           key == [s \in Q |-> s - (s % d)]
<1>1. d \in Nat \ {0}
  BY ClusterAssumption
<1>2. /\ NextSlot \in Nat /\ IsFiniteSet(produced) /\ MaxEntries \in Nat
      /\ \A s \in produced : s \in Nat /\ s < NextSlot
  BY NextSlotAfter, ClusterAssumption
<1>3. /\ a \in Nat /\ b \in Nat /\ from <= a /\ a <= b /\ b <= to
      /\ a = b \/ (a % d = 0 /\ b % d = 0)
  BY WholeWords
<1>4. /\ S = {i \in a .. b - 1 : (i - a) % d = 0}
      /\ P = {s \in (from .. a - 1) \cup (b .. to) : s \in produced /\ s >= NextSlot - MaxEntries}
      /\ b <= NextSlot
  BY DEF FullBlocks, Partial, Found, Remembered
<1> HIDE DEF a, b, d
<1>5. P \cup Q = R /\ P \cap Q = {}
  <2>1. \A s \in produced : s \in Nat
    BY <1>2
  <2>2. \A s \in R : s \in P \/ s \in Q
    BY <1>2, <1>3, <1>4, <2>1
  <2>3. P \subseteq R
    BY <1>3, <1>4, <2>1
  <2>4. Q \subseteq R
    <3> SUFFICES ASSUME NEW s \in Q PROVE s \in R
      OBVIOUS
    <3>1. s \in produced /\ s \in Nat /\ a <= s /\ s < b
      BY <2>1
    <3>2. from <= s /\ s <= to
      BY <1>3, <3>1
    <3> QED BY <3>1, <3>2
  <2>5. \A s \in P : s \notin Q
    BY <1>3, <1>4, <2>1
  <2> HIDE DEF P, Q, R
  <2> QED BY <2>2, <2>3, <2>4, <2>5
<1>6. IsFiniteSet(P) /\ IsFiniteSet(Q) /\ IsFiniteSet(S)
  <2>1. P \in SUBSET produced /\ Q \in SUBSET produced
    BY <1>4
  <2>2. S \in SUBSET (a .. b - 1)
    BY <1>4
  <2>3. IsFiniteSet(a .. b - 1)
    BY <1>3, FS_Interval
  <2> HIDE DEF P, Q, S
  <2>4. IsFiniteSet(P)
    BY <1>2, <2>1, FS_Subset
  <2>5. IsFiniteSet(Q)
    BY <1>2, <2>1, FS_Subset
  <2>6. IsFiniteSet(S)
    BY <2>2, <2>3, FS_Subset
  <2> QED BY <2>4, <2>5, <2>6
<1>7. ASSUME NEW x \in Q PROVE key[x] \in S
  <2> DEFINE y == x - (x % d)
  <2>1. x \in Int /\ a <= x /\ x < b /\ key[x] = y
    BY <1>2
  <2>2. y \in Int /\ y % d = 0 /\ y <= x /\ x < y + d
    BY <1>1, <2>1, RoundedDown
  <2> HIDE DEF y
  <2>3. a % d = 0
    BY <1>3, <2>1
  <2>4. a > y => a >= y + d
    BY <1>1, <1>3, <2>2, <2>3, Aligned
  <2>5. y \in a .. b - 1
    BY <1>1, <1>3, <2>1, <2>2, <2>4
  <2>6. (y - a) % d = 0
    <3>1. a \in Int
      BY <1>3
    <3> QED BY <1>1, <2>2, <2>3, <3>1, Aligned
  <2> QED BY <1>4, <2>1, <2>5, <2>6
<1>8. ASSUME NEW i \in S PROVE CountOnes(i) = Cardinality(WithKey(Q, key, i))
  <2>1. i \in a .. b - 1 /\ (i - a) % d = 0
    BY <1>4
  <2>2. a % d = 0 /\ b % d = 0
    BY <1>3, <2>1
  <2>3. a >= NextSlot - MaxEntries /\ b <= NextSlot
    BY <1>2, <1>3, <1>4
  <2>4. CountOnes(i) = Cardinality({s \in Q : s - (s % d) = i})
    <3>1. i \in a .. b - 1 /\ (i - a) % BlockSize = 0 /\ a % BlockSize = 0 /\ b % BlockSize = 0
      BY <2>1, <2>2 DEF d
    <3> QED BY <1>3, <2>3, <3>1, OneWord DEF d
  <2>5. {s \in Q : s - (s % d) = i} = WithKey(Q, key, i)
    BY DEF WithKey
  <2> QED BY <2>4, <2>5
<1>9. OnesOf(S) = Cardinality(Q)
  <2> HIDE DEF S, Q, key
  <2>1. \A x \in Q : key[x] \in S
    BY <1>7
  <2>2. \A i \in S : CountOnes(i) = Cardinality(WithKey(Q, key, i))
    BY <1>8
  <2>3. IsFiniteSet(S) /\ IsFiniteSet(Q)
    BY <1>6
  <2> QED BY <2>1, <2>2, <2>3, WordsTogether
<1>10. ConfirmedBlocksInEpoch(from, to) = Cardinality(P) + OnesOf(S)
  BY DEF ConfirmedBlocksInEpoch, OnesOf
<1> HIDE DEF P, Q, R, S
<1>11. Cardinality(P \cup Q) = Cardinality(P) + Cardinality(Q) - Cardinality(P \cap Q)
  BY <1>6, FS_Union
<1>12. Cardinality(P) \in Nat /\ Cardinality(Q) \in Nat
  BY <1>6, FS_CardinalityType
<1>13. Cardinality(P \cap Q) = 0
  BY <1>5, FS_EmptySet
<1>14. Cardinality(R) = Cardinality(P) + Cardinality(Q)
  <2>1. Cardinality(R) = Cardinality(P \cup Q)
    BY <1>5
  <2> QED BY <2>1, <1>11, <1>12, <1>13
<1>15. ConfirmedBlocksInEpoch(from, to) = Cardinality(R)
  BY <1>9, <1>10, <1>14
<1> QED BY <1>15 DEF R

-----------------------------------------------------------------------------
(* The blocks of the entries *)

\* The blocks of epoch e before slot t.
BlocksBefore(p, e, t) == Cardinality({s \in p : s >= FirstSlot(e) /\ s < t})

\* BlocksCounted, of a given account, and counts of slots that are over.
Tallied(c, sn, p, n) ==
  \A k \in Positions :
    c.arr[k].epoch # NoEpoch =>
      /\ sn[c.arr[k].epoch].to <= n
      /\ ~sn[c.arr[k].epoch].gap =>
           c.arr[k].total_blocks = BlocksBefore(p, c.arr[k].epoch, sn[c.arr[k].epoch].to)

\* What is noted of a count.
SeenType == [to : Int, gap : BOOLEAN]

\* A setup in which the cluster's account is written.
Copying == Scored \/ "cluster" \in setup.uploads

\* The inductive invariant of the cluster's account.
BlocksInv ==
  /\ cluster \in ClusterType /\ Ring(cluster) /\ UpTo(cluster, epoch)
  /\ produced \in SUBSET (0 .. slot - 1) /\ (Scored => produced = 0 .. slot - 1)
  /\ seen \in [0 .. MaxEpoch -> SeenType]
  /\ IF Copying THEN slot \in FirstSlot(epoch) .. LastSlot(epoch) ELSE cluster.is_empty
  /\ Tallied(cluster, seen, produced, slot)

\* An epoch has SlotsPerEpoch slots, and they follow those of the epoch before.
LEMMA EpochSlots ==
  ASSUME NEW e \in Int
  PROVE  /\ FirstSlot(e) \in Int /\ LastSlot(e) = FirstSlot(e) + SlotsPerEpoch - 1
         /\ FirstSlot(e + 1) = FirstSlot(e) + SlotsPerEpoch
         /\ FirstSlot(e - 1) = FirstSlot(e) - SlotsPerEpoch
<1>1. SlotsPerEpoch \in Nat \ {0}
  BY ClusterAssumption
<1>2. e * SlotsPerEpoch \in Int
  BY <1>1
<1>3. (e + 1) * SlotsPerEpoch = e * SlotsPerEpoch + SlotsPerEpoch
  BY <1>1
<1>4. (e - 1) * SlotsPerEpoch = e * SlotsPerEpoch - SlotsPerEpoch
  BY <1>1
<1> QED BY <1>1, <1>2, <1>3, <1>4 DEF FirstSlot, LastSlot

\* Later epochs have later slots.
LEMMA SlotsRise ==
  ASSUME NEW d \in Int, NEW e \in Int, d <= e
  PROVE  FirstSlot(d) <= FirstSlot(e)
<1>1. SlotsPerEpoch \in Nat \ {0}
  BY ClusterAssumption
<1>2. e - d \in Nat
  OBVIOUS
<1>3. (e - d) * SlotsPerEpoch \in Nat
  BY <1>1, <1>2
<1>4. e * SlotsPerEpoch = d * SlotsPerEpoch + (e - d) * SlotsPerEpoch
  BY <1>1
<1>5. d * SlotsPerEpoch \in Int
  BY <1>1
<1> QED BY <1>3, <1>4, <1>5 DEF FirstSlot

\* set_blocks, whether the epoch is new, has an entry or has none any more.
LEMMA BlocksSet ==
  ASSUME NEW c \in ClusterType, Ring(c), NEW e \in 0 .. MaxEpoch, NEW b \in Nat,
         NEW m \in Int, e <= m, UpTo(c, m)
  PROVE  LET g == SetTotalBlocks(c, e, b)
         IN  /\ g \in ClusterType /\ Ring(g) /\ UpTo(g, m)
             /\ \A k \in Positions : g.arr[k].epoch = e => g.arr[k].total_blocks = b
             /\ \A k \in Positions :
                  g.arr[k].epoch # e => \E j \in Positions : g.arr[k] = c.arr[j]
<1> DEFINE g == SetTotalBlocks(c, e, b)
<1>0. e \in Int /\ e # NoEpoch /\ c.idx \in Positions /\ \A k \in Positions : c.arr[k].epoch \in Int
  BY RingOrder, AtFacts DEF Ring, IsRing
<1>1. CASE IsNew(c, e)
  <2>1. /\ g \in ClusterType /\ Ring(g) /\ Newest(g).epoch = e /\ Newest(g).total_blocks = b
        /\ \A k \in Positions : g.arr[k].epoch = e \/ \E j \in Positions : g.arr[k] = c.arr[j]
    BY <1>1, BlocksPushed
  <2> HIDE DEF g
  <2>2. g.idx \in Positions /\ g.arr[g.idx].epoch = e /\ g.arr[g.idx].total_blocks = b
    BY <2>1 DEF Newest, Ring, IsRing
  <2>3. \A k \in Positions : g.arr[k].epoch = e => k = g.idx
    BY <1>0, <2>1, <2>2, RingOrder
  <2>4. UpTo(g, m)
    BY <1>0, <2>1 DEF UpTo
  <2> QED BY <2>1, <2>2, <2>3, <2>4 DEF g
<1>2. CASE ~IsNew(c, e) /\ Holds(c, e)
  <2>1. /\ g \in ClusterType /\ Ring(g)
        /\ \A k \in Positions : g.arr[k].epoch = c.arr[k].epoch
        /\ \A k \in Positions : g.arr[k].epoch = e => g.arr[k].total_blocks = b
        /\ \A k \in Positions : g.arr[k].epoch # e => g.arr[k] = c.arr[k]
    BY <1>2, BlocksRewritten
  <2> HIDE DEF g
  <2>2. UpTo(g, m)
    BY <2>1 DEF UpTo
  <2> QED BY <2>1, <2>2 DEF g
<1>3. CASE ~IsNew(c, e) /\ ~Holds(c, e)
  <2>1. g = c
    BY <1>3 DEF SetTotalBlocks
  <2>2. \A k \in Positions : c.arr[k].epoch # e
    BY <1>3 DEF Holds
  <2> HIDE DEF g
  <2> QED BY <2>1, <2>2 DEF g
<1> QED BY <1>1, <1>2, <1>3

\* Blocks of later slots leave the counts as they are.
LEMMA TalliedLater ==
  ASSUME NEW c \in ClusterType, NEW sn \in [0 .. MaxEpoch -> SeenType], NEW p, NEW q,
         NEW n \in Int, NEW m \in Int, n <= m, p \in SUBSET Int, q \in SUBSET Int,
         \A s \in Int : s < n => (s \in p <=> s \in q), Tallied(c, sn, p, n)
  PROVE  Tallied(c, sn, q, m)
<1> SUFFICES ASSUME NEW k \in Positions, c.arr[k].epoch # NoEpoch
             PROVE  /\ sn[c.arr[k].epoch].to <= m
                    /\ ~sn[c.arr[k].epoch].gap =>
                         c.arr[k].total_blocks = BlocksBefore(q, c.arr[k].epoch, sn[c.arr[k].epoch].to)
  BY DEF Tallied
<1> DEFINE e == c.arr[k].epoch
           t == sn[e].to
<1>1. e \in 0 .. MaxEpoch
  BY AtFacts DEF ClusterType, ClusterEntryType
<1>2. t \in Int
  BY <1>1 DEF SeenType
<1>3. t <= n /\ (~sn[e].gap => c.arr[k].total_blocks = BlocksBefore(p, e, t))
  BY DEF Tallied
<1> HIDE DEF e, t
<1>4. {s \in p : s >= FirstSlot(e) /\ s < t} = {s \in q : s >= FirstSlot(e) /\ s < t}
  <2>1. \A s \in Int : s < t => s < n
    BY <1>2, <1>3
  <2>2. \A s : s \in p /\ s < t <=> s \in q /\ s < t
    BY <2>1
  <2> QED BY <2>2
<1>5. BlocksBefore(p, e, t) = BlocksBefore(q, e, t)
  BY <1>4 DEF BlocksBefore
<1>6. t <= m
  BY <1>2, <1>3
<1> QED BY <1>3, <1>5, <1>6 DEF e, t

\* What copy_cluster_info counts for one of its two epochs.
LEMMA EpochCounted ==
  ASSUME NEW n \in Nat, produced \in SUBSET (0 .. n - 1), NEW e \in Nat, NEW last \in Nat,
         last = e \/ last = e + 1, n \in FirstSlot(last) .. LastSlot(last)
  PROVE  /\ ConfirmedBlocksInEpoch(FirstSlot(e), Min({LastSlot(e), n})) \in Nat
         /\ Min({LastSlot(e) + 1, n}) \in Int /\ Min({LastSlot(e) + 1, n}) <= n
         /\ LastFullBlock(FirstSlot(e), Min({LastSlot(e), n})) \in Int
         /\ LastFullBlock(FirstSlot(e), Min({LastSlot(e), n})) <= NextSlot =>
              ConfirmedBlocksInEpoch(FirstSlot(e), Min({LastSlot(e), n}))
                = BlocksBefore(produced, e, Min({LastSlot(e) + 1, n}))
<1> DEFINE F == FirstSlot(e)
           L == LastSlot(e)
           z == SlotsPerEpoch
           to == Min({L, n})
           t == Min({L + 1, n})
<1>1. z \in Nat \ {0} /\ MaxEntries \in Nat /\ MaxEntries >= 2 * z
  BY ClusterAssumption
<1>2. F \in Nat /\ L = F + z - 1
  BY EpochSlots, SlotOrder
<1>3. n >= F /\ n <= F + 2 * z - 1
  <2>1. CASE last = e
    <3>1. n \in F .. L
      BY <2>1
    <3> HIDE DEF F, L, z
    <3> QED BY <1>1, <1>2, <3>1
  <2>2. CASE last = e + 1
    <3>1. /\ FirstSlot(e + 1) = F + z
      BY EpochSlots
    <3>2. LastSlot(e + 1) = FirstSlot(e + 1) + z - 1
      BY EpochSlots
    <3>3. n \in FirstSlot(e + 1) .. LastSlot(e + 1)
      BY <2>2
    <3>4. n >= F + z /\ n <= F + z + z - 1
      <4> HIDE DEF F, z
      <4> QED BY <1>1, <1>2, <3>1, <3>2, <3>3
    <3> HIDE DEF F, z
    <3> QED BY <1>1, <1>2, <3>4
  <2> QED BY <2>1, <2>2
<1>4. to = (IF L <= n THEN L ELSE n) /\ t = IF L + 1 <= n THEN L + 1 ELSE n
  <2>1. L \in Int /\ L + 1 \in Int
    BY <1>1, <1>2
  <2>2. to = IF L <= n THEN L ELSE n
    <3> HIDE DEF L
    <3> QED BY <2>1, OfTwo
  <2>3. t = IF L + 1 <= n THEN L + 1 ELSE n
    <3> DEFINE x == L + 1
    <3>1. x \in Int
      BY <2>1
    <3>2. Min({x, n}) = IF x <= n THEN x ELSE n
      <4> HIDE DEF x
      <4> QED BY <3>1, OfTwo
    <3> QED BY <3>2
  <2> QED BY <2>2, <2>3
<1> HIDE DEF F, L, z, to, t
<1>5. to \in Nat /\ F <= to /\ t \in Int /\ t <= n
  BY <1>1, <1>2, <1>3, <1>4
<1>6. NextSlot \in 0 .. n /\ IsFiniteSet(produced)
  BY NextSlotAfter
<1>7. F >= NextSlot - MaxEntries
  BY <1>1, <1>2, <1>3, <1>6
<1>8. ConfirmedBlocksInEpoch(F, to) \in Nat
  <2>1. F \in Int /\ to \in Int
    BY <1>2, <1>5
  <2> QED BY <1>6, <2>1, BlocksNatural
<1>9. LastFullBlock(F, to) \in Int
  <2>1. LastFullBlock(F, to) \in Nat
    BY <1>2, <1>5, WholeWords
  <2> QED BY <2>1
<1>10. ASSUME LastFullBlock(F, to) <= NextSlot
       PROVE  ConfirmedBlocksInEpoch(F, to) = BlocksBefore(produced, e, t)
  <2>1. ConfirmedBlocksInEpoch(F, to) = Cardinality({s \in produced : F <= s /\ s <= to})
    BY <1>2, <1>5, <1>7, <1>10, BlocksOfRange
  <2>2. \A s \in produced : F <= s /\ s <= to <=> s >= F /\ s < t
    <3>1. \A s \in produced : s \in Int /\ s < n
      OBVIOUS
    <3> QED BY <1>1, <1>2, <1>4, <3>1
  <2>3. {s \in produced : F <= s /\ s <= to} = {s \in produced : s >= F /\ s < t}
    BY <2>2
  <2> QED BY <2>1, <2>3 DEF BlocksBefore, F
<1> QED BY <1>5, <1>8, <1>9, <1>10 DEF F, L, to, t

\* The count b of epoch e and what is noted of it agree.
NotedOf(x, b, e, p, n) == x.to <= n /\ (~x.gap => b = BlocksBefore(p, e, x.to))

\* What is noted differs for epoch e only.
SameBut(r, sn, e) == \A d \in 0 .. MaxEpoch : d # e => r[d] = sn[d]

\* One count is set and noted; the others stay.
LEMMA TallySet ==
  ASSUME NEW c \in ClusterType, Ring(c), NEW e \in 0 .. MaxEpoch, NEW b \in Nat,
         NEW m \in Int, e <= m, UpTo(c, m), NEW p, NEW n \in Int,
         NEW sn, NEW r, SameBut(r, sn, e), NotedOf(r[e], b, e, p, n), Tallied(c, sn, p, n)
  PROVE  Tallied(SetTotalBlocks(c, e, b), r, p, n)
<1> DEFINE g == SetTotalBlocks(c, e, b)
           x == r[e]
<1>1. /\ g \in ClusterType
      /\ \A k \in Positions : g.arr[k].epoch = e => g.arr[k].total_blocks = b
      /\ \A k \in Positions : g.arr[k].epoch # e => \E j \in Positions : g.arr[k] = c.arr[j]
  BY BlocksSet
<1>2. r[e] = x /\ \A d \in 0 .. MaxEpoch : d # e => r[d] = sn[d]
  BY DEF SameBut
<1> HIDE DEF g, x
<1> SUFFICES ASSUME NEW k \in Positions, g.arr[k].epoch # NoEpoch
             PROVE  /\ r[g.arr[k].epoch].to <= n
                    /\ ~r[g.arr[k].epoch].gap =>
                         g.arr[k].total_blocks = BlocksBefore(p, g.arr[k].epoch, r[g.arr[k].epoch].to)
  BY DEF Tallied, g
<1>3. CASE g.arr[k].epoch = e
  <2>1. r[g.arr[k].epoch] = x /\ g.arr[k].total_blocks = b
    BY <1>1, <1>2, <1>3
  <2>2. x.to <= n /\ (~x.gap => b = BlocksBefore(p, e, x.to))
    BY DEF NotedOf, x
  <2> QED BY <1>3, <2>1, <2>2
<1>4. CASE g.arr[k].epoch # e
  <2>1. PICK j \in Positions : g.arr[k] = c.arr[j]
    BY <1>1, <1>4
  <2>2. r[g.arr[k].epoch] = sn[c.arr[j].epoch] /\ c.arr[j].epoch # NoEpoch
    <3>1. g.arr[k].epoch \in 0 .. MaxEpoch
      <4>1. g.arr[k] \in ClusterEntryType
        BY <1>1 DEF ClusterType
      <4>2. g.arr[k].epoch \in 0 .. NoEpoch
        BY <4>1 DEF ClusterEntryType
      <4> QED BY <4>2, AtFacts
    <3> QED BY <1>2, <1>4, <2>1, <3>1
  <2>3. /\ sn[c.arr[j].epoch].to <= n
        /\ ~sn[c.arr[j].epoch].gap =>
             c.arr[j].total_blocks = BlocksBefore(p, c.arr[j].epoch, sn[c.arr[j].epoch].to)
    BY <2>2 DEF Tallied
  <2> QED BY <2>1, <2>2, <2>3
<1> QED BY <1>3, <1>4

\* The same entries have the same counts.
LEMMA TalliedSame ==
  ASSUME NEW c, NEW g, NEW sn, NEW p, NEW n, Tallied(c, sn, p, n),
         \A k \in Positions : /\ g.arr[k].epoch = c.arr[k].epoch
                              /\ g.arr[k].total_blocks = c.arr[k].total_blocks
  PROVE  Tallied(g, sn, p, n)
BY DEF Tallied

\* copy_cluster_info
LEMMA BlocksCopied ==
  ASSUME ClockInv, BlocksInv, Copying, CopyClusterInfo
  PROVE  /\ cluster' \in ClusterType /\ Ring(cluster') /\ UpTo(cluster', epoch)
         /\ seen' \in [0 .. MaxEpoch -> SeenType]
         /\ Tallied(cluster', seen', produced, slot)
<1>1. epoch \in 0 .. MaxEpoch /\ epoch \in Int /\ MaxEpoch \in Int /\ slot \in Nat
  BY ClockTyped DEF ClockInv
<1>2. /\ cluster \in ClusterType /\ Ring(cluster) /\ UpTo(cluster, epoch)
      /\ produced \in SUBSET (0 .. slot - 1) /\ seen \in [0 .. MaxEpoch -> SeenType]
      /\ slot \in FirstSlot(epoch) .. LastSlot(epoch)
      /\ Tallied(cluster, seen, produced, slot)
  BY DEF BlocksInv
<1> DEFINE D == {d \in {epoch - 1, epoch} : d >= 0}
           ends == [e \in D |-> Min({LastSlot(e), slot})]
           blocks(e) == ConfirmedBlocksInEpoch(FirstSlot(e), ends[e])
           note(e) == [to |-> Min({LastSlot(e) + 1, slot}),
                       gap |-> LastFullBlock(FirstSlot(e), ends[e]) > NextSlot]
           before == IF epoch > 0 THEN SetTotalBlocks(cluster, epoch - 1, blocks(epoch - 1)) ELSE cluster
           noticed == IF epoch > 0 THEN [seen EXCEPT ![epoch - 1] = note(epoch - 1)] ELSE seen
           counted == SetTotalBlocks(before, epoch, blocks(epoch))
           noted == SetEpochStartTimestamp(counted, epoch)
<1>3. /\ cluster' = [noted EXCEPT !.last_update_slot = slot]
      /\ seen' = [e \in DOMAIN seen |-> IF e \in DOMAIN ends THEN note(e) ELSE seen[e]]
  BY DEF CopyClusterInfo
<1>4. epoch \in D /\ (epoch > 0 => epoch - 1 \in D) /\ D \subseteq 0 .. MaxEpoch /\ D \subseteq {epoch - 1, epoch}
  BY <1>1
<1>5. ASSUME NEW e \in D
      PROVE  /\ blocks(e) \in Nat /\ note(e) \in SeenType
             /\ NotedOf(note(e), blocks(e), e, produced, slot)
  <2>1. e \in Nat /\ ends[e] = Min({LastSlot(e), slot}) /\ (epoch = e \/ epoch = e + 1) /\ epoch \in Nat
    BY <1>1
  <2> DEFINE F == FirstSlot(e)
             to == Min({LastSlot(e), slot})
             t == Min({LastSlot(e) + 1, slot})
             f == LastFullBlock(F, to)
             w == f > NextSlot
  <2>2. /\ ConfirmedBlocksInEpoch(F, to) \in Nat /\ t \in Int /\ t <= slot /\ f \in Int
        /\ f <= NextSlot => ConfirmedBlocksInEpoch(F, to) = BlocksBefore(produced, e, t)
    BY <1>1, <1>2, <2>1, EpochCounted
  <2>3. note(e) = [to |-> t, gap |-> w] /\ blocks(e) = ConfirmedBlocksInEpoch(F, to)
    BY <2>1
  <2>4. NextSlot \in Int
    <3>1. NextSlot \in 0 .. slot
      BY <1>1, <1>2, NextSlotAfter
    <3> QED BY <1>1, <3>1
  <2>5. w \in BOOLEAN /\ (~w => f <= NextSlot)
    <3> HIDE DEF f
    <3> QED BY <2>2, <2>4
  <2> HIDE DEF F, to, t, f, w, blocks, note
  <2>6. note(e) \in SeenType
    BY <2>2, <2>3, <2>5 DEF SeenType
  <2>7. note(e).to = t /\ note(e).gap = w
    BY <2>3
  <2>8. NotedOf(note(e), blocks(e), e, produced, slot)
    BY <2>2, <2>3, <2>5, <2>7 DEF NotedOf
  <2> QED BY <2>2, <2>3, <2>6, <2>8
<1> HIDE DEF D, ends, blocks, note
<1>6. /\ before \in ClusterType /\ Ring(before) /\ UpTo(before, epoch)
      /\ noticed \in [0 .. MaxEpoch -> SeenType] /\ Tallied(before, noticed, produced, slot)
  <2>1. CASE epoch > 0
    <3> DEFINE e == epoch - 1
               b == blocks(e)
               x == note(e)
    <3>1. e \in 0 .. MaxEpoch /\ e <= epoch /\ e \in D
      BY <1>1, <1>4, <2>1
    <3>2. b \in Nat /\ x \in SeenType /\ NotedOf(x, b, e, produced, slot)
      <4> HIDE DEF e
      <4> QED BY <1>5, <3>1
    <3>3. before = SetTotalBlocks(cluster, e, b) /\ noticed = [seen EXCEPT ![e] = x]
      BY <2>1
    <3> HIDE DEF e, b, x, before, noticed
    <3>4. before \in ClusterType /\ Ring(before) /\ UpTo(before, epoch)
      BY <1>1, <1>2, <3>1, <3>2, <3>3, BlocksSet
    <3>5. Tallied(before, noticed, produced, slot)
      <4>1. SameBut(noticed, seen, e) /\ noticed[e] = x /\ slot \in Int
        BY <1>1, <1>2, <3>1, <3>3 DEF SameBut
      <4>2. NotedOf(noticed[e], b, e, produced, slot)
        BY <3>2, <4>1
      <4> QED BY <1>1, <1>2, <3>1, <3>2, <3>3, <4>1, <4>2, TallySet
    <3>6. noticed \in [0 .. MaxEpoch -> SeenType]
      BY <1>2, <3>1, <3>2, <3>3
    <3> QED BY <3>4, <3>5, <3>6
  <2>2. CASE ~(epoch > 0)
    BY <1>2, <2>2
  <2> QED BY <2>1, <2>2
<1> DEFINE b == blocks(epoch)
           x == note(epoch)
<1>7. b \in Nat /\ x \in SeenType /\ NotedOf(x, b, epoch, produced, slot)
  BY <1>4, <1>5
<1>8. seen' = [noticed EXCEPT ![epoch] = x]
  <2>1. DOMAIN seen = 0 .. MaxEpoch /\ DOMAIN ends = D
    BY <1>2 DEF ends
  <2>2. DOMAIN noticed = 0 .. MaxEpoch
    BY <1>6
  <2>3. ASSUME NEW e \in 0 .. MaxEpoch
        PROVE  (IF e \in D THEN note(e) ELSE seen[e]) = [noticed EXCEPT ![epoch] = x][e]
    <3>1. CASE e = epoch
      BY <1>4, <2>2, <3>1
    <3>2. CASE e # epoch /\ e \in D
      <4>1. e = epoch - 1 /\ epoch > 0
        BY <1>1, <1>4, <2>3, <3>2
      <4>2. [noticed EXCEPT ![epoch] = x][e] = noticed[e]
        BY <2>2, <3>2
      <4>3. noticed[e] = note(e)
        BY <1>2, <4>1
      <4> QED BY <3>2, <4>2, <4>3
    <3>3. CASE e \notin D
      <4>1. e # epoch /\ (epoch > 0 => e # epoch - 1)
        BY <1>4, <3>3
      <4>2. [noticed EXCEPT ![epoch] = x][e] = noticed[e]
        BY <2>2, <4>1
      <4>3. noticed[e] = seen[e]
        BY <1>2, <4>1
      <4> QED BY <3>3, <4>2, <4>3
    <3> QED BY <3>1, <3>2, <3>3
  <2>4. seen' = [e \in 0 .. MaxEpoch |-> IF e \in D THEN note(e) ELSE seen[e]]
    BY <1>3, <2>1
  <2> HIDE DEF noticed, x
  <2>5. [noticed EXCEPT ![epoch] = x] = [e \in 0 .. MaxEpoch |-> [noticed EXCEPT ![epoch] = x][e]]
    BY <2>2
  <2> QED BY <2>3, <2>4, <2>5
<1>9. counted = SetTotalBlocks(before, epoch, b)
  OBVIOUS
<1> HIDE DEF before, noticed, b, x, counted
<1>10. counted \in ClusterType /\ Ring(counted) /\ UpTo(counted, epoch)
  BY <1>1, <1>6, <1>7, <1>9, BlocksSet
<1>11. Tallied(counted, seen', produced, slot)
  <2>1. epoch <= epoch
    BY <1>1
  <2> DEFINE r == seen'
  <2>2. SameBut(r, noticed, epoch) /\ r[epoch] = x /\ slot \in Int
    BY <1>1, <1>6, <1>8 DEF SameBut
  <2> HIDE DEF r
  <2>3. NotedOf(r[epoch], b, epoch, produced, slot)
    BY <1>7, <2>2
  <2>4. Tallied(SetTotalBlocks(before, epoch, b), r, produced, slot)
    BY <1>1, <1>6, <1>7, <2>1, <2>2, <2>3, TallySet
  <2> QED BY <1>9, <2>4 DEF r
<1>12. seen' \in [0 .. MaxEpoch -> SeenType]
  BY <1>1, <1>6, <1>7, <1>8
<1>13. /\ noted \in ClusterType /\ Ring(noted) /\ noted.is_empty = counted.is_empty /\ noted.idx = counted.idx
       /\ \A k \in Positions : /\ noted.arr[k].epoch = counted.arr[k].epoch
                               /\ noted.arr[k].total_blocks = counted.arr[k].total_blocks
  BY <1>1, <1>10, StartNoted
<1> HIDE DEF noted
<1>14. /\ cluster' \in ClusterType /\ cluster'.arr = noted.arr /\ cluster'.idx = noted.idx
       /\ cluster'.is_empty = noted.is_empty
  BY <1>1, <1>3, <1>13 DEF ClusterType
<1>15. Ring(cluster')
  <2>1. SameEpochs(cluster', noted)
    BY <1>14 DEF SameEpochs
  <2>2. /\ {"arr", "idx", "is_empty"} \subseteq DOMAIN cluster' /\ cluster' = [f \in DOMAIN cluster' |-> cluster'[f]]
        /\ cluster'.arr = [k \in Positions |-> cluster'.arr[k]]
    BY <1>14 DEF ClusterType
  <2> QED BY <1>13, <2>1, <2>2, RewriteKeepsRing
<1>16. UpTo(cluster', epoch)
  BY <1>10, <1>13, <1>14 DEF UpTo
<1>17. Tallied(cluster', seen', produced, slot)
  <2>1. \A k \in Positions : /\ cluster'.arr[k].epoch = counted.arr[k].epoch
                             /\ cluster'.arr[k].total_blocks = counted.arr[k].total_blocks
    BY <1>13, <1>14
  <2> QED BY <1>11, <2>1, TalliedSame
<1> QED BY <1>12, <1>14, <1>15, <1>16, <1>17

\* backfill_total_blocks
LEMMA BlocksFilledIn ==
  ASSUME ClockInv, BlocksInv, Copying, NEW e \in 0 .. MaxEpoch, BackfillTotalBlocks(e)
  PROVE  /\ cluster' \in ClusterType /\ Ring(cluster') /\ UpTo(cluster', epoch)
         /\ seen' \in [0 .. MaxEpoch -> SeenType]
         /\ Tallied(cluster', seen', produced, slot)
<1>1. epoch \in 0 .. MaxEpoch /\ epoch \in Int /\ MaxEpoch \in Int /\ slot \in Nat /\ slot \in Int
  BY ClockTyped DEF ClockInv
<1>2. /\ cluster \in ClusterType /\ Ring(cluster) /\ UpTo(cluster, epoch)
      /\ produced \in SUBSET (0 .. slot - 1) /\ seen \in [0 .. MaxEpoch -> SeenType]
      /\ slot \in FirstSlot(epoch) .. LastSlot(epoch)
      /\ Tallied(cluster, seen, produced, slot)
  BY DEF BlocksInv
<1> DEFINE B == {s \in produced : s >= FirstSlot(e) /\ s <= LastSlot(e)}
           b == Cardinality(B)
           x == [to |-> LastSlot(e) + 1, gap |-> FALSE]
           g == cluster'
           r == seen'
<1>3. e < epoch /\ g = SetTotalBlocks(cluster, e, b) /\ r = [seen EXCEPT ![e] = x]
  BY DEF BackfillTotalBlocks
<1>4. b \in Nat
  <2>1. IsFiniteSet(produced)
    BY <1>1, <1>2, NextSlotAfter
  <2>2. B \in SUBSET produced
    OBVIOUS
  <2> HIDE DEF B
  <2> QED BY <2>1, <2>2, FS_Subset, FS_CardinalityType
<1>5. /\ FirstSlot(e) \in Int /\ LastSlot(e) \in Int /\ LastSlot(e) + 1 = FirstSlot(e + 1)
      /\ FirstSlot(e + 1) <= FirstSlot(epoch) /\ FirstSlot(epoch) \in Int /\ FirstSlot(e + 1) \in Int
  <2>1. e \in Int /\ e + 1 \in Int /\ e + 1 <= epoch
    BY <1>1, <1>3
  <2>2. SlotsPerEpoch \in Int
    BY ClusterAssumption
  <2>3. /\ FirstSlot(e) \in Int /\ LastSlot(e) = FirstSlot(e) + SlotsPerEpoch - 1
        /\ FirstSlot(e + 1) = FirstSlot(e) + SlotsPerEpoch
    BY <2>1, EpochSlots
  <2>4. FirstSlot(epoch) \in Int
    BY <1>1, EpochSlots
  <2>5. FirstSlot(e + 1) <= FirstSlot(epoch)
    <3> DEFINE d == e + 1
    <3> HIDE DEF d
    <3>1. d \in Int /\ d <= epoch
      BY <2>1 DEF d
    <3>2. FirstSlot(d) <= FirstSlot(epoch)
      BY <1>1, <3>1, SlotsRise
    <3> QED BY <3>2 DEF d
  <2> QED BY <2>2, <2>3, <2>4, <2>5
<1>6. LastSlot(e) + 1 \in Int /\ LastSlot(e) + 1 <= slot
  BY <1>1, <1>2, <1>5
<1>7. B = {s \in produced : s >= FirstSlot(e) /\ s < LastSlot(e) + 1}
  <2>1. \A s \in produced : s \in Int
    BY <1>2
  <2> QED BY <1>5, <2>1
<1>8. x \in SeenType /\ NotedOf(x, b, e, produced, slot)
  <2>1. x \in SeenType /\ x.to = LastSlot(e) + 1
    BY <1>6 DEF SeenType
  <2>2. b = BlocksBefore(produced, e, LastSlot(e) + 1)
    BY <1>7 DEF BlocksBefore
  <2> HIDE DEF b, x
  <2> QED BY <1>6, <2>1, <2>2 DEF NotedOf
<1> HIDE DEF B, b, x, g, r
<1>9. g \in ClusterType /\ Ring(g) /\ UpTo(g, epoch)
  <2>1. e <= epoch
    BY <1>1, <1>3
  <2> QED BY <1>1, <1>2, <1>3, <1>4, <2>1, BlocksSet
<1>10. r \in [0 .. MaxEpoch -> SeenType] /\ r[e] = x
  BY <1>2, <1>3, <1>8
<1>11. Tallied(g, r, produced, slot)
  <2>1. e <= epoch
    BY <1>1, <1>3
  <2>2. SameBut(r, seen, e)
    BY <1>2, <1>3 DEF SameBut
  <2>3. NotedOf(r[e], b, e, produced, slot)
    BY <1>8, <1>10
  <2> QED BY <1>1, <1>2, <1>3, <1>4, <2>1, <2>2, <2>3, TallySet
<1> QED BY <1>9, <1>10, <1>11 DEF g, r

\* Nothing is counted at first.
LEMMA InitBlocks == ScoredInit => BlocksInv
<1> SUFFICES ASSUME ScoredInit PROVE BlocksInv
  OBVIOUS
<1>1. /\ epoch = 0 /\ slot = 0 /\ produced = {}
      /\ cluster = [arr |-> [k \in Positions |-> DefaultClusterEntry], idx |-> MaxItems - 1,
                    is_empty |-> TRUE, last_update_slot |-> 0]
      /\ seen = [e \in 0 .. MaxEpoch |-> [to |-> FirstSlot(e), gap |-> FALSE]]
  BY DEF ScoredInit, Init, ClusterInit
<1>2. DefaultClusterEntry \in ClusterEntryType /\ DefaultClusterEntry.epoch = NoEpoch
  BY AtFacts DEF DefaultClusterEntry, ClusterEntryType, Number
<1>3. cluster \in ClusterType /\ \A k \in Positions : cluster.arr[k] = DefaultClusterEntry
  BY <1>1, <1>2, AtFacts DEF ClusterType
<1>4. \A k \in Positions : cluster.arr[k].epoch = NoEpoch
  BY <1>2, <1>3
<1>5. Ring(cluster)
  <2>1. /\ cluster.idx = MaxItems - 1 /\ cluster.is_empty = TRUE /\ {"arr", "idx", "is_empty"} \subseteq DOMAIN cluster
        /\ cluster = [f \in DOMAIN cluster |-> cluster[f]] /\ cluster.arr = [k \in Positions |-> cluster.arr[k]]
    BY <1>1
  <2> QED BY <1>4, <2>1, EmptyRing
<1>6. UpTo(cluster, epoch)
  BY <1>4 DEF UpTo
<1>7. produced \in SUBSET (0 .. slot - 1) /\ produced = 0 .. slot - 1
  BY <1>1
<1>8. seen \in [0 .. MaxEpoch -> SeenType]
  <2>1. \A e \in 0 .. MaxEpoch : [to |-> FirstSlot(e), gap |-> FALSE] \in SeenType
    <3>1. \A e \in 0 .. MaxEpoch : FirstSlot(e) \in Int
      BY AtFacts, EpochSlots
    <3> QED BY <3>1 DEF SeenType
  <2> QED BY <1>1, <2>1
<1>9. slot \in FirstSlot(epoch) .. LastSlot(epoch)
  <2>1. SlotsPerEpoch \in Nat \ {0}
    BY ClusterAssumption
  <2>2. FirstSlot(0) = 0 /\ LastSlot(0) = FirstSlot(0) + SlotsPerEpoch - 1
    BY <2>1, EpochSlots DEF FirstSlot
  <2> QED BY <1>1, <2>1, <2>2
<1>10. cluster.is_empty
  BY <1>1
<1>11. Tallied(cluster, seen, produced, slot)
  BY <1>4 DEF Tallied
<1> QED BY <1>3, <1>5, <1>6, <1>7, <1>8, <1>9, <1>10, <1>11 DEF BlocksInv

\* A slot lies in the epoch that it divides to.
LEMMA SlotIn ==
  ASSUME NEW x \in Int
  PROVE  /\ x \div SlotsPerEpoch \in Int
         /\ x \in FirstSlot(x \div SlotsPerEpoch) .. LastSlot(x \div SlotsPerEpoch)
<1> DEFINE z == SlotsPerEpoch
           d == x \div z
           r == x % z
<1>1. z \in Nat \ {0}
  BY ClusterAssumption
<1>2. d \in Int /\ r \in 0 .. z - 1 /\ x = z * d + r
  <2> HIDE DEF z
  <2> QED BY <1>1, Divided
<1> HIDE DEF d, r
<1>3. FirstSlot(d) \in Int /\ LastSlot(d) = FirstSlot(d) + z - 1
  BY <1>2, EpochSlots
<1>4. FirstSlot(d) = z * d
  BY <1>1, <1>2 DEF FirstSlot
<1> HIDE DEF z
<1>5. x \in FirstSlot(d) .. LastSlot(d)
  BY <1>1, <1>2, <1>3, <1>4
<1> QED BY <1>2, <1>5 DEF d, z

\* Every instruction and every slot keeps the counts.
LEMMA StepBlocks ==
  ASSUME HistoryInv, HistoryInv', BlocksInv, [ScoredNext]_allVars
  PROVE  BlocksInv'
<1>1. /\ epoch \in 0 .. MaxEpoch /\ epoch \in Int /\ MaxEpoch \in Int /\ slot \in Nat /\ slot \in Int
      /\ epoch' \in 0 .. MaxEpoch /\ epoch' \in Int /\ slot' \in Nat
  <2>1. epoch \in 0 .. MaxEpoch /\ MaxEpoch \in Int /\ slot \in Nat
    BY ClockTyped DEF HistoryInv, ClockInv
  <2>2. epoch' \in 0 .. MaxEpoch /\ slot' \in Nat
    BY DEF HistoryInv, ClockInv
  <2> QED BY <2>1, <2>2
<1>2. /\ cluster \in ClusterType /\ Ring(cluster) /\ UpTo(cluster, epoch)
      /\ produced \in SUBSET (0 .. slot - 1) /\ seen \in [0 .. MaxEpoch -> SeenType]
      /\ Tallied(cluster, seen, produced, slot)
  BY DEF BlocksInv
<1>3. \A k \in Positions : cluster.arr[k].epoch \in Int
  BY <1>2, RingOrder
<1>4. CASE Copying /\ (CopyClusterInfo \/ \E e \in 0 .. MaxEpoch : BackfillTotalBlocks(e))
  <2>1. vars' = vars /\ slot' = slot /\ produced' = produced
    BY <1>4 DEF CopyClusterInfo, BackfillTotalBlocks
  <2>2. setup' = setup /\ epoch' = epoch
    BY <2>1 DEF vars
  <2>3. /\ cluster' \in ClusterType /\ Ring(cluster') /\ UpTo(cluster', epoch)
        /\ seen' \in [0 .. MaxEpoch -> SeenType]
        /\ Tallied(cluster', seen', produced, slot)
    <3>1. CASE CopyClusterInfo
      BY <1>4, <3>1, BlocksCopied DEF HistoryInv
    <3>2. CASE \E e \in 0 .. MaxEpoch : BackfillTotalBlocks(e)
      <4>1. PICK e \in 0 .. MaxEpoch : BackfillTotalBlocks(e)
        BY <3>2
      <4> QED BY <1>4, <4>1, BlocksFilledIn DEF HistoryInv
    <3> QED BY <1>4, <3>1, <3>2
  <2>4. Copying' /\ (Scored' => Scored)
    BY <1>4, <2>2 DEF Copying, Scored
  <2>5. slot \in FirstSlot(epoch) .. LastSlot(epoch) /\ (Scored => produced = 0 .. slot - 1)
    BY <1>4 DEF BlocksInv
  <2>6. UpTo(cluster', epoch') /\ Tallied(cluster', seen', produced', slot')
    BY <2>1, <2>2, <2>3
  <2>7. slot' \in FirstSlot(epoch') .. LastSlot(epoch')
    BY <2>1, <2>2, <2>5
  <2> QED BY <1>2, <2>1, <2>3, <2>4, <2>5, <2>6, <2>7 DEF BlocksInv
<1>5. ASSUME ~Scored, "cluster" \in setup.uploads, NEW block \in BOOLEAN, Slot(block) PROVE BlocksInv'
  <2>1. /\ setup' = setup /\ slot' = slot + 1 /\ epoch' = slot' \div SlotsPerEpoch
        /\ produced' = (IF block THEN produced \cup {slot} ELSE produced)
        /\ cluster' = cluster /\ seen' = seen
    BY <1>5 DEF Slot
  <2>2. Copying' /\ ~Scored' /\ Copying
    BY <1>5, <2>1 DEF Copying, Scored
  <2>3. produced' \in SUBSET (0 .. slot' - 1)
    BY <1>1, <1>2, <2>1
  <2>4. slot' \in FirstSlot(epoch') .. LastSlot(epoch')
    <3> DEFINE x == slot'
    <3>1. x \in Int
      BY <1>1
    <3> HIDE DEF x
    <3>2. x \in FirstSlot(x \div SlotsPerEpoch) .. LastSlot(x \div SlotsPerEpoch)
      BY <3>1, SlotIn
    <3> QED BY <2>1, <3>2 DEF x
  <2>5. epoch <= epoch'
    <3> DEFINE d == epoch'
               f == d + 1
    <3>0. d \in Int /\ epoch \in Int
      BY <1>1
    <3> SUFFICES ASSUME f <= epoch PROVE FALSE
      <4> HIDE DEF d
      <4>1. f <= epoch \/ epoch <= d
        BY <3>0
      <4> QED BY <4>1 DEF d
    <3>1. d \in Int /\ f \in Int /\ f <= epoch
      <4> HIDE DEF d
      <4> QED BY <3>0
    <3>2. slot' \in FirstSlot(d) .. LastSlot(d)
      BY <2>4
    <3> HIDE DEF d
    <3>3. FirstSlot(d) \in Int /\ LastSlot(d) = FirstSlot(d) + SlotsPerEpoch - 1 /\ FirstSlot(f) = FirstSlot(d) + SlotsPerEpoch
      BY <3>1, EpochSlots
    <3> HIDE DEF f
    <3>4. FirstSlot(f) <= FirstSlot(epoch)
      BY <1>1, <3>1, SlotsRise
    <3>5. slot >= FirstSlot(epoch) /\ FirstSlot(epoch) \in Int
      <4>1. slot \in FirstSlot(epoch) .. LastSlot(epoch)
        BY <2>2 DEF BlocksInv
      <4>2. FirstSlot(epoch) \in Int
        BY <1>1, EpochSlots
      <4> QED BY <4>1, <4>2
    <3>6. SlotsPerEpoch \in Int
      BY ClusterAssumption
    <3> QED BY <1>1, <2>1, <3>2, <3>3, <3>4, <3>5, <3>6
  <2>6. UpTo(cluster, epoch')
    BY <1>1, <1>2, <1>3, <2>5 DEF UpTo
  <2>7. Tallied(cluster, seen, produced', slot')
    <3> DEFINE q == produced'
               m == slot'
    <3>1. q \in SUBSET Int /\ m \in Int /\ slot <= m /\ produced \in SUBSET Int
      BY <1>1, <1>2, <2>1, <2>3
    <3>2. \A s \in Int : s < slot => (s \in produced <=> s \in q)
      BY <1>1, <2>1
    <3> HIDE DEF q, m
    <3>3. Tallied(cluster, seen, q, m)
      BY <1>1, <1>2, <3>1, <3>2, TalliedLater
    <3> QED BY <3>3 DEF q, m
  <2> QED BY <1>2, <2>1, <2>2, <2>3, <2>4, <2>6, <2>7 DEF BlocksInv
<1>6. CASE ~Scored /\ "cluster" \notin setup.uploads /\ Next /\ UNCHANGED clusterVars
  <2>1. cluster' = cluster /\ slot' = slot /\ produced' = produced /\ seen' = seen
    BY <1>6 DEF clusterVars
  <2>2. setup' = setup
    BY <1>6, NextAccount DEF AccountStep, HistoryInv
  <2>3. ~Copying /\ ~Copying' /\ ~Scored'
    BY <1>6, <2>2 DEF Copying, Scored
  <2>4. cluster.is_empty
    BY <2>3 DEF BlocksInv
  <2>5. UpTo(cluster, epoch')
    BY <1>2, <2>4 DEF UpTo, Ring, Packed
  <2>6. UpTo(cluster', epoch') /\ Tallied(cluster', seen', produced', slot')
    BY <1>2, <2>1, <2>5
  <2> QED BY <1>2, <2>1, <2>3, <2>4, <2>6 DEF BlocksInv
<1>7. CASE Scored /\ Next /\ EpochsHaveBlocks
  <2>1. setup' = setup /\ epoch' \in epoch .. MaxEpoch
    BY <1>7, NextAccount DEF AccountStep, HistoryInv
  <2>2. cluster' = cluster /\ seen' = seen /\ slot' = FirstSlot(epoch') /\ produced' = 0 .. slot' - 1
    BY <1>7 DEF EpochsHaveBlocks
  <2>3. Copying' /\ Scored'
    BY <1>7, <2>1 DEF Copying, Scored
  <2>4. slot = FirstSlot(epoch) /\ produced = 0 .. slot - 1
    BY <1>7 DEF HistoryInv, ClusterInv, BlocksInv
  <2>5. epoch <= epoch'
    BY <1>1, <2>1
  <2>6. slot <= slot' /\ slot' \in FirstSlot(epoch') .. LastSlot(epoch')
    <3> DEFINE d == epoch'
    <3>1. d \in Int /\ epoch <= d /\ slot' = FirstSlot(d)
      BY <1>1, <2>2, <2>5
    <3> HIDE DEF d
    <3>2. FirstSlot(epoch) <= FirstSlot(d)
      BY <1>1, <3>1, SlotsRise
    <3>3. FirstSlot(d) \in Int /\ LastSlot(d) = FirstSlot(d) + SlotsPerEpoch - 1
      BY <3>1, EpochSlots
    <3>4. SlotsPerEpoch \in Nat \ {0}
      BY ClusterAssumption
    <3>5. FirstSlot(d) \in FirstSlot(d) .. LastSlot(d)
      BY <3>3, <3>4
    <3> QED BY <2>4, <3>1, <3>2, <3>5 DEF d
  <2>7. UpTo(cluster, epoch')
    BY <1>1, <1>2, <1>3, <2>5 DEF UpTo
  <2>8. Tallied(cluster, seen, produced', slot')
    <3> DEFINE q == produced'
               m == slot'
    <3>1. q \in SUBSET Int /\ m \in Int /\ slot <= m /\ produced \in SUBSET Int
      BY <1>1, <2>2, <2>4, <2>6
    <3>2. \A s \in Int : s < slot => (s \in produced <=> s \in q)
      BY <1>1, <2>2, <2>4, <2>6
    <3> HIDE DEF q, m
    <3>3. Tallied(cluster, seen, q, m)
      BY <1>1, <1>2, <3>1, <3>2, TalliedLater
    <3> QED BY <3>3 DEF q, m
  <2> QED BY <1>2, <2>2, <2>3, <2>6, <2>7, <2>8 DEF BlocksInv
<1>8. CASE UNCHANGED <<vars, clusterVars>>
  <2>1. setup' = setup /\ epoch' = epoch
    BY <1>8 DEF vars
  <2>2. cluster' = cluster /\ slot' = slot /\ produced' = produced /\ seen' = seen
    BY <1>8 DEF clusterVars
  <2> QED BY <2>1, <2>2 DEF BlocksInv, Copying, Scored, UpTo, Tallied
<1>9. ~Scored /\ "cluster" \in setup.uploads /\ ClusterNext => BlocksInv'
  BY <1>4, <1>5 DEF ClusterNext, Copying
<1>10. Scored /\ CopyClusterInfo => BlocksInv'
  BY <1>4 DEF Copying
<1>11. UNCHANGED allVars => UNCHANGED <<vars, clusterVars>>
  BY DEF allVars
<1> QED BY <1>6, <1>7, <1>8, <1>9, <1>10, <1>11 DEF ScoredNext, ProgramNext

\* The counts stay right.
THEOREM BlocksKept == ScoredSpec => []BlocksInv
<1>1. ScoredInit => BlocksInv
  BY InitBlocks
<1>2. HistoryInv /\ HistoryInv' /\ BlocksInv /\ [ScoredNext]_<<vars, clusterVars, scoreVars>> => BlocksInv'
  BY StepBlocks DEF allVars
<1> QED BY <1>1, <1>2, HistoryKept, PTL DEF ScoredSpec

\* The blocks of an entry are the blocks of its epoch before the last copy.
THEOREM SpecBlocksCounted == ScoredSpec => []BlocksCounted
<1>1. BlocksInv => BlocksCounted
  BY DEF BlocksInv, Tallied, BlocksCounted, BlocksBefore
<1> QED BY <1>1, BlocksKept, PTL

-----------------------------------------------------------------------------
(* encode_validator_score *)

\* A number above the width of a tier outweighs whatever is in the tier.
LEMMA TierStep ==
  ASSUME NEW a \in Nat, NEW b \in Nat, NEW w \in Nat \ {0},
         NEW x \in 0 .. w - 1, NEW y \in 0 .. w - 1, a > b
  PROVE  Tier(a, w, x) > Tier(b, w, y)
<1> DEFINE d == a - b - 1
<1>1. d \in Nat /\ a = b + 1 + d
  OBVIOUS
<1>2. d * w \in Nat /\ b * w \in Nat
  BY <1>1
<1>3. a * w = b * w + w + d * w
  BY <1>1
<1> HIDE DEF d
<1>4. a * w >= b * w + w
  BY <1>2, <1>3
<1> QED
  BY <1>2, <1>4 DEF Tier

\* Two tiers compare like the pair of their parts.
LEMMA TierOrder ==
  ASSUME NEW a \in Nat, NEW b \in Nat, NEW w \in Nat \ {0},
         NEW x \in 0 .. w - 1, NEW y \in 0 .. w - 1
  PROVE  /\ Tier(a, w, x) \in Nat
         /\ Tier(a, w, x) > Tier(b, w, y) <=> a > b \/ (a = b /\ x > y)
         /\ Tier(a, w, x) = Tier(b, w, y) <=> a = b /\ x = y
<1>0. a * w \in Nat /\ b * w \in Nat
  OBVIOUS
<1>1. CASE a > b
  BY <1>0, <1>1, TierStep DEF Tier
<1>2. CASE b > a
  BY <1>0, <1>2, TierStep DEF Tier
<1>3. CASE a = b
  BY <1>0, <1>3 DEF Tier
<1> QED
  BY <1>1, <1>2, <1>3

\* Every part fits into its tier.
LEMMA PartsFit ==
  ASSUME NEW x \in Components
  PROVE  /\ InflationScore(x.commission) \in Nat
         /\ MevScore(x.bps) \in 0 .. MevWidth - 1
         /\ AgeScore(x.age) \in 0 .. AgeWidth - 1
         /\ CreditsScore(x.credits) \in 0 .. CreditsWidth - 1
  BY EncodingAssumption
     DEF Components, InflationScore, MevScore, AgeScore, CreditsScore, Capped

\* "differences in higher-order bits will dominate lower-order bits": the order of
\* two encoded scores is the order of their tiers, for every width and every
\* component, those beyond the caps included.
THEOREM ScoresCompareByTier ==
  ASSUME NEW x \in Components, NEW y \in Components
  PROVE  Encode(x) > Encode(y) <=> Better(x, y)
<1> DEFINE i == InflationScore(x.commission)
           j == InflationScore(y.commission)
           m == MevScore(x.bps)
           n == MevScore(y.bps)
           a == AgeScore(x.age)
           b == AgeScore(y.age)
           c == CreditsScore(x.credits)
           d == CreditsScore(y.credits)
<1>1. MevWidth \in Nat \ {0} /\ AgeWidth \in Nat \ {0} /\ CreditsWidth \in Nat \ {0}
  BY EncodingAssumption
<1>2. /\ i \in Nat /\ m \in 0 .. MevWidth - 1
      /\ a \in 0 .. AgeWidth - 1 /\ c \in 0 .. CreditsWidth - 1
  BY PartsFit
<1>3. /\ j \in Nat /\ n \in 0 .. MevWidth - 1
      /\ b \in 0 .. AgeWidth - 1 /\ d \in 0 .. CreditsWidth - 1
  BY PartsFit
<1>4. /\ Encode(x) = Tier(Tier(Tier(i, MevWidth, m), AgeWidth, a), CreditsWidth, c)
      /\ Encode(y) = Tier(Tier(Tier(j, MevWidth, n), AgeWidth, b), CreditsWidth, d)
  BY DEF Encode, EncodeValidatorScore
<1>5. Better(x, y) <=> \/ i > j
                       \/ i = j /\ \/ m > n
                                   \/ m = n /\ \/ a > b
                                               \/ a = b /\ c > d
  BY DEF Better
<1> HIDE DEF i, j, m, n, a, b, c, d
<1> DEFINE p == Tier(i, MevWidth, m)
           q == Tier(j, MevWidth, n)
           r == Tier(p, AgeWidth, a)
           s == Tier(q, AgeWidth, b)
<1>6. p \in Nat /\ q \in Nat
  BY <1>1, <1>2, <1>3, TierOrder
<1>7. /\ p > q <=> i > j \/ (i = j /\ m > n)
      /\ p = q <=> i = j /\ m = n
  BY <1>1, <1>2, <1>3, TierOrder
<1> HIDE DEF p, q
<1>8. r \in Nat /\ s \in Nat
  BY <1>1, <1>2, <1>3, <1>6, TierOrder
<1>9. /\ r > s <=> p > q \/ (p = q /\ a > b)
      /\ r = s <=> p = q /\ a = b
  BY <1>1, <1>2, <1>3, <1>6, TierOrder
<1> HIDE DEF r, s
<1>10. Tier(r, CreditsWidth, c) > Tier(s, CreditsWidth, d) <=> r > s \/ (r = s /\ c > d)
  BY <1>1, <1>2, <1>3, <1>8, TierOrder
<1>11. Encode(x) > Encode(y) <=> r > s \/ (r = s /\ c > d)
  BY <1>4, <1>10 DEF p, q, r, s
<1> QED
  BY <1>5, <1>7, <1>9, <1>11
=============================================================================
