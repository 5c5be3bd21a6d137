-------------------------- MODULE RebalanceProofs --------------------------
(***************************************************************************)
(* Proofs about Rebalance, for any number of validators, any stakes,        *)
(* shares, caps and rents, any order of cranking, and whatever users and    *)
(* the admin move: the unstake caps and the stake ceiling hold, the reserve *)
(* pays for every validator, and the shares do not add up to more than the  *)
(* pool.                                                                    *)
(***************************************************************************)
EXTENDS Rebalance, WellOrder

TotalsType == [Categories -> Nat]
PlanFields == {"moved", "holds", "hidden", "covered"}

\* What the proofs need of the types.
Typed ==
  /\ moves \in Moves
  /\ progress \in SUBSET Indices /\ instant_unstake \in SUBSET Indices
  /\ delegations \in [Indices -> Nat]
  /\ sorted_score_indices = [k \in 1 .. NumPoolValidators |-> k - 1]
  /\ sorted_raw_score_indices \in Surjection(1 .. NumPoolValidators, Indices)
  /\ validator_lamport_balances \in [Indices -> Nat]
  /\ totals \in TotalsType
  /\ directed_stake_lamports \in [Indices -> Nat]
  /\ stake \in [Indices -> Nat]
  /\ transient \in [Indices -> Int]
  /\ reserve \in Nat
  /\ DOMAIN plan = PlanFields

\* While a covered phase goes on, the reserve has the rent of the validators to come.
RentCovered ==
  tag = "Rebalance" /\ plan.covered =>
    reserve >= StakeRent * (NumPoolValidators + 1 - Cardinality(progress))

RebalanceInv == Typed /\ NotOverAllocated /\ RentCovered
-----------------------------------------------------------------------------
(* Sums *)

\* The constants.
LEMMA Numbers ==
  /\ NumPoolValidators \in Nat /\ NumPoolValidators > 0 /\ MinimumDelegation \in Nat
  /\ StakeRent \in Nat /\ StakeCeiling \in Nat /\ MaxLamports \in Nat
  /\ Base \in Nat /\ LamportBalanceDefault \in Nat
  /\ NumPoolValidators * Base \in Nat
  /\ DOMAIN DirectedTargets \subseteq Indices
  /\ \A i \in DOMAIN DirectedTargets : DirectedTargets[i] \in Nat
  /\ HistoryIndex \in [Indices -> Indices] /\ InitialDirected \in Nat
  /\ UnstakeCapBps \in [Categories -> Nat]
  /\ IsFiniteSet(Indices) /\ Cardinality(Indices) = NumPoolValidators
  /\ Indices = 0 .. NumPoolValidators - 1
<1>1. /\ NumPoolValidators \in Nat /\ NumPoolValidators > 0 /\ MinimumDelegation \in Nat
      /\ StakeRent \in Nat /\ StakeCeiling \in Nat /\ MaxLamports \in Nat
      /\ DOMAIN DirectedTargets \subseteq Indices
      /\ \A i \in DOMAIN DirectedTargets : DirectedTargets[i] \in Nat
      /\ HistoryIndex \in [Indices -> Indices] /\ InitialDirected \in Nat
  BY RebalanceAssumption
<1>2. UnstakeCapBps \in [Categories -> Nat]
  <2> DEFINE Bps == 0 .. 10000
  <2>1. UnstakeCapBps \in [Categories -> Bps] /\ Bps \in SUBSET Nat
    BY RebalanceAssumption
  <2> HIDE DEF Bps
  <2> QED BY <2>1
<1>3. Base \in Nat /\ LamportBalanceDefault \in Nat
  BY <1>1 DEF Base, LamportBalanceDefault
<1>4. NumPoolValidators * Base \in Nat
  BY <1>1, <1>3
<1>5. IsFiniteSet(Indices) /\ Cardinality(Indices) = NumPoolValidators
  BY <1>1, FS_Interval DEF Indices
<1> QED BY <1>1, <1>2, <1>3, <1>4, <1>5 DEF Indices

\* Sum adds the values up one after the other.
LEMMA SumIs == ASSUME NEW h PROVE Sum(h) = SumOf(h)
  BY DEF Sum, FoldFunction, FoldFunctionOnSet, MapThenFoldSet, SumOf, SumsOf
-----------------------------------------------------------------------------
(* What a rebalance computes *)

\* Counters by category are functions, however they are written.
LEMMA TotalsFacts ==
  /\ Zero \in TotalsType /\ \A c \in Categories : Zero[c] = 0
  /\ Unstaked(Zero) = 0
  /\ \A a \in TotalsType : DOMAIN a = Categories
  /\ \A a, b \in TotalsType :
       Add(a, b) \in TotalsType /\ \A c \in Categories : Add(a, b)[c] = a[c] + b[c]
  /\ \A x, y, z \in Nat : LET r == [deposit |-> x, instant |-> y, scoring |-> z]
                          IN  /\ r \in TotalsType /\ Unstaked(r) = x + y + z
                              /\ r["deposit"] = x /\ r["instant"] = y /\ r["scoring"] = z
  /\ \A a \in TotalsType : Unstaked(a) \in Nat
<1>1. \A x, y, z \in Nat : LET r == [deposit |-> x, instant |-> y, scoring |-> z]
                           IN  /\ r \in TotalsType /\ Unstaked(r) = x + y + z
                               /\ r["deposit"] = x /\ r["instant"] = y /\ r["scoring"] = z
  <2> SUFFICES ASSUME NEW x \in Nat, NEW y \in Nat, NEW z \in Nat
               PROVE  LET r == [deposit |-> x, instant |-> y, scoring |-> z]
                      IN  /\ r \in TotalsType /\ Unstaked(r) = x + y + z
                          /\ r["deposit"] = x /\ r["instant"] = y /\ r["scoring"] = z
    OBVIOUS
  <2> DEFINE r == [deposit |-> x, instant |-> y, scoring |-> z]
             q == [c \in Categories |-> IF c = "deposit" THEN x ELSE IF c = "instant" THEN y ELSE z]
  <2>1. r = q
    BY DEF Categories
  <2>2. q \in TotalsType
    BY DEF TotalsType
  <2>3. r \in TotalsType
    <3> HIDE DEF r, q
    <3> QED BY <2>1, <2>2
  <2>4. Unstaked(r) = x + y + z /\ r["deposit"] = x /\ r["instant"] = y /\ r["scoring"] = z
    BY DEF Unstaked
  <2> QED BY <2>3, <2>4
<1>2. Zero = [c \in Categories |-> 0]
  BY DEF Categories, Zero
<1>3. Zero \in TotalsType /\ \A c \in Categories : Zero[c] = 0
  BY <1>2 DEF TotalsType
<1>4. Unstaked(Zero) = 0
  BY DEF Unstaked, Zero
<1>5. \A a, b \in TotalsType :
        Add(a, b) \in TotalsType /\ \A c \in Categories : Add(a, b)[c] = a[c] + b[c]
  BY DEF Add, TotalsType
<1>6. \A a \in TotalsType : Unstaked(a) \in Nat
  BY DEF TotalsType, Unstaked, Categories
<1> QED BY <1>1, <1>3, <1>4, <1>5, <1>6 DEF TotalsType

\* The pool, its shares and its caps are numbers.
LEMMA PoolTyped ==
  ASSUME Typed
  PROVE  /\ PoolLamports \in Nat /\ UndirectedPoolLamports \in Nat /\ StakePoolLamports \in Int
         /\ CappedReserve \in Nat /\ CappedReserve <= reserve
         /\ Caps \in [Categories -> Int]
<1>1. Sum(directed_stake_lamports) \in Nat
  BY Numbers, SumNatural, SumIs DEF Typed
<1> DEFINE h == [i \in Indices |->
                   Active(i) + IF transient[i] = 0 THEN 0
                               ELSE StakeRent + (IF transient[i] > 0 THEN transient[i] ELSE -transient[i])]
<1>2. h \in [Indices -> Nat]
  <2>1. \A i \in Indices : stake[i] \in Nat /\ transient[i] \in Int
    BY DEF Typed
  <2>2. StakeRent \in Nat /\ Base \in Nat
    BY Numbers
  <2> QED BY <2>1, <2>2 DEF Active
<1>3. Sum(h) \in Nat
  <2> HIDE DEF h
  <2> QED BY <1>2, Numbers, SumNatural, SumIs
<1>4. PoolLamports \in Nat
  <2>1. PoolLamports = reserve + Sum(h)
    BY DEF PoolLamports
  <2> QED BY <1>3, <2>1 DEF Typed
<1>5. UndirectedPoolLamports \in Nat
  BY <1>1, <1>4 DEF UndirectedPoolLamports, SatSub
<1>6. StakePoolLamports \in Int
  BY <1>5, Numbers DEF StakePoolLamports
<1>7. CappedReserve \in Nat /\ CappedReserve <= reserve
  BY <1>5, Numbers DEF CappedReserve, Lesser, SatSub, Typed
<1>8. Caps \in [Categories -> Int]
  <2>1. \A c \in Categories : (StakePoolLamports * UnstakeCapBps[c]) \div 10000 \in Int
    BY <1>6, Numbers
  <2> QED BY <2>1, Numbers DEF Caps
<1> QED BY <1>4, <1>5, <1>6, <1>7, <1>8

\* What a validator has in its stake account.
LEMMA ActiveTyped == ASSUME NEW i \in Indices, stake \in [Indices -> Nat] PROVE Active(i) \in Nat
<1>1. stake[i] \in Nat
  OBVIOUS
<1>2. Base \in Nat
  BY Numbers
<1> QED BY <1>1, <1>2 DEF Active

\* The directed stake that is left is no more than there is stake, nor is the balance
\* below it.
LEMMA AdjustedTyped ==
  ASSUME Typed, NEW i \in DOMAIN DirectedTargets, NEW held \in Nat
  PROVE  /\ Adjusted(i, held).directed \in Nat /\ Adjusted(i, held).directed <= held
         /\ Adjusted(i, held).balance \in Nat
<1> DEFINE balance  == validator_lamport_balances[i]
           directed == directed_stake_lamports[i]
           lost     == SatSub(balance, held)
           gained   == Lesser(SatSub(DirectedTargets[i], directed), SatSub(held, balance))
           left     == IF lost > directed THEN 0 ELSE directed - lost + gained
<1>1. balance \in Nat /\ directed \in Nat /\ DirectedTargets[i] \in Nat
  BY Numbers DEF Typed
<1>2. Adjusted(i, held).directed = Lesser(left, held) /\ Adjusted(i, held).balance = balance - lost + gained
  BY DEF Adjusted
<1> HIDE DEF balance, directed
<1>3. lost \in Nat /\ lost <= balance /\ gained \in Nat
  BY <1>1 DEF SatSub, Lesser
<1> HIDE DEF lost, gained
<1>4. left \in Nat /\ balance - lost + gained \in Nat
  BY <1>1, <1>3
<1> HIDE DEF left
<1> QED BY <1>2, <1>4 DEF Lesser

\* So are the shares, and what a validator has.
LEMMA ShareTyped ==
  ASSUME Typed, NEW i \in Indices
  PROVE  /\ TargetLamports(i) \in Int /\ UnstakeTarget(i) \in Int
         /\ StakePoolLamports >= 0 => UnstakeTarget(i) >= 0
         /\ CurrentLamports(i) \in Nat /\ CurrentLamports(i) <= stake[i]
         /\ SimulatedLamports(i) \in Nat /\ Missing(i) \in Nat
         /\ SyncedBalance(i) \in Nat
<1>1. /\ delegations[i] \in Nat /\ stake[i] \in Nat /\ directed_stake_lamports[i] \in Nat
      /\ validator_lamport_balances[i] \in Nat /\ Base \in Nat
      /\ StakePoolLamports \in Int
  BY Numbers, PoolTyped DEF Typed
<1>2. TargetLamports(i) \in Int
  BY <1>1 DEF TargetLamports
<1>3. StakePoolLamports >= 0 => TargetLamports(i) >= 0
  BY <1>1 DEF TargetLamports
<1>4. CurrentLamports(i) \in Nat /\ CurrentLamports(i) <= stake[i]
  BY <1>1 DEF CurrentLamports, SatSub
<1>5. SimulatedLamports(i) \in Nat
  <2>1. CASE i \notin DOMAIN DirectedTargets
    BY <1>1, <2>1 DEF SimulatedLamports
  <2>2. CASE i \in DOMAIN DirectedTargets
    <3> DEFINE a == Adjusted(i, Active(i))
    <3>1. Active(i) \in Nat
      BY <1>1 DEF Active
    <3>2. a.directed \in Nat /\ a.balance \in Nat
      BY <2>2, <3>1, AdjustedTyped
    <3>3. SimulatedLamports(i) = SatSub(a.balance, a.directed + Base)
      BY <2>2 DEF SimulatedLamports
    <3> HIDE DEF a
    <3> QED BY <1>1, <3>2, <3>3 DEF SatSub
  <2> QED BY <2>1, <2>2
<1>6. Missing(i) \in Nat
  BY <1>2, <1>5 DEF Missing, SatSub
<1>7. SyncedBalance(i) \in Nat
  BY <1>1 DEF SyncedBalance, Active
<1> QED BY <1>2, <1>3, <1>4, <1>5, <1>6, <1>7 DEF UnstakeTarget

\* simulate_unstake stays within every cap and takes no more than is above the share.
LEMMA UnstakeFacts ==
  ASSUME Typed, NEW i \in Indices, NEW current \in Nat, NEW spent \in TotalsType,
         NEW balance \in Nat
  PROVE  LET a == SimulateUnstake(i, current, spent, balance)
         IN  /\ a \in TotalsType
             /\ \A c \in Categories : a[c] > 0 => spent[c] + a[c] <= Caps[c]
             /\ Unstaked(a) = 0 \/ Unstaked(a) <= current - UnstakeTarget(i)
<1> DEFINE above   == current - UnstakeTarget(i)
           deposit == IF current <= balance THEN 0
                      ELSE Lesser(Lesser(above, current - balance),
                                  SatSub(Caps.deposit, spent.deposit))
           instant == IF i \notin instant_unstake THEN 0
                      ELSE Lesser(above - deposit, SatSub(Caps.instant, spent.instant))
           scoring == Lesser(above - deposit - instant, SatSub(Caps.scoring, spent.scoring))
           a == SimulateUnstake(i, current, spent, balance)
<1>1. UnstakeTarget(i) \in Int
  BY ShareTyped
<1>2. /\ Caps.deposit \in Int /\ Caps.instant \in Int /\ Caps.scoring \in Int
      /\ spent.deposit \in Nat /\ spent.instant \in Nat /\ spent.scoring \in Nat
      /\ \A c \in Categories : c = "deposit" \/ c = "instant" \/ c = "scoring"
  BY PoolTyped DEF Categories, TotalsType
<1>3. CASE above <= 0
  <2>1. a = Zero
    BY <1>3 DEF SimulateUnstake
  <2> QED BY <2>1, TotalsFacts
<1>4. CASE ~(above <= 0)
  <2>1. a = [deposit |-> deposit, instant |-> instant, scoring |-> scoring]
    BY <1>4 DEF SimulateUnstake
  <2>2. above \in Nat
    BY <1>1, <1>4
  <2> HIDE DEF above
  <2>3. deposit \in Nat /\ deposit <= above /\ (deposit > 0 => spent.deposit + deposit <= Caps.deposit)
    BY <1>2, <2>2 DEF Lesser, SatSub
  <2> HIDE DEF deposit
  <2>4. instant \in Nat /\ instant <= above - deposit /\ (instant > 0 => spent.instant + instant <= Caps.instant)
    BY <1>2, <2>2, <2>3 DEF Lesser, SatSub
  <2> HIDE DEF instant
  <2>5. scoring \in Nat /\ scoring <= above - deposit - instant
        /\ (scoring > 0 => spent.scoring + scoring <= Caps.scoring)
    BY <1>2, <2>2, <2>3, <2>4 DEF Lesser, SatSub
  <2> HIDE DEF scoring
  <2>6. /\ a \in TotalsType /\ Unstaked(a) = deposit + instant + scoring
        /\ a["deposit"] = deposit /\ a["instant"] = instant /\ a["scoring"] = scoring
    BY <2>1, <2>3, <2>4, <2>5, TotalsFacts
  <2>7. \A c \in Categories : a[c] > 0 => spent[c] + a[c] <= Caps[c]
    <3> HIDE DEF a
    <3> QED BY <1>2, <2>3, <2>4, <2>5, <2>6
  <2>8. Unstaked(a) <= above
    <3> HIDE DEF a
    <3> QED BY <2>2, <2>3, <2>4, <2>5, <2>6
  <2> QED BY <2>6, <2>7, <2>8 DEF above
<1> QED BY <1>3, <1>4
-----------------------------------------------------------------------------
(* Those that come before: the two folds *)

\* A validator's place in either order is a place; what comes before it are validators.
LEMMA OthersTyped ==
  ASSUME Typed, NEW i \in Indices
  PROVE  /\ \E n \in Nat : DOMAIN WorseThan(i) = 1 .. n
         /\ \A k \in DOMAIN WorseThan(i) : WorseThan(i)[k] \in Indices
         /\ \E n \in Nat : DOMAIN BetterThan(i) = 1 .. n
         /\ \A k \in DOMAIN BetterThan(i) : BetterThan(i)[k] \in Indices
<1> DEFINE N == NumPoolValidators
           raw == sorted_raw_score_indices
           ss == sorted_score_indices
           worst == CHOOSE k \in 1 .. N : raw[k] = i
           place == CHOOSE k \in 1 .. N : ss[k] = i
<1>0. N \in Nat /\ N > 0 /\ i \in 0 .. N - 1
  BY Numbers
<1>1. /\ raw \in [1 .. N -> Indices] /\ \E k \in 1 .. N : raw[k] = i
  BY DEF Typed, Surjection
<1>2. worst \in 1 .. N
  BY <1>1
<1>3. ss \in [1 .. N -> Indices] /\ \E k \in 1 .. N : ss[k] = i
  <2>1. ss = [k \in 1 .. N |-> k - 1]
    BY DEF Typed
  <2>2. \A k \in 1 .. N : k - 1 \in Indices
    BY <1>0, Numbers
  <2>3. i + 1 \in 1 .. N /\ ss[i + 1] = i
    BY <1>0, <2>1
  <2> QED BY <2>1, <2>2, <2>3
<1>4. place \in 1 .. N
  BY <1>3
<1> HIDE DEF worst, place
<1>5. raw \in Seq(Indices) /\ Len(raw) = N /\ ss \in Seq(Indices) /\ Len(ss) = N
  BY <1>0, <1>1, <1>3
<1> DEFINE tail == SubSeq(raw, worst + 1, N)
           front == SubSeq(ss, 1, place - 1)
<1>6. tail \in Seq(Indices) /\ front \in Seq(Indices)
  BY <1>0, <1>2, <1>4, <1>5
<1>7. WorseThan(i) = Reverse(tail) /\ BetterThan(i) = front
  BY DEF WorseThan, BetterThan, worst, place
<1> HIDE DEF tail, front
<1>8. Reverse(tail) = [k \in 1 .. Len(tail) |-> tail[(Len(tail) - k) + 1]] /\ Len(tail) \in Nat
  BY <1>6 DEF Reverse
<1>9. \A k \in 1 .. Len(tail) : tail[(Len(tail) - k) + 1] \in Indices
  <2>1. \A k \in 1 .. Len(tail) : (Len(tail) - k) + 1 \in 1 .. Len(tail)
    BY <1>8
  <2> QED BY <1>6, <2>1
<1>10. DOMAIN WorseThan(i) = 1 .. Len(tail) /\ \A k \in DOMAIN WorseThan(i) : WorseThan(i)[k] \in Indices
  BY <1>7, <1>8, <1>9
<1>11. DOMAIN front = 1 .. Len(front) /\ Len(front) \in Nat /\ \A k \in 1 .. Len(front) : front[k] \in Indices
  BY <1>6
<1> QED BY <1>7, <1>8, <1>10, <1>11

\* The last element of a non-empty part of a sequence is in it.
LEMMA LastIn ==
  ASSUME NEW n \in Nat
  PROVE  IsFiniteSet(1 .. n) /\ \A s \in SUBSET (1 .. n) : s # {} => Max(s) \in s
<1>1. IsFiniteSet(1 .. n)
  BY FS_Interval
<1>2. ASSUME NEW s \in SUBSET (1 .. n), s # {} PROVE Max(s) \in s
  <2>1. s \in SUBSET (0 .. n)
    OBVIOUS
  <2> QED BY <1>2, <2>1, MaxBelow
<1> QED BY <1>1, <1>2

\* decrease_stake_calculation sets aside what the validator j will lose.
Spend(spent, j) ==
  IF transient[j] # 0 THEN spent
  ELSE Add(spent, SimulateUnstake(j, SimulatedLamports(j), spent, validator_lamport_balances[j]))
Spent(i) == FoldLeft(Spend, totals, WorseThan(i))

\* What is set aside only adds to what the cycle has unstaked.
LEMMA SpentGrows ==
  ASSUME Typed, NEW i \in Indices
  PROVE  Spent(i) \in TotalsType /\ \A c \in Categories : totals[c] <= Spent(i)[c]
<1> DEFINE ws == WorseThan(i)
           D == DOMAIN ws
           T == {x \in TotalsType : \A c \in Categories : totals[c] <= x[c]}
           pick == [s \in SUBSET D |-> Max(s)]
           g == [p \in T \X D |-> Spend(p[1], ws[p[2]])]
           Eq(f) == f = [s \in SUBSET D |->
                           IF s = {} THEN totals ELSE Spend(f[s \ {Max(s)}], ws[Max(s)])]
           iter == CHOOSE f : Eq(f)
<1>1. Spent(i) = iter[D]
  BY DEF Spent, FoldLeft, MapThenFoldSet
<1>2. PICK n \in Nat : D = 1 .. n
  BY OthersTyped
<1>3. \A k \in D : ws[k] \in Indices
  BY OthersTyped
<1>4. IsFiniteSet(D) /\ \A s \in SUBSET D : s # {} => Max(s) \in s /\ pick[s] = Max(s) /\ pick[s] \in s
  BY <1>2, LastIn
<1> HIDE DEF ws
<1>5. ASSUME NEW x \in T, NEW j \in Indices PROVE Spend(x, j) \in T
  <2> DEFINE a == SimulateUnstake(j, SimulatedLamports(j), x, validator_lamport_balances[j])
  <2>1. x \in TotalsType /\ totals \in TotalsType /\ \A c \in Categories : totals[c] <= x[c]
    BY DEF Typed
  <2>2. SimulatedLamports(j) \in Nat /\ validator_lamport_balances[j] \in Nat
    BY ShareTyped DEF Typed
  <2>3. a \in TotalsType
    BY <2>1, <2>2, UnstakeFacts
  <2> HIDE DEF a
  <2>4. Add(x, a) \in TotalsType /\ \A c \in Categories : Add(x, a)[c] = x[c] + a[c]
    BY <2>1, <2>3, TotalsFacts
  <2>5. \A c \in Categories : x[c] \in Nat /\ a[c] \in Nat /\ totals[c] \in Nat
    BY <2>1, <2>3 DEF TotalsType
  <2>6. \A c \in Categories : totals[c] <= Add(x, a)[c]
    BY <2>1, <2>4, <2>5
  <2>7. Spend(x, j) = x \/ Spend(x, j) = Add(x, a)
    BY DEF Spend, a
  <2> QED BY <2>1, <2>4, <2>6, <2>7
<1>6. totals \in T
  BY DEF Typed, TotalsType
<1> HIDE DEF T
<1>7. g \in [T \X D -> T]
  BY <1>3, <1>5
<1>8. \E f : Eq(f)
  <2>1. PICK f \in [SUBSET D -> T] : Folds(f, D, totals, pick, g)
    <3>1. \A s \in SUBSET D : s # {} => pick[s] \in s
      BY <1>4
    <3> HIDE DEF g, pick, D
    <3> QED BY <1>4, <1>6, <1>7, <3>1, SubsetRecursion
  <2>2. ASSUME NEW s \in SUBSET D, s # {}
        PROVE  g[<<f[s \ {pick[s]}], pick[s]>>] = Spend(f[s \ {Max(s)}], ws[Max(s)])
    <3>1. pick[s] = Max(s) /\ Max(s) \in D /\ f[s \ {Max(s)}] \in T
      BY <1>4, <2>1, <2>2
    <3> HIDE DEF pick
    <3> QED BY <3>1
  <2>3. Eq(f)
    <3> HIDE DEF g, pick, D
    <3> QED BY <2>1, <2>2 DEF Folds
  <2> HIDE DEF Eq
  <2> QED BY <2>3
<1>9. Eq(iter)
  <2> HIDE DEF Eq
  <2> QED BY <1>8
<1>10. iter[{}] = totals /\ \A s \in SUBSET D : s # {} => iter[s] = Spend(iter[s \ {Max(s)}], ws[Max(s)])
  <2> HIDE DEF iter
  <2> QED BY <1>9
<1>11. \A s \in SUBSET D : iter[s] \in T
  <2>1. \A s \in SUBSET D : s # {} /\ iter[s \ {pick[s]}] \in T => iter[s] \in T
    <3> HIDE DEF iter
    <3>1. ASSUME NEW s \in SUBSET D, s # {}, iter[s \ {pick[s]}] \in T PROVE iter[s] \in T
      <4>1. pick[s] = Max(s) /\ ws[Max(s)] \in Indices
        BY <1>3, <1>4, <3>1
      <4> HIDE DEF pick
      <4> QED BY <1>5, <1>10, <3>1, <4>1
    <3> QED BY <3>1
  <2>2. iter[{}] \in T
    <3> HIDE DEF iter
    <3> QED BY <1>6, <1>10
  <2>3. \A s \in SUBSET D : s # {} => pick[s] \in s
    BY <1>4
  <2> HIDE DEF iter, pick, D
  <2> QED BY <1>4, <2>1, <2>2, <2>3, FoldStays
<1>12. Spent(i) \in T
  <2> HIDE DEF iter
  <2> QED BY <1>1, <1>11
<1> QED BY <1>12 DEF T

\* increase_stake_calculation sets aside what the validator j lacks.
Take(left, j) == left - Lesser(Missing(j), left)
Left(i) == FoldLeft(Take, ReserveLamports, BetterThan(i))

\* What is left is no more than the reserve had to give.
LEMMA LeftShrinks ==
  ASSUME Typed, NEW i \in Indices, ReserveLamports \in Nat
  PROVE  Left(i) \in Nat /\ Left(i) <= ReserveLamports
<1> DEFINE bs == BetterThan(i)
           D == DOMAIN bs
           T == {x \in Nat : x <= ReserveLamports}
           pick == [s \in SUBSET D |-> Max(s)]
           g == [p \in T \X D |-> Take(p[1], bs[p[2]])]
           Eq(f) == f = [s \in SUBSET D |->
                           IF s = {} THEN ReserveLamports ELSE Take(f[s \ {Max(s)}], bs[Max(s)])]
           iter == CHOOSE f : Eq(f)
<1>1. Left(i) = iter[D]
  BY DEF Left, FoldLeft, MapThenFoldSet
<1>2. PICK n \in Nat : D = 1 .. n
  BY OthersTyped
<1>3. \A k \in D : bs[k] \in Indices
  BY OthersTyped
<1>4. IsFiniteSet(D) /\ \A s \in SUBSET D : s # {} => Max(s) \in s /\ pick[s] = Max(s) /\ pick[s] \in s
  BY <1>2, LastIn
<1> HIDE DEF bs
<1>5. ASSUME NEW x \in T, NEW j \in Indices PROVE Take(x, j) \in T
  <2>1. Missing(j) \in Nat
    BY ShareTyped
  <2> QED BY <2>1 DEF Take, Lesser
<1>6. ReserveLamports \in T
  OBVIOUS
<1> HIDE DEF T
<1>7. g \in [T \X D -> T]
  BY <1>3, <1>5
<1>8. \E f : Eq(f)
  <2>1. PICK f \in [SUBSET D -> T] : Folds(f, D, ReserveLamports, pick, g)
    <3>1. \A s \in SUBSET D : s # {} => pick[s] \in s
      BY <1>4
    <3> HIDE DEF g, pick, D
    <3> QED BY <1>4, <1>6, <1>7, <3>1, SubsetRecursion
  <2>2. ASSUME NEW s \in SUBSET D, s # {}
        PROVE  g[<<f[s \ {pick[s]}], pick[s]>>] = Take(f[s \ {Max(s)}], bs[Max(s)])
    <3>1. pick[s] = Max(s) /\ Max(s) \in D /\ f[s \ {Max(s)}] \in T
      BY <1>4, <2>1, <2>2
    <3> HIDE DEF pick
    <3> QED BY <3>1
  <2>3. Eq(f)
    <3> HIDE DEF g, pick, D
    <3> QED BY <2>1, <2>2 DEF Folds
  <2> HIDE DEF Eq
  <2> QED BY <2>3
<1>9. Eq(iter)
  <2> HIDE DEF Eq
  <2> QED BY <1>8
<1>10. iter[{}] = ReserveLamports /\ \A s \in SUBSET D : s # {} => iter[s] = Take(iter[s \ {Max(s)}], bs[Max(s)])
  <2> HIDE DEF iter
  <2> QED BY <1>9
<1>11. \A s \in SUBSET D : iter[s] \in T
  <2>1. \A s \in SUBSET D : s # {} /\ iter[s \ {pick[s]}] \in T => iter[s] \in T
    <3> HIDE DEF iter
    <3>1. ASSUME NEW s \in SUBSET D, s # {}, iter[s \ {pick[s]}] \in T PROVE iter[s] \in T
      <4>1. pick[s] = Max(s) /\ bs[Max(s)] \in Indices
        BY <1>3, <1>4, <3>1
      <4> HIDE DEF pick
      <4> QED BY <1>5, <1>10, <3>1, <4>1
    <3> QED BY <3>1
  <2>2. iter[{}] \in T
    <3> HIDE DEF iter
    <3> QED BY <1>6, <1>10
  <2>3. \A s \in SUBSET D : s # {} => pick[s] \in s
    BY <1>4
  <2> HIDE DEF iter, pick, D
  <2> QED BY <1>4, <2>1, <2>2, <2>3, FoldStays
<1>12. Left(i) \in T
  <2> HIDE DEF iter
  <2> QED BY <1>1, <1>11
<1> QED BY <1>12 DEF T
-----------------------------------------------------------------------------
(* One rebalance *)

\* What is unstaked at once stays within what every cap has left, and within what the
\* validator has above its share.
LEMMA DecreaseFacts ==
  ASSUME Typed, NEW i \in Indices
  PROVE  LET a == DecreaseStakeCalculation(i, SyncedBalance(i))
         IN  /\ a \in TotalsType
             /\ \A c \in Categories : a[c] > 0 => totals[c] + a[c] <= Caps[c]
             /\ Unstaked(a) \in Nat
             /\ Unstaked(a) = 0 \/ Unstaked(a) <= CurrentLamports(i) - UnstakeTarget(i)
<1> DEFINE s == SimulateUnstake(i, CurrentLamports(i), Spent(i), SyncedBalance(i))
           a == DecreaseStakeCalculation(i, SyncedBalance(i))
<1>1. a \in {Zero, s}
  BY DEF DecreaseStakeCalculation, Spent, Spend
<1>2. Spent(i) \in TotalsType /\ \A c \in Categories : totals[c] <= Spent(i)[c]
  BY SpentGrows
<1>3. CurrentLamports(i) \in Nat /\ SyncedBalance(i) \in Nat
  BY ShareTyped
<1>4. /\ s \in TotalsType
      /\ \A c \in Categories : s[c] > 0 => Spent(i)[c] + s[c] <= Caps[c]
      /\ Unstaked(s) = 0 \/ Unstaked(s) <= CurrentLamports(i) - UnstakeTarget(i)
  BY <1>2, <1>3, UnstakeFacts
<1> HIDE DEF s, a
<1>5. \A c \in Categories : /\ s[c] \in Nat /\ Spent(i)[c] \in Nat /\ totals[c] \in Nat
                            /\ Caps[c] \in Int
  BY <1>2, <1>4, PoolTyped DEF TotalsType, Typed
<1>6. \A c \in Categories : s[c] > 0 => totals[c] + s[c] <= Caps[c]
  BY <1>2, <1>4, <1>5
<1>7. /\ a \in TotalsType
      /\ \A c \in Categories : a[c] > 0 => totals[c] + a[c] <= Caps[c]
      /\ Unstaked(a) \in Nat
      /\ Unstaked(a) = 0 \/ Unstaked(a) <= CurrentLamports(i) - UnstakeTarget(i)
  <2>1. CASE a = Zero
    BY <2>1, TotalsFacts
  <2>2. CASE a = s
    BY <2>2, <1>4, <1>6, TotalsFacts
  <2> QED BY <1>1, <2>1, <2>2
<1> QED BY <1>7 DEF a

\* Accounts that may still be created, the next one included, and their rent.
LEMMA RentFacts ==
  ASSUME Typed, NEW i \in Indices, i \notin progress
  PROVE  /\ Cardinality(progress) \in Nat /\ Cardinality(progress) <= NumPoolValidators - 1
         /\ Cardinality(progress \cup {i}) = Cardinality(progress) + 1
         /\ StakeRent * (NumPoolValidators + 1 - Cardinality(progress)) \in Nat
         /\ 2 * StakeRent <= StakeRent * (NumPoolValidators + 1 - Cardinality(progress))
         /\ StakeRent * (NumPoolValidators + 1 - Cardinality(progress \cup {i}))
              = StakeRent * (NumPoolValidators + 1 - Cardinality(progress)) - StakeRent
<1>1. progress \in SUBSET Indices /\ IsFiniteSet(progress) /\ progress # Indices
  BY Numbers, FS_Subset DEF Typed
<1>2. Cardinality(progress) \in Nat /\ Cardinality(progress) <= NumPoolValidators - 1
  <2>1. IsFiniteSet(Indices) /\ Cardinality(Indices) = NumPoolValidators /\ NumPoolValidators \in Nat
    BY Numbers
  <2>2. Cardinality(progress) \in Nat
    BY <1>1, FS_CardinalityType
  <2>3. /\ Cardinality(progress) <= Cardinality(Indices)
        /\ Cardinality(Indices) = Cardinality(progress) => Indices = progress
    BY <1>1, <2>1, FS_Subset
  <2> QED BY <1>1, <2>1, <2>2, <2>3
<1>3. Cardinality(progress \cup {i}) = Cardinality(progress) + 1
  BY <1>1, FS_AddElement
<1>4. ASSUME NEW m \in Nat, m >= 2
      PROVE  /\ StakeRent * m \in Nat /\ 2 * StakeRent <= StakeRent * m
             /\ StakeRent * (m - 1) = StakeRent * m - StakeRent
  <2>1. StakeRent \in Nat
    BY Numbers
  <2>2. StakeRent * m = StakeRent * (m - 2) + 2 * StakeRent
    BY <2>1
  <2>3. StakeRent * (m - 2) \in Nat
    BY <2>1, <1>4
  <2> QED BY <2>1, <2>2, <2>3
<1> DEFINE m == NumPoolValidators + 1 - Cardinality(progress)
<1>5. m \in Nat /\ m >= 2 /\ m - 1 = NumPoolValidators + 1 - Cardinality(progress \cup {i})
  <2>1. NumPoolValidators \in Nat
    BY Numbers
  <2> QED BY <1>2, <1>3, <2>1
<1>6. /\ StakeRent * m \in Nat /\ 2 * StakeRent <= StakeRent * m
      /\ StakeRent * (m - 1) = StakeRent * m - StakeRent
  <2> HIDE DEF m
  <2> QED BY <1>4, <1>5
<1> QED BY <1>2, <1>3, <1>5, <1>6

\* What the reserve can give, after the rent of all validators still to come.
LEMMA IncreaseFacts ==
  ASSUME Typed, NEW i \in Indices, i \notin progress
  PROVE  LET a == IncreaseStakeCalculation(i)
         IN  /\ a \in Nat
             /\ a > 0 => /\ a <= CappedReserve
                         /\ a + StakeRent * (NumPoolValidators + 1 - Cardinality(progress)) <= reserve
<1> DEFINE rent == StakeRent * (NumPoolValidators + 1 - Cardinality(progress))
           a == IncreaseStakeCalculation(i)
<1>1. rent \in Nat
  BY RentFacts
<1>2. CappedReserve \in Nat /\ CappedReserve <= reserve /\ reserve \in Nat
  BY PoolTyped DEF Typed
<1>3. ReserveLamports = SatSub(CappedReserve, rent)
  BY DEF ReserveLamports
<1> HIDE DEF rent
<1>4. ReserveLamports \in Nat /\ (ReserveLamports > 0 => ReserveLamports = CappedReserve - rent)
  BY <1>1, <1>2, <1>3 DEF SatSub
<1>5. Left(i) \in Nat /\ Left(i) <= ReserveLamports
  BY <1>4, LeftShrinks
<1>6. Missing(i) \in Nat
  BY ShareTyped
<1>7. a \in {0, Lesser(Missing(i), Left(i))}
  BY DEF IncreaseStakeCalculation, Left, Take
<1> HIDE DEF a
<1>8. a \in Nat /\ a <= ReserveLamports
  BY <1>4, <1>5, <1>6, <1>7 DEF Lesser
<1> QED BY <1>1, <1>2, <1>4, <1>8 DEF a, rent

\* What a rebalance moves: up, within the reserve; or down, within the caps.
LEMMA OutcomeFacts ==
  ASSUME Typed, NEW i \in Indices, i \notin progress
  PROVE  LET o == Outcome(i)
         IN  /\ o.balance = SyncedBalance(i) /\ o.moved \in Int
             /\ o.down \in TotalsType
             /\ \A c \in Categories : o.down[c] > 0 => totals[c] + o.down[c] <= Caps[c]
             /\ o.moved > 0 =>
                  /\ o.moved <= CappedReserve
                  /\ o.moved + StakeRent * (NumPoolValidators + 1 - Cardinality(progress)) <= reserve
             /\ o.moved < 0 => -o.moved <= CurrentLamports(i) - UnstakeTarget(i)
<1> DEFINE lowers == TargetLamports(i) < CurrentLamports(i) \/ i \in instant_unstake
           down == IF lowers THEN DecreaseStakeCalculation(i, SyncedBalance(i)) ELSE Zero
           up == IF lowers \/ CurrentLamports(i) >= TargetLamports(i) THEN 0
                 ELSE IncreaseStakeCalculation(i)
           o == Outcome(i)
<1>1. o.balance = SyncedBalance(i) /\ o.down = down /\ o.moved = up - Unstaked(down)
  BY DEF Outcome
<1>2. /\ down \in TotalsType
      /\ \A c \in Categories : down[c] > 0 => totals[c] + down[c] <= Caps[c]
      /\ Unstaked(down) \in Nat
      /\ Unstaked(down) = 0 \/ Unstaked(down) <= CurrentLamports(i) - UnstakeTarget(i)
  <2>1. CASE lowers
    <3>1. down = DecreaseStakeCalculation(i, SyncedBalance(i))
      BY <2>1
    <3> HIDE DEF down
    <3> QED BY <3>1, DecreaseFacts
  <2>2. CASE ~lowers
    <3>1. down = Zero
      BY <2>2
    <3> HIDE DEF down
    <3> QED BY <3>1, TotalsFacts
  <2> QED BY <2>1, <2>2
<1>3. up \in Nat /\ (up > 0 => /\ Unstaked(down) = 0 /\ up <= CappedReserve
                               /\ up + StakeRent * (NumPoolValidators + 1 - Cardinality(progress)) <= reserve)
  <2>1. CASE up = 0
    BY <2>1
  <2>2. CASE up # 0
    <3>1. down = Zero /\ up = IncreaseStakeCalculation(i)
      BY <2>2
    <3> HIDE DEF up, down
    <3> QED BY <3>1, TotalsFacts, IncreaseFacts
  <2> QED BY <2>1, <2>2
<1> HIDE DEF o, up, down
<1>4. CurrentLamports(i) - UnstakeTarget(i) \in Int
  BY ShareTyped
<1>5. o.moved \in Int /\ (o.moved > 0 => o.moved <= up /\ up > 0 /\ o.moved = up)
      /\ (o.moved < 0 => -o.moved <= CurrentLamports(i) - UnstakeTarget(i))
  BY <1>1, <1>2, <1>3, <1>4
<1> QED BY <1>1, <1>2, <1>3, <1>5 DEF o
-----------------------------------------------------------------------------
(* The steps *)

\* Passing on a share leaves one sharer less, and each share at most one larger.
LEMMA RedistributeFacts ==
  ASSUME Typed, NotOverAllocated, NEW i \in Indices, NEW unstaked
  PROVE  LET d == Redistribute(i, unstaked)
             shared == {j \in Indices : d[j] # 0}
         IN  d \in [Indices -> Nat] /\ \A j \in shared : d[j] >= Cardinality(shared)
<1> DEFINE d == Redistribute(i, unstaked)
           old == {j \in Indices : delegations[j] # 0}
           shared == {j \in Indices : d[j] # 0}
<1>0. /\ delegations \in [Indices -> Nat] /\ \A j \in old : delegations[j] >= Cardinality(old)
      /\ IsFiniteSet(old) /\ Cardinality(old) \in Nat
  <2>1. old \in SUBSET Indices
    OBVIOUS
  <2>2. IsFiniteSet(old)
    BY <2>1, Numbers, FS_Subset
  <2> QED BY <2>2, FS_CardinalityType DEF Typed, NotOverAllocated
<1>1. CASE d = delegations
  BY <1>0, <1>1
<1>2. CASE d # delegations
  <2>1. /\ delegations[i] # 0
        /\ d = [j \in Indices |-> IF j = i \/ delegations[j] = 0 THEN 0
                                  ELSE IF delegations[j] = 1 THEN 1 ELSE delegations[j] - 1]
    BY <1>2 DEF Redistribute
  <2>2. d \in [Indices -> Nat]
    BY <1>0, <2>1
  <2>3. i \in old
    BY <2>1
  <2>4. shared = old \ {i}
    BY <1>0, <2>1
  <2>5. Cardinality(shared) = Cardinality(old) - 1
    <3> HIDE DEF shared, old
    <3> QED BY <1>0, <2>3, <2>4, FS_RemoveElement
  <2>6. ASSUME NEW j \in shared PROVE d[j] >= Cardinality(shared)
    <3>1. j \in old /\ j \in Indices /\ delegations[j] \in Nat /\ delegations[j] >= Cardinality(old)
      BY <1>0, <2>4
    <3>2. d[j] >= delegations[j] - 1 /\ d[j] \in Nat
      BY <2>1, <2>2, <3>1
    <3> HIDE DEF d, shared, old
    <3> QED BY <1>0, <2>5, <3>1, <3>2
  <2> QED BY <2>2, <2>6
<1> QED BY <1>1, <1>2

\* A move that the stake pool accepts leaves a reserve, and its own rent at least.
LEMMA MoveFacts ==
  ASSUME Typed, NEW i \in Indices, NEW moved \in Int, Funded(moved), MoveStake(i, moved),
         moved < 0 => stake[i] + moved >= 0
  PROVE  /\ stake' \in [Indices -> Nat]
         /\ transient' \in [Indices -> Int] /\ reserve' \in Nat
         /\ reserve' >= reserve - StakeRent - (IF moved > 0 THEN moved ELSE 0)
         /\ moved = 0 => reserve' = reserve
<1>1. /\ StakeRent \in Nat /\ reserve \in Nat /\ stake \in [Indices -> Nat]
      /\ transient \in [Indices -> Int]
  BY Numbers DEF Typed
<1>2. stake' = [stake EXCEPT ![i] = IF moved < 0 THEN stake[i] + moved ELSE stake[i]]
  BY DEF MoveStake
<1>3. moved < 0 => stake[i] + moved \in Nat
  BY <1>1
<1>4. stake' \in [Indices -> Nat]
  BY <1>1, <1>2, <1>3
<1>6. transient' \in [Indices -> Int]
  BY <1>1 DEF MoveStake
<1>7. reserve' = reserve - (IF moved > 0 THEN moved ELSE 0)
                         - (IF moved # 0 /\ transient[i] = 0 THEN StakeRent ELSE 0)
  BY DEF MoveStake
<1>8. moved # 0 => reserve >= 2 * StakeRent + (IF moved > 0 THEN moved ELSE 0)
  BY DEF Funded
<1>9. /\ reserve' \in Nat /\ reserve' >= reserve - StakeRent - (IF moved > 0 THEN moved ELSE 0)
      /\ moved = 0 => reserve' = reserve
  BY <1>1, <1>7, <1>8
<1> QED BY <1>4, <1>6, <1>9

\* One validator is rebalanced: its totals, its share, its rent.
LEMMA RebalanceStep ==
  ASSUME RebalanceInv, NEW i \in Indices, Rebalance(i)
  PROVE  RebalanceInv'
<1> DEFINE o == Outcome(i)
<1>0. Typed /\ NotOverAllocated /\ RentCovered
  BY DEF RebalanceInv
<1>1. /\ tag = "Rebalance" /\ i \notin progress /\ StakePoolLamports >= 0 /\ Funded(o.moved)
      /\ validator_lamport_balances' = [validator_lamport_balances EXCEPT ![i] =
           IF o.balance = LamportBalanceDefault THEN o.balance
           ELSE IF o.moved > 0 THEN o.balance + o.moved ELSE SatSub(o.balance, -o.moved)]
      /\ totals' = Add(totals, o.down)
      /\ delegations' = Redistribute(i, o.down)
      /\ MoveStake(i, o.moved)
      /\ progress' = progress \cup {i}
      /\ plan' = [plan EXCEPT !.holds = @ /\ delegations' = delegations]
      /\ UNCHANGED <<instant_unstake, moves, sorted_score_indices, sorted_raw_score_indices,
                     directed_stake_lamports>>
  BY DEF Rebalance, fixed
<1>2. /\ o.balance \in Nat /\ o.moved \in Int /\ o.down \in TotalsType
      /\ o.moved > 0 => o.moved + StakeRent * (NumPoolValidators + 1 - Cardinality(progress)) <= reserve
      /\ o.moved < 0 => -o.moved <= CurrentLamports(i) - UnstakeTarget(i)
  BY <1>0, <1>1, OutcomeFacts, ShareTyped
<1> HIDE DEF o
<1>3. o.moved < 0 => stake[i] + o.moved >= 0
  <2>1. /\ UnstakeTarget(i) \in Int /\ UnstakeTarget(i) >= 0
        /\ CurrentLamports(i) \in Nat /\ CurrentLamports(i) <= stake[i] /\ stake[i] \in Nat
    BY <1>0, <1>1, ShareTyped DEF Typed
  <2> QED BY <1>2, <2>1
<1>4. /\ stake' \in [Indices -> Nat]
      /\ transient' \in [Indices -> Int] /\ reserve' \in Nat
      /\ reserve' >= reserve - StakeRent - (IF o.moved > 0 THEN o.moved ELSE 0)
      /\ o.moved = 0 => reserve' = reserve
  BY <1>0, <1>1, <1>2, <1>3, MoveFacts
<1>5. delegations' \in [Indices -> Nat] /\ NotOverAllocated'
  BY <1>0, <1>1, RedistributeFacts DEF NotOverAllocated
<1>6. validator_lamport_balances' \in [Indices -> Nat]
  <2>1. SatSub(o.balance, -o.moved) \in Nat /\ (o.moved > 0 => o.balance + o.moved \in Nat)
    BY <1>2 DEF SatSub
  <2> QED BY <1>0, <1>1, <1>2, <2>1 DEF Typed
<1>7. totals' \in TotalsType
  BY <1>0, <1>1, <1>2, TotalsFacts DEF Typed
<1>8. progress' \in SUBSET Indices /\ instant_unstake' \in SUBSET Indices
  BY <1>0, <1>1 DEF Typed
<1>9. DOMAIN plan' = PlanFields /\ plan'.covered = plan.covered
  BY <1>0, <1>1 DEF Typed, PlanFields
<1>10. Typed'
  BY <1>0, <1>1, <1>4, <1>5, <1>6, <1>7, <1>8, <1>9 DEF Typed
<1>11. RentCovered'
  <2> SUFFICES ASSUME plan.covered
               PROVE  reserve' >= StakeRent * (NumPoolValidators + 1 - Cardinality(progress \cup {i}))
    BY <1>1, <1>9 DEF RentCovered
  <2> DEFINE rent == StakeRent * (NumPoolValidators + 1 - Cardinality(progress))
             next == StakeRent * (NumPoolValidators + 1 - Cardinality(progress \cup {i}))
  <2>1. rent \in Nat /\ next = rent - StakeRent /\ StakeRent \in Nat
    BY <1>0, <1>1, RentFacts, Numbers
  <2>2. reserve >= rent /\ reserve \in Nat /\ reserve' \in Nat
    BY <1>0, <1>1, <1>4 DEF RentCovered, Typed
  <2>3. o.moved > 0 => o.moved + rent <= reserve
    BY <1>2
  <2>4. next <= reserve'
    <3> HIDE DEF rent, next
    <3> QED BY <1>2, <1>4, <2>1, <2>2, <2>3
  <2> QED BY <2>1, <2>2, <2>4
<1> QED BY <1>5, <1>10, <1>11 DEF RebalanceInv

\* The shares of a new cycle are as many as there are sharers.
LEMMA SharesFacts ==
  ASSUME sorted_score_indices = [k \in 1 .. NumPoolValidators |-> k - 1],
         NEW k \in 1 .. NumPoolValidators
  PROVE  LET d == Shares(k)
             shared == {j \in Indices : d[j] # 0}
         IN  d \in [Indices -> Nat] /\ \A j \in shared : d[j] >= Cardinality(shared)
<1> DEFINE d == Shares(k)
           shared == {j \in Indices : d[j] # 0}
<1>0. NumPoolValidators \in Nat /\ Indices = 0 .. NumPoolValidators - 1 /\ k \in Nat /\ k > 0
  BY Numbers
<1>1. d = [i \in Indices |-> IF \E n \in 1 .. k : sorted_score_indices[n] = i THEN k ELSE 0]
  BY DEF Shares
<1>2. ASSUME NEW i \in Indices PROVE (\E n \in 1 .. k : sorted_score_indices[n] = i) <=> i < k
  <2>1. \A n \in 1 .. k : n \in 1 .. NumPoolValidators /\ sorted_score_indices[n] = n - 1
    BY <1>0
  <2>2. CASE i < k
    <3>1. i + 1 \in 1 .. k /\ (i + 1) - 1 = i
      BY <1>0, <2>2
    <3>2. sorted_score_indices[i + 1] = i
      BY <2>1, <3>1
    <3> QED BY <2>2, <3>1, <3>2
  <2>3. CASE ~(i < k)
    <3>1. \A n \in 1 .. k : n - 1 # i
      BY <1>0, <2>3
    <3> QED BY <2>1, <2>3, <3>1
  <2> QED BY <2>2, <2>3
<1>3. \A i \in Indices : d[i] = IF i < k THEN k ELSE 0
  BY <1>1, <1>2
<1>4. shared = 0 .. k - 1
  BY <1>0, <1>3
<1>5. Cardinality(shared) = k
  <2>1. Cardinality(0 .. k - 1) = k
    BY <1>0, FS_Interval
  <2> HIDE DEF shared
  <2> QED BY <1>4, <2>1
<1>6. d \in [Indices -> Nat]
  BY <1>0, <1>1
<1>7. \A j \in shared : d[j] >= Cardinality(shared)
  <2>1. \A j \in shared : d[j] = k
    BY <1>0, <1>3
  <2> HIDE DEF shared, d
  <2> QED BY <1>0, <1>5, <2>1
<1> QED BY <1>6, <1>7

\* Steps of the steward that move nothing.
LEMMA StewardSteps ==
  ASSUME RebalanceInv,
         \/ \E k \in 1 .. NumPoolValidators : NewCycle(k)
         \/ \E found \in InstantUnstakes : ComputeInstantUnstake(found)
         \/ StartRebalance
         \/ \E i \in Indices : RebalanceTransient(i)
         \/ UNCHANGED vars
  PROVE  RebalanceInv'
<1>0. Typed /\ NotOverAllocated /\ RentCovered
  BY DEF RebalanceInv
<1>1. /\ UNCHANGED <<moves, sorted_score_indices, sorted_raw_score_indices,
                     validator_lamport_balances, directed_stake_lamports, stake, transient,
                     reserve>>
  BY DEF NewCycle, ComputeInstantUnstake, StartRebalance, RebalanceTransient, vars, fixed
<1>2. CASE \E k \in 1 .. NumPoolValidators : NewCycle(k)
  <2>1. PICK k \in 1 .. NumPoolValidators : NewCycle(k)
    BY <1>2
  <2>2. /\ tag' = "Idle" /\ totals' = Zero /\ instant_unstake' = {} /\ delegations' = Shares(k)
        /\ UNCHANGED <<progress, plan>>
    BY <2>1 DEF NewCycle
  <2>3. delegations' \in [Indices -> Nat] /\ NotOverAllocated'
    BY <1>0, <2>2, SharesFacts DEF Typed, NotOverAllocated
  <2>4. totals' \in TotalsType
    BY <2>2, TotalsFacts
  <2>5. Typed'
    BY <1>0, <1>1, <2>2, <2>3, <2>4 DEF Typed
  <2> QED BY <2>2, <2>3, <2>5 DEF RebalanceInv, RentCovered
<1>3. CASE \E found \in InstantUnstakes : ComputeInstantUnstake(found)
  <2>1. /\ tag' = "ComputeInstantUnstake" /\ instant_unstake' \in InstantUnstakes
        /\ UNCHANGED <<progress, delegations, totals, plan>>
    BY <1>3 DEF ComputeInstantUnstake
  <2>2. instant_unstake' \in SUBSET Indices
    BY <2>1, RebalanceAssumption
  <2>3. Typed'
    BY <1>0, <1>1, <2>1, <2>2 DEF Typed
  <2> QED BY <1>0, <2>1, <2>3 DEF RebalanceInv, RentCovered, NotOverAllocated
<1>4. CASE StartRebalance
  <2>1. /\ tag' = "Rebalance" /\ progress' = {} /\ DOMAIN plan' = PlanFields
        /\ plan'.covered = (reserve >= StakeRent * (NumPoolValidators + 1))
        /\ UNCHANGED <<instant_unstake, delegations, totals>>
    BY <1>4 DEF StartRebalance, PlanFields
  <2>2. Typed'
    BY <1>0, <1>1, <2>1 DEF Typed
  <2>3. RentCovered'
    <3>1. Cardinality(progress') = 0
      BY <2>1, FS_EmptySet
    <3>2. NumPoolValidators + 1 - 0 = NumPoolValidators + 1
      BY Numbers
    <3>3. plan'.covered => reserve >= StakeRent * (NumPoolValidators + 1)
      BY <2>1
    <3> QED BY <1>1, <3>1, <3>2, <3>3 DEF RentCovered
  <2> QED BY <1>0, <2>1, <2>2, <2>3 DEF RebalanceInv, NotOverAllocated
<1>5. CASE \E i \in Indices : RebalanceTransient(i)
  <2>1. PICK i \in Indices : RebalanceTransient(i)
    BY <1>5
  <2>2. /\ tag = "Rebalance" /\ i \notin progress /\ progress' = progress \cup {i}
        /\ UNCHANGED <<instant_unstake, delegations, totals, plan>>
    BY <2>1 DEF RebalanceTransient
  <2>3. Typed'
    BY <1>0, <1>1, <2>2 DEF Typed
  <2>4. RentCovered'
    <3> SUFFICES ASSUME plan.covered
                 PROVE  reserve >= StakeRent * (NumPoolValidators + 1 - Cardinality(progress \cup {i}))
      BY <1>1, <2>2 DEF RentCovered
    <3> DEFINE rent == StakeRent * (NumPoolValidators + 1 - Cardinality(progress))
               next == StakeRent * (NumPoolValidators + 1 - Cardinality(progress \cup {i}))
    <3>1. rent \in Nat /\ next = rent - StakeRent /\ StakeRent \in Nat
      BY <1>0, <2>2, RentFacts, Numbers
    <3>2. reserve >= rent /\ reserve \in Nat
      BY <1>0, <2>2 DEF RentCovered, Typed
    <3>3. reserve >= next
      <4> HIDE DEF rent, next
      <4> QED BY <3>1, <3>2
    <3> QED BY <3>3
  <2> QED BY <1>0, <2>2, <2>3, <2>4 DEF RebalanceInv, NotOverAllocated
<1>6. CASE UNCHANGED vars
  BY <1>0, <1>6 DEF vars, fixed, RebalanceInv, Typed, NotOverAllocated, RentCovered
<1> QED BY <1>2, <1>3, <1>4, <1>5, <1>6

\* What was moving arrives.
LEMMA EpochStep ==
  ASSUME RebalanceInv, NextEpoch
  PROVE  RebalanceInv'
<1>0. Typed /\ NotOverAllocated
  BY DEF RebalanceInv
<1> DEFINE back == [i \in Indices |-> IF transient[i] = 0 THEN 0 ELSE StakeRent + SatSub(0, transient[i])]
<1>1. /\ tag' = "RebalanceDirected" /\ progress' = {} /\ instant_unstake' = {}
      /\ stake' = [i \in Indices |-> IF transient[i] > 0 THEN stake[i] + transient[i] ELSE stake[i]]
      /\ reserve' = reserve + Sum(back)
      /\ transient' = [i \in Indices |-> 0]
      /\ UNCHANGED <<moves, sorted_score_indices, sorted_raw_score_indices, delegations,
                     validator_lamport_balances, directed_stake_lamports, totals, plan>>
  BY DEF NextEpoch, fixed
<1>2. /\ \A i \in Indices : transient[i] \in Int /\ stake[i] \in Nat
      /\ StakeRent \in Nat /\ reserve \in Nat
  BY <1>0, Numbers DEF Typed
<1>3. back \in [Indices -> Nat]
  BY <1>2 DEF SatSub
<1>4. reserve' \in Nat
  <2>1. Sum(back) \in Nat
    <3> HIDE DEF back
    <3> QED BY <1>3, Numbers, SumNatural, SumIs
  <2> QED BY <1>1, <1>2, <2>1
<1>5. stake' \in [Indices -> Nat]
  BY <1>1, <1>2
<1>6. transient' \in [Indices -> Int]
  BY <1>1
<1>7. Typed'
  BY <1>0, <1>1, <1>4, <1>5, <1>6 DEF Typed
<1> QED BY <1>0, <1>1, <1>7 DEF RebalanceInv, NotOverAllocated, RentCovered

\* The admin's passthroughs cover nothing any more.
LEMMA AdminSteps ==
  ASSUME RebalanceInv,
         \/ \E i \in Indices, a \in Amounts : IncreaseValidatorStake(i, a) \/ DecreaseValidatorStake(i, a)
         \/ ResetValidatorLamportBalances
  PROVE  RebalanceInv'
<1>0. Typed /\ NotOverAllocated /\ RentCovered
  BY DEF RebalanceInv
<1>1. ASSUME NEW i \in Indices, NEW moved \in Int, NEW balance \in Nat,
             AdminWrites(i, moved, balance), moved < 0 => stake[i] + moved >= 0
      PROVE  RebalanceInv'
  <2>1. /\ "admin" \in moves /\ Funded(moved) /\ MoveStake(i, moved)
        /\ validator_lamport_balances' = [validator_lamport_balances EXCEPT ![HistoryIndex[i]] =
             IF @ = LamportBalanceDefault THEN @ ELSE balance]
        /\ plan' = [plan EXCEPT !.holds = FALSE, !.covered = FALSE]
        /\ UNCHANGED <<progress, instant_unstake, delegations, totals, moves,
                       sorted_score_indices, sorted_raw_score_indices,
                       directed_stake_lamports>>
    BY <1>1 DEF AdminWrites, fixed
  <2>3. stake' \in [Indices -> Nat] /\ transient' \in [Indices -> Int] /\ reserve' \in Nat
    BY <1>0, <1>1, <2>1, MoveFacts
  <2>4. validator_lamport_balances' \in [Indices -> Nat]
    BY <1>0, <2>1, Numbers DEF Typed
  <2>5. DOMAIN plan' = PlanFields /\ ~plan'.covered
    BY <1>0, <2>1 DEF Typed, PlanFields
  <2>6. Typed'
    BY <1>0, <2>1, <2>3, <2>4, <2>5 DEF Typed
  <2> QED BY <1>0, <2>1, <2>5, <2>6 DEF RebalanceInv, NotOverAllocated, RentCovered
<1>2. ASSUME NEW i \in Indices, NEW a \in Amounts, IncreaseValidatorStake(i, a)
      PROVE  RebalanceInv'
  <2>1. a \in Nat /\ validator_lamport_balances[HistoryIndex[i]] \in Nat
    BY <1>0, RebalanceAssumption DEF Typed
  <2>2. validator_lamport_balances[HistoryIndex[i]] + a \in Nat /\ ~(a < 0) /\ a \in Int
    BY <2>1
  <2> QED BY <1>1, <1>2, <2>2 DEF IncreaseValidatorStake
<1>3. ASSUME NEW i \in Indices, NEW a \in Amounts, DecreaseValidatorStake(i, a)
      PROVE  RebalanceInv'
  <2>1. a \in Nat /\ validator_lamport_balances[HistoryIndex[i]] \in Nat /\ stake[i] \in Nat
    BY <1>0, RebalanceAssumption DEF Typed
  <2>2. a <= stake[i] /\ a <= validator_lamport_balances[HistoryIndex[i]]
    BY <1>3 DEF DecreaseValidatorStake
  <2>3. validator_lamport_balances[HistoryIndex[i]] - a \in Nat /\ -a \in Int /\ stake[i] + (-a) >= 0
    BY <2>1, <2>2
  <2> QED BY <1>1, <1>3, <2>3 DEF DecreaseValidatorStake
<1>4. ASSUME ResetValidatorLamportBalances PROVE RebalanceInv'
  <2>1. /\ validator_lamport_balances' = [i \in Indices |-> LamportBalanceDefault]
        /\ plan' = [plan EXCEPT !.holds = FALSE]
        /\ UNCHANGED <<tag, progress, instant_unstake, delegations, totals, stake, transient,
                       reserve, moves, sorted_score_indices, sorted_raw_score_indices,
                       directed_stake_lamports>>
    BY <1>4 DEF ResetValidatorLamportBalances, fixed
  <2>2. DOMAIN plan' = PlanFields /\ plan'.covered = plan.covered
    BY <1>0, <2>1 DEF Typed, PlanFields
  <2>3. Typed'
    BY <1>0, <2>1, <2>2, Numbers DEF Typed
  <2> QED BY <1>0, <2>1, <2>2, <2>3 DEF RebalanceInv, NotOverAllocated, RentCovered
<1> QED BY <1>2, <1>3, <1>4

\* Users' deposits and withdrawals; one that lowers the reserve covers nothing any more.
LEMMA UserSteps ==
  ASSUME RebalanceInv,
         \/ \E i \in Indices, a \in Amounts : DepositStake(i, a) \/ WithdrawStake(i, a)
         \/ \E a \in Amounts : DepositSol(a) \/ WithdrawSol(a)
  PROVE  RebalanceInv'
<1>0. Typed /\ NotOverAllocated /\ RentCovered
  BY DEF RebalanceInv
<1>1. ASSUME NEW newStake, NEW newReserve, UsersMove(newStake, newReserve), newReserve \in Nat,
             newStake \in [Indices -> Nat]
      PROVE  RebalanceInv'
  <2>1. /\ stake' = newStake /\ reserve' = newReserve
        /\ plan' = [plan EXCEPT !.holds = FALSE, !.covered = @ /\ newReserve >= reserve]
        /\ UNCHANGED <<tag, progress, instant_unstake, delegations, validator_lamport_balances,
                       directed_stake_lamports, totals, transient, moves,
                       sorted_score_indices, sorted_raw_score_indices>>
    BY <1>1 DEF UsersMove, fixed
  <2>2. DOMAIN plan' = PlanFields
    BY <1>0, <2>1 DEF Typed, PlanFields
  <2>3. plan'.covered = (plan.covered /\ newReserve >= reserve)
    BY <1>0, <2>1 DEF Typed, PlanFields
  <2>4. Typed'
    BY <1>0, <1>1, <2>1, <2>2 DEF Typed
  <2>5. RentCovered'
    <3> DEFINE rent == StakeRent * (NumPoolValidators + 1 - Cardinality(progress))
    <3> SUFFICES ASSUME tag = "Rebalance", plan'.covered PROVE newReserve >= rent
      BY <2>1 DEF RentCovered
    <3>1. plan.covered /\ newReserve >= reserve
      BY <2>3
    <3>2. reserve >= rent /\ reserve \in Nat
      BY <1>0, <3>1 DEF RentCovered, Typed
    <3>3. rent \in Int
      <4>1. Cardinality(progress) \in Nat
        BY <1>0, Numbers, FS_Subset, FS_CardinalityType DEF Typed
      <4> QED BY <4>1, Numbers
    <3> HIDE DEF rent
    <3> QED BY <1>1, <3>1, <3>2, <3>3
  <2> QED BY <1>0, <2>1, <2>4, <2>5 DEF RebalanceInv, NotOverAllocated
<1>2. /\ reserve \in Nat /\ stake \in [Indices -> Nat] /\ StakeRent \in Nat
      /\ Amounts \subseteq Nat
  <2>1. Amounts \subseteq Nat
    BY RebalanceAssumption
  <2>2. reserve \in Nat /\ stake \in [Indices -> Nat]
    BY <1>0 DEF Typed
  <2>3. StakeRent \in Nat
    BY Numbers
  <2> QED BY <2>1, <2>2, <2>3
<1>3. ASSUME NEW i \in Indices, NEW a \in Amounts, DepositStake(i, a) PROVE RebalanceInv'
  <2> DEFINE s == [stake EXCEPT ![i] = @ + a]
  <2>1. s \in [Indices -> Nat]
    BY <1>2
  <2>2. UsersMove(s, reserve)
    BY <1>3 DEF DepositStake
  <2> HIDE DEF s
  <2> QED BY <1>1, <1>2, <2>1, <2>2
<1>4. ASSUME NEW i \in Indices, NEW a \in Amounts, WithdrawStake(i, a) PROVE RebalanceInv'
  <2> DEFINE s == [stake EXCEPT ![i] = @ - a]
  <2>1. "withdraw" \in moves /\ a <= stake[i] /\ UsersMove(s, reserve)
    BY <1>4 DEF WithdrawStake
  <2>3. s \in [Indices -> Nat]
    BY <1>2, <2>1
  <2> HIDE DEF s
  <2> QED BY <1>1, <1>2, <2>1, <2>3
<1>5. ASSUME NEW a \in Amounts, DepositSol(a) \/ WithdrawSol(a) PROVE RebalanceInv'
  <2>1. CASE DepositSol(a)
    <3>1. reserve + a \in Nat /\ UsersMove(stake, reserve + a)
      BY <1>2, <2>1 DEF DepositSol
    <3> QED BY <1>1, <1>2, <3>1
  <2>2. CASE WithdrawSol(a)
    <3>1. reserve - a \in Nat /\ UsersMove(stake, reserve - a)
      BY <1>2, <2>2 DEF WithdrawSol
    <3> QED BY <1>1, <1>2, <3>1
  <2> QED BY <1>5, <2>1, <2>2
<1> QED BY <1>3, <1>4, <1>5

\* rebalance_directed: its books and what it moves.
LEMMA DirectedSteps ==
  ASSUME RebalanceInv,
         \/ \E i \in DOMAIN DirectedTargets :
              \/ DirectedEnds(i)
              \/ RebalanceDirected(i, 0)
              \/ \E a \in DirectedAmounts : RebalanceDirected(i, a) \/ RebalanceDirected(i, -a)
         \/ DirectedEndsUnused
  PROVE  RebalanceInv'
<1>0. Typed /\ NotOverAllocated
  BY DEF RebalanceInv
<1>1. CASE DirectedEndsUnused
  <2>1. /\ tag' = "Idle"
        /\ UNCHANGED <<progress, instant_unstake, delegations, moves, sorted_score_indices,
                       sorted_raw_score_indices, validator_lamport_balances,
                       directed_stake_lamports, totals, stake, transient, reserve, plan>>
    BY <1>1 DEF DirectedEndsUnused, fixed
  <2> QED BY <1>0, <2>1 DEF RebalanceInv, Typed, NotOverAllocated, RentCovered
<1>2. ASSUME NEW i \in DOMAIN DirectedTargets, NEW moved \in Int, DirectedBooks(i, moved),
             moved < 0 => -moved <= Adjusted(i, Active(i)).directed,
             progress' \in SUBSET Indices, stake' \in [Indices -> Nat],
             transient' \in [Indices -> Int], reserve' \in Nat, tag' # "Rebalance"
      PROVE  RebalanceInv'
  <2> DEFINE a == Adjusted(i, Active(i))
             amount == a.directed + moved
             balance == IF moved > 0 THEN a.balance + moved ELSE SatSub(a.balance, -moved)
  <2>1. i \in Indices /\ Active(i) \in Nat
    BY <1>0, Numbers, ActiveTyped DEF Typed
  <2>2. a.directed \in Nat /\ a.balance \in Nat
    BY <1>0, <2>1, AdjustedTyped
  <2>3. /\ directed_stake_lamports' = [directed_stake_lamports EXCEPT ![i] = amount]
        /\ validator_lamport_balances' = [validator_lamport_balances EXCEPT ![i] = balance]
        /\ UNCHANGED <<instant_unstake, delegations, moves, sorted_score_indices,
                       sorted_raw_score_indices, totals, plan>>
    BY <1>2 DEF DirectedBooks, fixed
  <2>4. amount \in Nat /\ balance \in Nat
    <3>1. moved < 0 => -moved <= a.directed
      BY <1>2
    <3> HIDE DEF a
    <3> QED BY <2>2, <3>1 DEF SatSub
  <2> HIDE DEF a, amount, balance
  <2>5. /\ directed_stake_lamports' \in [Indices -> Nat]
        /\ validator_lamport_balances' \in [Indices -> Nat]
    BY <1>0, <2>1, <2>3, <2>4 DEF Typed
  <2>6. Typed'
    BY <1>0, <1>2, <2>3, <2>5 DEF Typed
  <2> QED BY <1>0, <1>2, <2>3, <2>6 DEF RebalanceInv, NotOverAllocated, RentCovered
<1>3. ASSUME NEW i \in DOMAIN DirectedTargets, DirectedEnds(i) PROVE RebalanceInv'
  <2>1. DirectedBooks(i, 0) /\ tag' = "Idle" /\ UNCHANGED <<progress, stake, transient, reserve>>
    BY <1>3 DEF DirectedEnds
  <2>2. /\ progress' \in SUBSET Indices /\ stake' \in [Indices -> Nat]
        /\ transient' \in [Indices -> Int] /\ reserve' \in Nat
    BY <1>0, <2>1 DEF Typed
  <2>3. 0 \in Int /\ ~(0 < 0) /\ tag' # "Rebalance"
    BY <2>1
  <2> QED BY <1>2, <2>1, <2>2, <2>3
<1>4. ASSUME NEW i \in DOMAIN DirectedTargets, NEW moved \in Int, RebalanceDirected(i, moved)
      PROVE  RebalanceInv'
  <2> DEFINE directed == Adjusted(i, Active(i)).directed
  <2>1. /\ moved < 0 => -moved <= directed - DirectedTargets[i]
        /\ moved # 0 => stake[i] + moved >= 0
        /\ Funded(moved) /\ DirectedBooks(i, moved) /\ MoveStake(i, moved)
        /\ progress' = progress \cup {i}
        /\ tag' = (IF DOMAIN DirectedTargets \subseteq progress' THEN "Idle" ELSE tag)
    BY <1>4 DEF RebalanceDirected
  <2>2. i \in Indices /\ DirectedTargets[i] \in Nat
    BY Numbers
  <2>3. Active(i) \in Nat
    BY <1>0, <2>2, ActiveTyped DEF Typed
  <2>4. directed \in Nat
    BY <1>0, <2>3, AdjustedTyped
  <2> HIDE DEF directed
  <2>5. moved < 0 => -moved <= directed
    BY <2>1, <2>2, <2>4
  <2>6. moved < 0 => stake[i] + moved >= 0
    BY <2>1
  <2>7. stake' \in [Indices -> Nat] /\ transient' \in [Indices -> Int] /\ reserve' \in Nat
    BY <1>0, <2>1, <2>2, <2>6, MoveFacts
  <2>8. progress' \in SUBSET Indices
    BY <1>0, <2>1, <2>2 DEF Typed
  <2>9. tag' # "Rebalance"
    BY <2>1 DEF DirectedBooks
  <2> QED BY <1>2, <2>1, <2>5, <2>7, <2>8, <2>9 DEF directed
<1>5. 0 \in Int /\ \A a \in DirectedAmounts : a \in Int /\ -a \in Int
  BY RebalanceAssumption
<1> QED BY <1>1, <1>3, <1>4, <1>5

\* The start: shares of a cycle, nothing moving.
LEMMA InitRebalance == Init => RebalanceInv
<1> SUFFICES ASSUME Init PROVE RebalanceInv
  OBVIOUS
<1>1. /\ moves \in Moves /\ tag = "Idle" /\ progress = {} /\ instant_unstake = {}
      /\ sorted_score_indices = [k \in 1 .. NumPoolValidators |-> k - 1]
      /\ sorted_raw_score_indices \in SetToSeqs(Indices)
      /\ \E k \in 1 .. NumPoolValidators : delegations = Shares(k)
      /\ directed_stake_lamports = [i \in Indices |->
           IF i \in DOMAIN DirectedTargets THEN Lesser(InitialDirected, stake[i]) ELSE 0]
      /\ validator_lamport_balances = [i \in Indices |->
           IF i \in DOMAIN DirectedTargets THEN Active(i) ELSE LamportBalanceDefault]
      /\ totals = Zero /\ stake \in InitialStakes /\ reserve \in InitialReserves
      /\ transient = [i \in Indices |-> 0]
  BY DEF Init
<1>2. sorted_raw_score_indices \in Surjection(1 .. NumPoolValidators, Indices)
  <2> DEFINE raw == sorted_raw_score_indices
             D == 1 .. NumPoolValidators
  <2>1. raw \in [D -> Indices] /\ \A i, j \in D : i # j => raw[i] # raw[j]
    BY <1>1, Numbers DEF SetToSeqs
  <2>2. raw \in Injection(D, Indices)
    BY <2>1 DEF Injection, IsInjective
  <2>3. Cardinality(D) = Cardinality(Indices)
    BY Numbers, FS_Interval
  <2> HIDE DEF D
  <2> QED BY <2>2, <2>3, Numbers, FS_Injection DEF D
<1>3. delegations \in [Indices -> Nat] /\ NotOverAllocated
  BY <1>1, SharesFacts DEF NotOverAllocated
<1>4. stake \in [Indices -> Nat]
  BY <1>1, RebalanceAssumption
<1>5. reserve \in Nat
  BY <1>1, RebalanceAssumption
<1>6. /\ validator_lamport_balances \in [Indices -> Nat]
      /\ directed_stake_lamports \in [Indices -> Nat] /\ transient \in [Indices -> Int]
      /\ totals \in TotalsType
  <2>1. /\ \A i \in Indices : stake[i] \in Nat /\ Active(i) \in Nat
        /\ InitialDirected \in Nat /\ LamportBalanceDefault \in Nat
    BY <1>4, Numbers, ActiveTyped
  <2>2. directed_stake_lamports \in [Indices -> Nat]
    BY <1>1, <2>1 DEF Lesser
  <2>3. validator_lamport_balances \in [Indices -> Nat]
    BY <1>1, <2>1
  <2>4. transient \in [Indices -> Int] /\ totals \in TotalsType
    BY <1>1, TotalsFacts
  <2> QED BY <2>2, <2>3, <2>4
<1>7. DOMAIN plan = PlanFields
  BY DEF Init, PlanFields
<1>8. Typed
  BY <1>1, <1>2, <1>3, <1>4, <1>5, <1>6, <1>7 DEF Typed
<1> QED BY <1>1, <1>3, <1>8 DEF RebalanceInv, RentCovered

\* Every step keeps the invariant.
LEMMA NextRebalance ==
  ASSUME RebalanceInv, [Next]_vars
  PROVE  RebalanceInv'
BY StewardSteps, RebalanceStep, EpochStep, AdminSteps, UserSteps, DirectedSteps DEF Next

\* The invariant of the module.
LEMMA SpecRebalanceInv == Spec => []RebalanceInv
<1>1. RebalanceInv /\ [Next]_vars => RebalanceInv'
  BY NextRebalance
<1> QED BY <1>1, InitRebalance, PTL DEF Spec
-----------------------------------------------------------------------------
(* The theorems *)

\* The shares of compute_delegations, passed on by rebalance when a validator is
\* instantly unstaked, never add up to more than the pool: of n sharers each has at
\* most 1/n.
THEOREM SpecNotOverAllocated == Spec => []NotOverAllocated
<1>1. RebalanceInv => NotOverAllocated
  BY DEF RebalanceInv
<1> QED BY <1>1, SpecRebalanceInv, PTL

\* A reserve that had the rent of all validators when the phase began pays for the
\* move of every validator still to come, in whatever order they are cranked.
THEOREM SpecAllFunded == Spec => []AllFunded
<1>1. RebalanceInv => AllFunded
  <2> SUFFICES ASSUME RebalanceInv, tag = "Rebalance", plan.covered,
                      NEW i \in Indices \ progress
               PROVE  Funded(Outcome(i).moved)
    BY DEF AllFunded
  <2> DEFINE moved == Outcome(i).moved
             rent == StakeRent * (NumPoolValidators + 1 - Cardinality(progress))
  <2>1. Typed /\ RentCovered
    BY DEF RebalanceInv
  <2>2. moved \in Int /\ (moved > 0 => moved + rent <= reserve)
    BY <2>1, OutcomeFacts
  <2>3. rent \in Nat /\ 2 * StakeRent <= rent /\ StakeRent \in Nat
    BY <2>1, RentFacts, Numbers
  <2>4. reserve >= rent /\ reserve \in Nat
    BY <2>1 DEF RentCovered, Typed
  <2> HIDE DEF moved, rent
  <2>5. moved # 0 => reserve >= 2 * StakeRent + (IF moved > 0 THEN moved ELSE 0)
    BY <2>2, <2>3, <2>4
  <2> QED BY <2>5 DEF Funded, moved
<1> QED BY <1>1, SpecRebalanceInv, PTL

\* A rebalance that adds to what the cycle has unstaked in a category keeps the sum
\* within the cap of the category, however much the other validators' simulated
\* losses, deposits and withdrawals have moved the pool and its caps.
THEOREM SpecCapsHold == Spec => CapsHold
<1>1. ASSUME RebalanceInv, [Next]_vars, tag = "Rebalance"
      PROVE  \A c \in DOMAIN totals : totals'[c] > totals[c] => totals'[c] <= Caps[c]
  <2>0. Typed /\ totals \in TotalsType /\ DOMAIN totals = Categories
    BY <1>1, TotalsFacts DEF RebalanceInv, Typed
  <2>1. CASE totals' = totals
    <3>1. \A c \in Categories : totals[c] \in Nat
      BY <2>0 DEF TotalsType
    <3> QED BY <2>0, <2>1, <3>1
  <2>2. ASSUME NEW i \in Indices, Rebalance(i)
        PROVE  \A c \in DOMAIN totals : totals'[c] > totals[c] => totals'[c] <= Caps[c]
    <3> DEFINE down == Outcome(i).down
    <3>1. i \notin progress /\ totals' = Add(totals, down)
      BY <2>2 DEF Rebalance
    <3>2. /\ down \in TotalsType
          /\ \A c \in Categories : down[c] > 0 => totals[c] + down[c] <= Caps[c]
      BY <2>0, <3>1, OutcomeFacts
    <3> HIDE DEF down
    <3>3. \A c \in Categories : /\ totals'[c] = totals[c] + down[c]
                                /\ totals[c] \in Nat /\ down[c] \in Nat
      <4>1. \A c \in Categories : Add(totals, down)[c] = totals[c] + down[c]
        BY <2>0, <3>2, TotalsFacts
      <4>2. \A c \in Categories : totals[c] \in Nat /\ down[c] \in Nat
        BY <2>0, <3>2 DEF TotalsType
      <4> QED BY <3>1, <4>1, <4>2
    <3>4. \A c \in Categories : totals'[c] > totals[c] => down[c] > 0
      BY <3>3
    <3> QED BY <2>0, <3>2, <3>3, <3>4
  <2>3. totals' = totals \/ \E i \in Indices : Rebalance(i)
    BY <1>1 DEF Next, NewCycle, ComputeInstantUnstake, StartRebalance, RebalanceTransient,
       NextEpoch, IncreaseValidatorStake, DecreaseValidatorStake, AdminWrites,
       ResetValidatorLamportBalances, DepositStake, WithdrawStake, DepositSol, WithdrawSol,
       UsersMove, DirectedEnds, DirectedEndsUnused, RebalanceDirected, DirectedBooks, vars
  <2> QED BY <2>1, <2>2, <2>3
<1>2. RebalanceInv /\ [Next]_vars =>
        [tag = "Rebalance" =>
           \A c \in DOMAIN totals : totals'[c] > totals[c] => totals'[c] <= Caps[c]]_vars
  BY <1>1
<1> QED BY <1>2, SpecRebalanceInv, PTL DEF Spec, CapsHold

\* What every validator has and is getting, and what of it is directed stake.
Helds == [i \in Indices |-> Held(i)]
TrueOnes == [i \in Indices |-> TrueDirected(i)]

\* What of the stake is directed is no more than there is.
LEMMA HeldTyped ==
  ASSUME Typed, NEW i \in Indices
  PROVE  Held(i) \in Nat /\ TrueDirected(i) \in Nat /\ TrueDirected(i) <= Held(i)
<1>1. Held(i) \in Nat
  <2>1. stake[i] \in Nat /\ transient[i] \in Int /\ Base \in Nat
    BY Numbers DEF Typed
  <2> QED BY <2>1 DEF Held, Active
<1>2. CASE i \in DOMAIN DirectedTargets
  BY <1>1, <1>2, AdjustedTyped DEF TrueDirected
<1>3. CASE i \notin DOMAIN DirectedTargets
  BY <1>1, <1>3 DEF TrueDirected
<1> QED BY <1>1, <1>2, <1>3

\* The undirected stake is what there is without what the books call directed, and
\* what the books have too much.
LEMMA UndirectedFacts ==
  ASSUME Typed
  PROVE  /\ UndirectedStake \in Int /\ Overstated \in Int
         /\ Sum(Helds) \in Int /\ Sum(directed_stake_lamports) \in Int
         /\ UndirectedStake <= Sum(Helds) - Sum(directed_stake_lamports) + Overstated
<1> DEFINE d == directed_stake_lamports
           u == [i \in Indices |-> Held(i) - TrueDirected(i)]
           o == [i \in Indices |-> SatSub(d[i], TrueDirected(i))]
           left == [i \in Indices |-> u[i] + d[i]]
           right == [i \in Indices |-> Helds[i] + o[i]]
<1>1. \A i \in Indices : /\ Held(i) \in Nat /\ TrueDirected(i) \in Nat /\ TrueDirected(i) <= Held(i)
                         /\ d[i] \in Nat
  BY HeldTyped DEF Typed
<1>2. UndirectedStake = Sum(u) /\ Overstated = Sum(o) /\ IsFiniteSet(Indices)
  BY Numbers DEF UndirectedStake, Overstated
<1>3. /\ u \in [Indices -> Int] /\ o \in [Indices -> Int] /\ d \in [Indices -> Int]
      /\ Helds \in [Indices -> Int]
  BY <1>1 DEF Helds, SatSub, Typed
<1>4. left \in [Indices -> Int] /\ right \in [Indices -> Int]
  BY <1>3
<1>5. \A i \in Indices : left[i] <= right[i]
  BY <1>1 DEF Helds, SatSub
<1>6. Sum(left) = Sum(u) + Sum(d) /\ Sum(right) = Sum(Helds) + Sum(o)
  BY <1>2, <1>3, SumOfSums, SumIs
<1> HIDE DEF left, right, u, o, d
<1>7. Sum(left) \in Int /\ Sum(right) \in Int /\ Sum(left) <= Sum(right)
  BY <1>2, <1>4, <1>5, SumOrdered, SumIs
<1>8. Sum(u) \in Int /\ Sum(d) \in Int /\ Sum(Helds) \in Int /\ Sum(o) \in Int
  BY <1>2, <1>3, SumOrdered, SumIs
<1> QED BY <1>2, <1>6, <1>7, <1>8 DEF d

\* The same after a step.
LEMMA UndirectedFactsNext ==
  (Typed => /\ UndirectedStake \in Int /\ Overstated \in Int
            /\ Sum(Helds) \in Int /\ Sum(directed_stake_lamports) \in Int
            /\ UndirectedStake <= Sum(Helds) - Sum(directed_stake_lamports) + Overstated)'
<1>1. Typed => /\ UndirectedStake \in Int /\ Overstated \in Int
               /\ Sum(Helds) \in Int /\ Sum(directed_stake_lamports) \in Int
               /\ UndirectedStake <= Sum(Helds) - Sum(directed_stake_lamports) + Overstated
  BY UndirectedFacts
<1> QED BY <1>1, PTL

\* What the validators have and are getting is part of the pool.
LEMMA HeldWithinPool ==
  ASSUME Typed
  PROVE  Sum(Helds) \in Int /\ Sum(Helds) <= PoolLamports - reserve
<1> DEFINE h == [i \in Indices |->
                   Active(i) + IF transient[i] = 0 THEN 0
                               ELSE StakeRent + (IF transient[i] > 0 THEN transient[i] ELSE -transient[i])]
<1>1. \A i \in Indices : Active(i) \in Nat /\ transient[i] \in Int
  BY ActiveTyped DEF Typed
<1>2. StakeRent \in Nat /\ IsFiniteSet(Indices) /\ reserve \in Nat
  BY Numbers DEF Typed
<1>3. Helds \in [Indices -> Int] /\ h \in [Indices -> Int]
  BY <1>1, <1>2 DEF Helds, Held
<1>4. \A i \in Indices : Helds[i] <= h[i]
  BY <1>1, <1>2 DEF Helds, Held
<1>5. PoolLamports = reserve + Sum(h)
  BY DEF PoolLamports
<1> HIDE DEF h
<1>6. Sum(Helds) \in Int /\ Sum(h) \in Int /\ Sum(Helds) <= Sum(h)
  BY <1>2, <1>3, <1>4, SumOrdered, SumIs
<1> QED BY <1>2, <1>5, <1>6

\* An increase takes the undirected stake no further than the ceiling and what the
\* books have too much.
LEMMA IncreaseBelowCeiling ==
  ASSUME RebalanceInv, NEW i \in Indices, Rebalance(i), transient'[i] > transient[i]
  PROVE  UndirectedStake' <= StakeCeiling + Overstated'
<1> DEFINE moved == Outcome(i).moved
           point == [j \in Indices |-> IF j = i THEN moved ELSE 0]
           sum == [j \in Indices |-> Helds[j] + point[j]]
<1>0. Typed /\ Typed'
  BY RebalanceStep DEF RebalanceInv
<1>1. /\ i \notin progress /\ transient[i] = 0 /\ MoveStake(i, moved)
      /\ directed_stake_lamports' = directed_stake_lamports
  BY DEF Rebalance
<1>2. moved \in Int /\ (moved > 0 => moved <= CappedReserve)
  BY <1>0, <1>1, OutcomeFacts
<1> HIDE DEF moved
<1>3. stake \in [Indices -> Nat] /\ transient \in [Indices -> Int]
  BY <1>0 DEF Typed
<1>4. transient'[i] = moved /\ moved > 0
  <2>1. transient' = [transient EXCEPT ![i] = transient[i] + moved]
    BY <1>1 DEF MoveStake
  <2>2. transient'[i] = transient[i] + moved
    BY <1>3, <2>1
  <2> QED BY <1>1, <1>2, <2>2
<1>5. /\ stake' = stake
      /\ \A j \in Indices : j # i => transient'[j] = transient[j]
  <2>1. stake' = [stake EXCEPT ![i] = IF moved < 0 THEN stake[i] + moved ELSE stake[i]]
    BY <1>1 DEF MoveStake
  <2>2. ~(moved < 0)
    BY <1>2, <1>4
  <2>3. stake' = [stake EXCEPT ![i] = stake[i]]
    BY <2>1, <2>2
  <2> QED BY <1>1, <1>3, <2>3 DEF MoveStake
<1>6. Helds' = sum
  <2>1. Helds' = [j \in Indices |->
           stake'[j] + Base + (IF transient'[j] > 0 THEN transient'[j] ELSE 0)]
    BY DEF Helds, Held, Active
  <2>2. Helds = [j \in Indices |-> stake[j] + Base + (IF transient[j] > 0 THEN transient[j] ELSE 0)]
    BY DEF Helds, Held, Active
  <2>3. \A j \in Indices : stake[j] \in Nat /\ transient[j] \in Int /\ Base \in Nat
    BY <1>3, Numbers
  <2>4. \A j \in Indices :
          stake'[j] + Base + (IF transient'[j] > 0 THEN transient'[j] ELSE 0) = sum[j]
    BY <1>1, <1>2, <1>4, <1>5, <2>2, <2>3
  <2> QED BY <2>1, <2>4
<1>7. /\ Sum(Helds) \in Int /\ Sum(Helds) <= PoolLamports - reserve
      /\ Helds \in [Indices -> Int] /\ IsFiniteSet(Indices)
  <2>1. \A j \in Indices : Held(j) \in Nat
    BY <1>0, HeldTyped
  <2> QED BY <1>0, <2>1, HeldWithinPool, Numbers DEF Helds
<1>8. point \in [Indices -> Int] /\ Sum(point) = moved
  <2>1. point \in [Indices -> Int]
    BY <1>2
  <2> QED BY <1>2, <1>7, <2>1, SumAtPoint, SumIs
<1> HIDE DEF point
<1>9. Sum(sum) = Sum(Helds) + moved
  BY <1>7, <1>8, SumOfSums, SumIs
<1> HIDE DEF sum
<1>10. /\ UndirectedStake' \in Int /\ Overstated' \in Int /\ Sum(directed_stake_lamports) \in Int
       /\ UndirectedStake' <= Sum(sum) - Sum(directed_stake_lamports) + Overstated'
  <2>1. /\ UndirectedStake' \in Int /\ Overstated' \in Int
        /\ UndirectedStake' <= Sum(Helds') - Sum(directed_stake_lamports') + Overstated'
    BY <1>0, UndirectedFactsNext
  <2>2. Sum(directed_stake_lamports) \in Int
    BY <1>0, UndirectedFacts
  <2> QED BY <1>1, <1>6, <2>1, <2>2
<1>11. /\ moved <= SatSub(StakeCeiling, UndirectedPoolLamports)
       /\ UndirectedPoolLamports = SatSub(PoolLamports, Sum(directed_stake_lamports))
       /\ PoolLamports \in Nat /\ StakeCeiling \in Nat /\ reserve \in Nat
       /\ UndirectedPoolLamports \in Nat
  <2>1. /\ UndirectedPoolLamports \in Nat /\ StakeCeiling \in Nat /\ reserve \in Nat
        /\ PoolLamports \in Nat
    BY <1>0, PoolTyped, Numbers DEF Typed
  <2>2. CappedReserve = Lesser(reserve, SatSub(StakeCeiling, UndirectedPoolLamports))
    BY DEF CappedReserve
  <2> QED BY <1>2, <1>4, <2>1, <2>2 DEF Lesser, SatSub, UndirectedPoolLamports
<1>12. /\ moved + UndirectedPoolLamports <= StakeCeiling
       /\ PoolLamports - Sum(directed_stake_lamports) <= UndirectedPoolLamports
  BY <1>2, <1>4, <1>10, <1>11 DEF SatSub
<1> DEFINE u == UndirectedStake'
           o == Overstated'
           d == Sum(directed_stake_lamports)
           h == Sum(Helds)
           up == UndirectedPoolLamports
<1>13. u \in Int /\ o \in Int /\ d \in Int /\ h \in Int /\ u <= h + moved - d + o
  BY <1>2, <1>7, <1>9, <1>10
<1>14. h <= PoolLamports - reserve /\ moved + up <= StakeCeiling /\ PoolLamports - d <= up /\ up \in Nat
  BY <1>7, <1>11, <1>12
<1> HIDE DEF u, o, d, h, up
<1>15. u <= StakeCeiling + o
  BY <1>2, <1>11, <1>13, <1>14
<1> QED BY <1>15 DEF u, o

\* An increase by the steward takes the undirected stake above the ceiling by no more
\* than the directed total that rebalance subtracts is too large, whatever the reserve
\* has, and whatever users and the admin have moved since the books were made.
THEOREM SpecCeilingHolds == Spec => CeilingHolds
<1>1. ASSUME RebalanceInv, [Next]_vars, NEW i \in Indices, Increases(i)
      PROVE  UndirectedStake' <= StakeCeiling + Overstated'
  <2>0. tag = "Rebalance" /\ i \in progress' /\ i \notin progress /\ transient'[i] > transient[i]
    BY <1>1 DEF Increases
  <2>1. ASSUME NEW j \in Indices, RebalanceTransient(j) PROVE FALSE
    <3>1. transient' = transient /\ transient[i] \in Int
      BY <1>1, <2>1 DEF RebalanceTransient, RebalanceInv, Typed
    <3> QED BY <2>0, <3>1
  <2>2. ASSUME NEW j \in Indices, Rebalance(j) PROVE j = i
    <3>1. progress' = progress \cup {j}
      BY <2>2 DEF Rebalance
    <3> QED BY <2>0, <3>1
  <2>3. \E j \in Indices : Rebalance(j) \/ RebalanceTransient(j)
    BY <1>1, <2>0 DEF Next, NewCycle, ComputeInstantUnstake, StartRebalance, NextEpoch,
       IncreaseValidatorStake, DecreaseValidatorStake, AdminWrites,
       ResetValidatorLamportBalances, DepositStake, WithdrawStake, DepositSol, WithdrawSol,
       UsersMove, DirectedEnds, DirectedEndsUnused, RebalanceDirected, DirectedBooks, vars
  <2>4. Rebalance(i)
    BY <2>1, <2>2, <2>3
  <2> QED BY <1>1, <2>0, <2>4, IncreaseBelowCeiling
<1>2. RebalanceInv /\ [Next]_vars =>
        [\A i \in Indices : Increases(i) => UndirectedStake' <= StakeCeiling + Overstated']_vars
  BY <1>1
<1> QED BY <1>2, SpecRebalanceInv, PTL DEF Spec, CeilingHolds
=============================================================================
