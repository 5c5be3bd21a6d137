------------------------ MODULE DirectedStakeProofs ------------------------
(***************************************************************************)
(* Proofs about DirectedStake, for any number of validators and targets,    *)
(* any amounts, and any order of the instructions: what a cycle unstakes    *)
(* of directed stake stays within its cap as it was at each crank, and the  *)
(* two records of directed stake agree wherever they are not astray; and    *)
(* about                                                                    *)
(* DirectedTickets, for any stakers, preferences and rate: tickets direct   *)
(* no more than their holders have.                                         *)
(*                                                                         *)
(* The records are compared along the seats: the validators in the order in *)
(* which the state has them, which is the list with the validator that is   *)
(* leaving back in its place.                                               *)
(***************************************************************************)
EXTENDS DirectedTickets, WellOrder

TargetType == [vote : Votes \cup {NoVote}, goal : Nat, staked : Nat]
EntryType == [vote : Votes, active : Nat, transient : Int]
LeavingType == [index : Nat, vote : Votes \cup {NoVote}]

\* What the proofs need of the types.
Typed ==
  /\ targets \in [Indices -> TargetType]
  /\ total_stake_targets \in Nat /\ total_stake_targets <= MaxTargets
  /\ directed_unstake_total \in Nat
  /\ directed_stake_lamports \in [Indices -> Nat]
  /\ directed_stake_meta_indices \in [Indices -> Indices \cup {NoTarget}]
  /\ validator_lamport_balances \in [Indices -> Nat]
  /\ validator_list \in Seq(EntryType)
  /\ reserve \in Nat
  /\ leaving \in LeavingType
  /\ leaving # Nobody => leaving.vote \in Votes /\ leaving.index <= Len(validator_list)
  /\ num_pool_validators \in Nat
  /\ num_pool_validators <= Seats
  /\ Seats <= MaxValidators
-----------------------------------------------------------------------------
(* Numbers *)

\* The constants.
LEMMA Numbers ==
  /\ MaxValidators \in Nat /\ MaxValidators > 0
  /\ MaxLamports \in Nat /\ MaxTargets \in Nat /\ MaxTargets <= MaxValidators
  /\ Goals \subseteq Nat /\ Moves \subseteq Int
  /\ MinimumDelegation \in Nat /\ StakeRent \in Nat /\ UnstakeCapBps \in Nat /\ MaxProduct \in Nat
  /\ NoVote \notin Votes
  /\ LamportBalanceDefault \in Nat
  /\ NoTarget \notin Indices /\ Indices = 0 .. MaxValidators - 1
  BY DirectedAssumption DEF LamportBalanceDefault, NoTarget, Indices

\* Total adds the values up one after the other.
LEMMA TotalIs == ASSUME NEW h PROVE Total(h) = SumOf(h)
  BY DEF Total, FoldFunction, FoldFunctionOnSet, MapThenFoldSet, SumOf, SumsOf

\* A quotient is natural, and as far below a bound as its dividend.
LEMMA Quotient ==
  ASSUME NEW a \in Nat, NEW b \in Nat, b > 0
  PROVE  a \div b \in Nat /\ \A c \in Nat : a <= b * c => a \div b <= c
<1> DEFINE q == a \div b
<1>1. q \in Nat /\ b * q <= a
  OBVIOUS
<1>2. ASSUME NEW c \in Nat, a <= b * c, ~(q <= c) PROVE FALSE
  <2> HIDE DEF q
  <2>1. q >= c + 1
    BY <1>1, <1>2
  <2>2. b * q >= b * (c + 1)
    BY <1>1, <2>1
  <2>3. b * (c + 1) = b * c + b /\ b * c \in Nat /\ b * q \in Nat
    BY <1>1
  <2> QED BY <1>1, <1>2, <2>2, <2>3
<1> QED BY <1>1, <1>2

\* A share in proportion is natural, and no more than what is shared.
LEMMA ProRata ==
  ASSUME NEW room \in Nat, NEW share \in Nat, NEW whole \in Nat, whole > 0
  PROVE  LET amount == (room * ((share * 10000) \div whole)) \div 10000
         IN  amount \in Nat /\ (share <= whole => amount <= room)
<1> DEFINE q == (share * 10000) \div whole
<1>1. q \in Nat /\ (share * 10000 <= whole * 10000 => q <= 10000)
  BY Quotient
<1>2. share <= whole => q <= 10000
  BY <1>1
<1> HIDE DEF q
<1>3. room * q \in Nat
  BY <1>1
<1>4. q <= 10000 => room * q <= 10000 * room
  <2> SUFFICES ASSUME q <= 10000 PROVE room * q <= 10000 * room
    OBVIOUS
  <2>1. room * q <= room * 10000
    BY <1>1
  <2> QED BY <2>1
<1>5. (room * q) \div 10000 \in Nat /\ (room * q <= 10000 * room => (room * q) \div 10000 <= room)
  BY <1>3, Quotient
<1> QED BY <1>2, <1>4, <1>5 DEF q
-----------------------------------------------------------------------------
(* What a directed rebalance computes *)

\* The targets still to rebalance are targets.
LEMMA RemainingFinite ==
  ASSUME Typed
  PROVE  Remaining \subseteq Indices /\ IsFiniteSet(Remaining)
<1>1. Remaining \subseteq Indices
  BY Numbers DEF Typed, Remaining
<1>2. IsFiniteSet(Indices)
  BY Numbers, FS_Interval
<1> QED BY <1>1, <1>2, FS_Subset

\* The pool's stake is a number.
LEMMA PoolTyped == ASSUME Typed PROVE PoolLamports \in Nat
<1> DEFINE n == Len(validator_list)
           held(k) == validator_list[k].active + SatSub(validator_list[k].transient, 0)
                                               + SatSub(0, validator_list[k].transient)
           all == [k \in 1 .. n |-> held(k)]
<1>1. n \in Nat /\ reserve \in Nat /\ \A k \in 1 .. n : validator_list[k] \in EntryType
  BY DEF Typed
<1>2. \A k \in 1 .. n : held(k) \in Nat
  <2>1. \A k \in 1 .. n : validator_list[k].active \in Nat /\ validator_list[k].transient \in Int
    BY <1>1 DEF EntryType
  <2>2. \A x \in Int : SatSub(x, 0) \in Nat /\ SatSub(0, x) \in Nat
    BY DEF SatSub
  <2> TAKE k \in 1 .. n
  <2>3. SatSub(validator_list[k].transient, 0) \in Nat /\ SatSub(0, validator_list[k].transient) \in Nat
    BY <2>1, <2>2
  <2>4. validator_list[k].active \in Nat
    BY <2>1
  <2>5. \A a, b, c \in Nat : a + b + c \in Nat
    OBVIOUS
  <2> QED BY <2>3, <2>4, <2>5
<1>3. all \in [1 .. n -> Nat]
  <2> HIDE DEF held
  <2> QED BY <1>2
<1>4. Total(all) \in Nat
  <2>1. IsFiniteSet(1 .. n)
    BY <1>1, FS_Interval
  <2> HIDE DEF all, n
  <2> QED BY <1>3, <2>1, SumNatural, TotalIs
<1>5. PoolLamports = reserve + Total(all)
  BY DEF PoolLamports
<1> HIDE DEF all
<1> QED BY <1>1, <1>4, <1>5

\* The cap is a number, and no more than its share of the pool.
LEMMA CapTyped ==
  ASSUME Typed
  PROVE  UnstakeCap \in Nat /\ UnstakeCap * 10000 <= PoolLamports * UnstakeCapBps
<1> DEFINE product == PoolLamports * UnstakeCapBps
           least == Lesser(product, MaxProduct)
<1>1. product \in Nat /\ MaxProduct \in Nat
  BY PoolTyped, Numbers
<1>2. UnstakeCap = least \div 10000
  BY DEF UnstakeCap
<1> HIDE DEF product
<1>3. least \in Nat /\ least <= product
  BY <1>1 DEF Lesser
<1> HIDE DEF least
<1>4. least \div 10000 \in Nat /\ (least \div 10000) * 10000 <= least
  BY <1>3
<1>5. UnstakeCap \in Nat /\ UnstakeCap * 10000 <= product
  BY <1>1, <1>2, <1>3, <1>4
<1> QED BY <1>5 DEF product

\* A decrease stays within what is left of the cap, because the excess of the
\* target is part of the excess it is weighed against.
LEMMA DecreaseFacts ==
  ASSUME Typed, NEW t \in Indices, NEW staked \in Nat,
         t < total_stake_targets, t \in rebalanced => staked = 0
  PROVE  /\ Decrease(t, staked) \in Nat
         /\ Decrease(t, staked) > 0 =>
              (directed_unstake_total + Decrease(t, staked)) * 10000 <= PoolLamports * UnstakeCapBps
<1> DEFINE excess(u) == SatSub(IF u = t THEN staked ELSE targets[u].staked, targets[u].goal)
           all == [u \in Remaining |-> excess(u)]
           total == Total(all)
           left == SatSub(UnstakeCap, directed_unstake_total)
           room == Lesser(left, total)
           amount == (room * ((excess(t) * 10000) \div total)) \div 10000
           down == Decrease(t, staked)
<1>0. Typed /\ directed_unstake_total \in Nat /\ UnstakeCap \in Nat
  BY CapTyped DEF Typed
<1>1. down = IF excess(t) = 0 \/ total = 0 THEN 0
             ELSE IF Lesser(amount, excess(t)) < MinimumDelegation THEN 0
             ELSE Lesser(amount, excess(t))
  BY DEF Decrease
<1>2. \A u \in Indices : excess(u) \in Nat
  <2>1. \A u \in Indices : targets[u].staked \in Nat /\ targets[u].goal \in Nat
    BY <1>0 DEF Typed, TargetType
  <2> QED BY <2>1 DEF SatSub
<1>3. all \in [Remaining -> Nat]
  <2> HIDE DEF excess
  <2> QED BY <1>0, <1>2, RemainingFinite
<1>4. total \in Nat
  <2> HIDE DEF all
  <2> QED BY <1>0, <1>3, RemainingFinite, SumNatural, TotalIs
<1>5. excess(t) # 0 => excess(t) <= total
  <2> SUFFICES ASSUME excess(t) # 0 PROVE excess(t) <= total
    OBVIOUS
  <2>1. staked # 0
    <3>1. targets[t].goal \in Nat
      BY <1>0 DEF Typed, TargetType
    <3> QED BY <3>1 DEF SatSub
  <2>2. t \in Remaining
    <3>1. t \in Nat /\ total_stake_targets \in Nat
      BY <1>0, Numbers DEF Typed
    <3> QED BY <2>1, <3>1 DEF Remaining
  <2>3. all[t] = excess(t)
    BY <2>2
  <2>4. all[t] <= total
    <3> HIDE DEF all
    <3> QED BY <1>0, <1>3, <2>2, RemainingFinite, TermBelowSum, TotalIs
  <2> HIDE DEF all, total, excess
  <2> QED BY <2>3, <2>4
<1>6. left \in Nat /\ (left > 0 => directed_unstake_total + left = UnstakeCap)
  BY <1>0 DEF SatSub
<1>7. excess(t) \in Nat
  BY <1>2
<1> HIDE DEF excess, total, left
<1>8. room \in Nat /\ room <= left
  BY <1>4, <1>6 DEF Lesser
<1> HIDE DEF room
<1>9. total > 0 => amount \in Nat /\ (excess(t) <= total => amount <= room)
  BY <1>4, <1>7, <1>8, ProRata
<1> HIDE DEF amount, down
<1>10. down \in Nat /\ down <= left
  <2>1. CASE excess(t) = 0 \/ total = 0
    BY <1>1, <1>6, <2>1
  <2>2. CASE ~(excess(t) = 0 \/ total = 0)
    <3>1. amount \in Nat /\ amount <= left
      BY <1>4, <1>5, <1>6, <1>8, <1>9, <2>2
    <3>2. Lesser(amount, excess(t)) \in Nat /\ Lesser(amount, excess(t)) <= left
      BY <1>6, <1>7, <3>1 DEF Lesser
    <3> QED BY <1>1, <1>6, <2>2, <3>2
  <2> QED BY <2>1, <2>2
<1>11. down > 0 => directed_unstake_total + down <= UnstakeCap
  BY <1>0, <1>6, <1>10
<1>12. ASSUME NEW x \in Nat, NEW c \in Nat, NEW p \in Nat, x <= c, c * 10000 <= p
       PROVE  x * 10000 <= p
  BY <1>12
<1>13. /\ UnstakeCap * 10000 <= PoolLamports * UnstakeCapBps
       /\ PoolLamports * UnstakeCapBps \in Nat
  <2>1. PoolLamports \in Nat /\ UnstakeCapBps \in Nat
    BY PoolTyped, Numbers
  <2> QED BY <2>1, CapTyped
<1>14. directed_unstake_total + down \in Nat
  BY <1>0, <1>10
<1>15. down > 0 => (directed_unstake_total + down) * 10000 <= PoolLamports * UnstakeCapBps
  BY <1>0, <1>11, <1>12, <1>13, <1>14
<1> QED BY <1>10, <1>15 DEF down

\* An increase is a number.
LEMMA IncreaseTyped ==
  ASSUME Typed, NEW t \in Indices, NEW staked \in Nat
  PROVE  Increase(t, staked) \in Nat
<1> DEFINE missing(u) == SatSub(targets[u].goal, IF u = t THEN staked ELSE targets[u].staked)
           all == [u \in Remaining |-> missing(u)]
           total == Total(all)
           available == SatSub(reserve, 2 * StakeRent)
           amount == (available * ((missing(t) * 10000) \div total)) \div 10000
           up == Increase(t, staked)
<1>1. up = IF missing(t) = 0 \/ total = 0 THEN 0
           ELSE IF Lesser(amount, missing(t)) < MinimumDelegation THEN 0
           ELSE Lesser(amount, missing(t))
  BY DEF Increase
<1>2. \A u \in Indices : missing(u) \in Nat
  <2>1. \A u \in Indices : targets[u].staked \in Nat /\ targets[u].goal \in Nat
    BY DEF Typed, TargetType
  <2> QED BY <2>1 DEF SatSub
<1>3. all \in [Remaining -> Nat]
  <2> HIDE DEF missing
  <2> QED BY <1>2, RemainingFinite
<1>4. total \in Nat
  <2> HIDE DEF all
  <2> QED BY <1>3, RemainingFinite, SumNatural, TotalIs
<1>5. missing(t) \in Nat /\ available \in Nat
  <2>1. reserve \in Nat /\ StakeRent \in Nat
    BY Numbers DEF Typed
  <2> QED BY <1>2, <2>1 DEF SatSub
<1> HIDE DEF missing, total, available
<1>6. total > 0 => amount \in Nat
  BY <1>4, <1>5, ProRata
<1> HIDE DEF amount, up
<1>7. up \in Nat
  BY <1>1, <1>4, <1>5, <1>6 DEF Lesser
<1> QED BY <1>7 DEF up

\* What adjusting for deposits and withdrawals writes; directed stake and its
\* mirror stay equal where they were.
LEMMA AdjustFacts ==
  ASSUME Typed, NEW i \in Indices, NEW t \in Indices, NEW active \in Nat
  PROVE  LET a == Adjust(i, t, active)
         IN  /\ a.staked \in Nat /\ a.directed \in Nat /\ a.balance \in Nat
             /\ directed_stake_lamports[i] = targets[t].staked =>
                  /\ a.directed = a.staked
                  /\ a.directed = Lesser(Moved(directed_stake_lamports[i], i, t, active), active)
<1> DEFINE b == validator_lamport_balances[i]
           d == directed_stake_lamports[i]
           s == targets[t].staked
           lost == Lost(i, active)
           gained == Gained(i, t, active)
           staked == Moved(s, i, t, active)
           directed == Moved(d, i, t, active)
           excess == SatSub(staked, active)
           a == Adjust(i, t, active)
<1>1. b \in Nat /\ d \in Nat /\ s \in Nat /\ targets[t].goal \in Nat
  BY DEF Typed, TargetType
<1>2. lost \in Nat /\ lost <= b /\ gained \in Nat
  BY <1>1 DEF Lost, Gained, SatSub, Lesser
<1>3. staked \in Nat /\ directed \in Nat
  <2>1. /\ staked = IF lost > s THEN 0 ELSE SatSub(s, lost) + gained
        /\ directed = IF lost > s THEN 0 ELSE SatSub(d, lost) + gained
    BY DEF Moved
  <2> HIDE DEF lost, gained, staked, directed
  <2> QED BY <1>1, <1>2, <2>1 DEF SatSub
<1>4. a.staked = staked - excess /\ a.directed = SatSub(directed, excess) /\ a.balance = b - lost + gained
  BY DEF Adjust, NewBalance
<1>5. d = s => directed = staked
  OBVIOUS
<1> HIDE DEF a, staked, directed, lost, gained, b, d, s
<1>6. excess \in Nat /\ excess <= staked
  BY <1>3 DEF SatSub
<1>7. a.staked \in Nat /\ a.directed \in Nat /\ a.balance \in Nat
  <2>1. SatSub(directed, excess) \in Nat
    BY <1>3, <1>6 DEF SatSub
  <2> QED BY <1>1, <1>2, <1>3, <1>4, <1>6, <2>1
<1>8. d = s => a.directed = a.staked /\ a.directed = Lesser(directed, active)
  BY <1>3, <1>4, <1>5, <1>6 DEF SatSub, Lesser
<1> QED BY <1>7, <1>8 DEF a, directed, d, s
-----------------------------------------------------------------------------
(* Types and the cap *)

\* Where a validator of the list is.
LEMMA ListFacts ==
  ASSUME Typed
  PROVE  /\ Len(validator_list) \in Nat /\ Len(validator_list) <= MaxValidators
         /\ \A k \in 1 .. Len(validator_list) : validator_list[k] \in EntryType
         /\ \A i \in 0 .. Len(validator_list) - 1 :
              /\ i \in Indices /\ Entry(i) \in EntryType /\ Entry(i).vote \in Votes
              /\ Entry(i).active \in Nat /\ Entry(i).transient \in Int
         /\ \A v : InList(v) => /\ ListIndex(v) \in 0 .. Len(validator_list) - 1
                                /\ Entry(ListIndex(v)).vote = v
<1>1. Len(validator_list) \in Nat /\ \A k \in 1 .. Len(validator_list) : validator_list[k] \in EntryType
  BY DEF Typed
<1>2. Len(validator_list) <= MaxValidators
  BY <1>1, Numbers DEF Typed, Seats
<1>3. \A i \in 0 .. Len(validator_list) - 1 : i \in Indices /\ Entry(i) \in EntryType
  BY <1>1, <1>2, Numbers DEF Entry
<1>4. ASSUME NEW v, InList(v)
      PROVE  ListIndex(v) \in 0 .. Len(validator_list) - 1 /\ Entry(ListIndex(v)).vote = v
  <2>1. PICK k \in 1 .. Len(validator_list) : validator_list[k].vote = v
    BY <1>4 DEF InList
  <2>2. k - 1 \in 0 .. Len(validator_list) - 1 /\ Entry(k - 1).vote = v
    BY <1>1, <2>1 DEF Entry
  <2> QED BY <2>2 DEF ListIndex
<1> QED BY <1>1, <1>2, <1>3, <1>4 DEF EntryType

\* A list with one entry rewritten is a list of the same length.
LEMMA RewriteEntry ==
  ASSUME Typed, NEW i \in 0 .. Len(validator_list) - 1, NEW x \in Nat, NEW y \in Int,
         validator_list' = [validator_list EXCEPT ![i + 1] =
                              [Entry(i) EXCEPT !.active = x, !.transient = y]]
  PROVE  /\ validator_list' \in Seq(EntryType)
         /\ Len(validator_list') = Len(validator_list)
         /\ \A k \in 1 .. Len(validator_list) : validator_list'[k].vote = validator_list[k].vote
<1> DEFINE e == [Entry(i) EXCEPT !.active = x, !.transient = y]
<1>1. Entry(i) \in EntryType /\ i + 1 \in 1 .. Len(validator_list) /\ validator_list \in Seq(EntryType)
  BY ListFacts DEF Typed
<1>2. e \in EntryType /\ e.vote = Entry(i).vote
  BY <1>1 DEF EntryType
<1> HIDE DEF e
<1>3. validator_list' = [validator_list EXCEPT ![i + 1] = e]
  BY DEF e
<1>4. validator_list' \in Seq(EntryType) /\ Len(validator_list') = Len(validator_list)
  BY <1>1, <1>2, <1>3
<1>5. \A k \in 1 .. Len(validator_list) : validator_list'[k].vote = validator_list[k].vote
  BY <1>1, <1>2, <1>3 DEF Entry
<1> QED BY <1>4, <1>5

\* The books are written with natural numbers.
LEMMA BooksTyped ==
  ASSUME Typed, NEW i \in Indices, NEW t \in Indices, NEW staked \in Nat, NEW directed \in Nat,
         NEW balance \in Nat, WriteBooks(i, t, staked, directed, balance)
  PROVE  /\ targets' \in [Indices -> TargetType]
         /\ directed_stake_lamports' \in [Indices -> Nat]
         /\ validator_lamport_balances' \in [Indices -> Nat]
         /\ \A u \in Indices : /\ targets'[u].vote = targets[u].vote
                               /\ targets'[u].staked = IF u = t THEN staked ELSE targets[u].staked
<1>1. targets \in [Indices -> TargetType] /\ directed_stake_lamports \in [Indices -> Nat]
      /\ validator_lamport_balances \in [Indices -> Nat]
  BY DEF Typed
<1> DEFINE e == [targets[t] EXCEPT !.staked = staked]
<1>2. e \in TargetType /\ e.vote = targets[t].vote /\ e.staked = staked
  BY <1>1 DEF TargetType
<1>3. targets' = [targets EXCEPT ![t] = e]
  BY <1>1 DEF WriteBooks
<1> HIDE DEF e
<1>4. targets' \in [Indices -> TargetType]
  BY <1>1, <1>2, <1>3
<1>5. \A u \in Indices : /\ targets'[u].vote = targets[u].vote
                         /\ targets'[u].staked = IF u = t THEN staked ELSE targets[u].staked
  BY <1>1, <1>2, <1>3
<1>6. directed_stake_lamports' \in [Indices -> Nat] /\ validator_lamport_balances' \in [Indices -> Nat]
  BY <1>1 DEF WriteBooks
<1> QED BY <1>4, <1>5, <1>6

\* What the list keeps when nobody joins or leaves.
SameSeats ==
  /\ validator_list' \in Seq(EntryType)
  /\ Len(validator_list') = Len(validator_list)
  /\ \A k \in 1 .. Len(validator_list) : validator_list'[k].vote = validator_list[k].vote
  /\ leaving' = leaving

\* Then the seats are the same.
LEMMA SeatsKept ==
  ASSUME Typed, SameSeats
  PROVE  Seats' = Seats /\ Seating' = Seating
<1>1. Seats' = Seats
  BY DEF SameSeats, Seats
<1>2. Len(validator_list) \in Nat /\ Len(validator_list') = Len(validator_list)
  BY ListFacts DEF SameSeats
<1>3. leaving \in LeavingType /\ (leaving # Nobody => leaving.index <= Len(validator_list))
  BY DEF Typed
<1>4. \A i \in 0 .. Seats - 1 :
        /\ leaving = Nobody \/ i < leaving.index => i + 1 \in 1 .. Len(validator_list)
        /\ ~(leaving = Nobody \/ i < leaving.index) /\ i # leaving.index => i \in 1 .. Len(validator_list)
  BY <1>2, <1>3 DEF Seats, LeavingType
<1>5. \A i \in 0 .. Seats - 1 : (Seating')[i] = Seating[i]
  BY <1>1, <1>4 DEF SameSeats, Seating
<1> QED BY <1>1, <1>5 DEF Seating

\* What a step may add to the directed unstake total.
CapStep ==
  directed_unstake_total' > directed_unstake_total =>
    directed_unstake_total' * 10000 <= PoolLamports * UnstakeCapBps

\* A rebalance that decreases or increases.
LEMMA RebalanceDirectedStep ==
  ASSUME Typed, NEW t \in Indices, RebalanceDirected(t)
  PROVE  /\ Typed' /\ SameSeats /\ CapStep
         /\ \E i \in 0 .. Len(validator_list) - 1 :
              /\ Entry(i).vote = targets[t].vote
              /\ \E staked, directed, balance \in Nat :
                   /\ WriteBooks(i, t, staked, directed, balance)
                   /\ directed_stake_lamports[i] = targets[t].staked => directed = staked
<1> DEFINE i == ListIndex(targets[t].vote)
           a == Adjust(i, t, Entry(i).active)
           down == Decrease(t, a.staked)
           up == IF down > 0 THEN 0 ELSE Increase(t, a.staked)
<1>0. Typed
  OBVIOUS
<1>1. /\ InList(targets[t].vote)
      /\ t \in rebalanced => a.staked = 0
      /\ t < total_stake_targets
      /\ down <= Entry(i).active
      /\ up <= reserve
      /\ WriteBooks(i, t, SatSub(a.staked, down) + up, SatSub(a.directed, down) + up,
                    SatSub(a.balance, down) + up)
      /\ validator_list' = [validator_list EXCEPT ![i + 1] =
                              [Entry(i) EXCEPT !.active = @ - down, !.transient = @ + up - down]]
      /\ reserve' = reserve - up
      /\ directed_unstake_total' = directed_unstake_total + down
      /\ UNCHANGED <<total_stake_targets, directed_stake_meta_indices,
                     num_pool_validators, leaving>>
  BY DEF RebalanceDirected
<1>2. i \in 0 .. Len(validator_list) - 1 /\ i \in Indices /\ Entry(i).vote = targets[t].vote
      /\ Entry(i).active \in Nat /\ Entry(i).transient \in Int
  BY <1>0, <1>1, ListFacts
<1> HIDE DEF i
<1>3. /\ a.staked \in Nat /\ a.directed \in Nat /\ a.balance \in Nat
      /\ directed_stake_lamports[i] = targets[t].staked => a.directed = a.staked
  BY <1>0, <1>2, AdjustFacts
<1> HIDE DEF a
<1>4. /\ down \in Nat
      /\ down > 0 => (directed_unstake_total + down) * 10000 <= PoolLamports * UnstakeCapBps
  BY <1>1, <1>3, DecreaseFacts
<1>5. up \in Nat
  BY <1>0, <1>3, IncreaseTyped
<1> HIDE DEF down, up
<1> DEFINE staked == SatSub(a.staked, down) + up
           directed == SatSub(a.directed, down) + up
           balance == SatSub(a.balance, down) + up
<1>6. staked \in Nat /\ directed \in Nat /\ balance \in Nat
  BY <1>3, <1>4, <1>5 DEF SatSub
<1>7. directed_stake_lamports[i] = targets[t].staked => directed = staked
  BY <1>3
<1>8. WriteBooks(i, t, staked, directed, balance)
  BY <1>1
<1> HIDE DEF staked, directed, balance
<1>9. /\ targets' \in [Indices -> TargetType]
      /\ directed_stake_lamports' \in [Indices -> Nat]
      /\ validator_lamport_balances' \in [Indices -> Nat]
  BY <1>0, <1>2, <1>6, <1>8, BooksTyped
<1>10. SameSeats
  <2>1. Entry(i).active - down \in Nat /\ Entry(i).transient + up - down \in Int
    BY <1>1, <1>2, <1>4, <1>5
  <2>2. validator_list' = [validator_list EXCEPT ![i + 1] =
          [Entry(i) EXCEPT !.active = Entry(i).active - down,
                           !.transient = Entry(i).transient + up - down]]
    <3>1. ASSUME NEW e \in EntryType
          PROVE  [e EXCEPT !.active = @ - down, !.transient = @ + up - down]
                   = [e EXCEPT !.active = e.active - down, !.transient = e.transient + up - down]
      BY DEF EntryType
    <3>2. Entry(i) \in EntryType
      BY <1>0, <1>2, ListFacts
    <3> QED BY <1>1, <3>1, <3>2
  <2>3. /\ validator_list' \in Seq(EntryType)
        /\ Len(validator_list') = Len(validator_list)
        /\ \A k \in 1 .. Len(validator_list) : validator_list'[k].vote = validator_list[k].vote
    BY <1>0, <1>2, <2>1, <2>2, RewriteEntry
  <2> QED BY <1>1, <2>3 DEF SameSeats
<1>11. directed_unstake_total' \in Nat /\ reserve' \in Nat /\ CapStep
  <2>1. directed_unstake_total \in Nat /\ reserve \in Nat
    BY <1>0 DEF Typed
  <2>2. directed_unstake_total' > directed_unstake_total => down > 0
    BY <1>1, <1>4, <2>1
  <2> QED BY <1>1, <1>4, <1>5, <2>1, <2>2 DEF CapStep
<1>12. Typed'
  <2>1. Seats' = Seats /\ Len(validator_list') = Len(validator_list)
    BY <1>0, <1>10, SeatsKept DEF SameSeats
  <2> QED BY <1>0, <1>1, <1>9, <1>10, <1>11, <2>1 DEF Typed, SameSeats
<1> QED BY <1>2, <1>6, <1>7, <1>8, <1>10, <1>11, <1>12

\* A rebalance that finds the phase at its end.
LEMMA RebalanceDirectedEndsStep ==
  ASSUME Typed, NEW t \in Indices, NEW late \in BOOLEAN, RebalanceDirectedEnds(t, late)
  PROVE  /\ Typed' /\ SameSeats
         /\ \E i \in 0 .. Len(validator_list) - 1 :
              /\ Entry(i).vote = targets[t].vote
              /\ astray' = astray \cup Misplaced(i)
              /\ \E staked, directed, balance \in Nat :
                   /\ WriteBooks(i, t, staked, directed, balance)
                   /\ directed_stake_lamports[i] = targets[t].staked => directed = staked
<1> DEFINE i == ListIndex(targets[t].vote)
           a == Adjust(i, t, Entry(i).active)
<1>0. Typed
  OBVIOUS
<1>1. /\ InList(targets[t].vote)
      /\ WriteBooks(i, t, a.staked, a.directed, a.balance)
      /\ astray' = astray \cup Misplaced(i)
      /\ UNCHANGED <<total_stake_targets, directed_unstake_total, directed_stake_meta_indices,
                     num_pool_validators, validator_list, reserve, leaving>>
  BY DEF RebalanceDirectedEnds, pool
<1>2. i \in 0 .. Len(validator_list) - 1 /\ i \in Indices /\ Entry(i).vote = targets[t].vote
      /\ Entry(i).active \in Nat
  BY <1>0, <1>1, ListFacts
<1> HIDE DEF i
<1>3. /\ a.staked \in Nat /\ a.directed \in Nat /\ a.balance \in Nat
      /\ directed_stake_lamports[i] = targets[t].staked => a.directed = a.staked
  BY <1>0, <1>2, AdjustFacts
<1> HIDE DEF a
<1>4. /\ targets' \in [Indices -> TargetType]
      /\ directed_stake_lamports' \in [Indices -> Nat]
      /\ validator_lamport_balances' \in [Indices -> Nat]
  BY <1>0, <1>1, <1>2, <1>3, BooksTyped
<1>5. SameSeats
  BY <1>0, <1>1 DEF SameSeats, Typed
<1>6. Typed'
  <2>1. Seats' = Seats
    BY <1>0, <1>5, SeatsKept
  <2> QED BY <1>0, <1>1, <1>4, <2>1 DEF Typed
<1> QED BY <1>1, <1>2, <1>3, <1>5, <1>6

\* The list as it was.
LEMMA ListUnchanged ==
  ASSUME Typed, UNCHANGED <<validator_list, leaving>>
  PROVE  SameSeats /\ Seats' = Seats /\ Seating' = Seating
<1>1. SameSeats
  BY DEF SameSeats, Typed
<1> QED BY <1>1, SeatsKept

\* A target is uploaded.
LEMMA CopyStep ==
  ASSUME Typed, NEW i \in Indices, NEW goal \in Goals, CopyDirectedStakeTargets(i, goal)
  PROVE  Typed' /\ SameSeats
<1> DEFINE v == Entry(i).vote
<1>0. Typed /\ goal \in Nat
  BY Numbers
<1>1. i < Len(validator_list) /\ UNCHANGED <<directed_unstake_total, validator_lamport_balances,
        num_pool_validators, validator_list, reserve, leaving>>
  BY DEF CopyDirectedStakeTargets, state, pool
<1>2. v \in Votes
  <2>1. i \in 0 .. Len(validator_list) - 1
    BY <1>0, <1>1, ListFacts, Numbers
  <2> QED BY <1>0, <2>1, ListFacts
<1>3. SameSeats /\ Seats' = Seats
  BY <1>0, <1>1, ListUnchanged
<1>4. CASE HasTarget(v)
  <2> DEFINE u == TargetOf(v)
             e == [targets[u] EXCEPT !.goal = goal]
  <2>1. u \in Indices
    BY <1>4 DEF HasTarget, TargetOf
  <2>2. e \in TargetType
    BY <1>0, <2>1 DEF Typed, TargetType
  <2>3. targets' = [targets EXCEPT ![u].goal = goal] /\ UNCHANGED <<total_stake_targets,
          directed_stake_lamports, directed_stake_meta_indices>>
    BY <1>4 DEF CopyDirectedStakeTargets
  <2>4. targets' \in [Indices -> TargetType]
    <3>1. targets' = [targets EXCEPT ![u] = e]
      BY <2>3
    <3> HIDE DEF e
    <3> QED BY <1>0, <2>1, <2>2, <3>1 DEF Typed
  <2> QED BY <1>0, <1>1, <1>3, <2>3, <2>4 DEF Typed
<1>5. CASE ~HasTarget(v)
  <2> DEFINE e == [vote |-> v, goal |-> goal, staked |-> 0]
  <2>1. /\ total_stake_targets < MaxTargets
        /\ targets' = [targets EXCEPT ![total_stake_targets] = e]
        /\ total_stake_targets' = total_stake_targets + 1
        /\ directed_stake_lamports' = [directed_stake_lamports EXCEPT ![i] = 0]
        /\ directed_stake_meta_indices' = [directed_stake_meta_indices EXCEPT ![i] = total_stake_targets]
    BY <1>5 DEF CopyDirectedStakeTargets
  <2>2. e \in TargetType
    BY <1>0, <1>2 DEF TargetType
  <2>3. total_stake_targets \in Indices /\ total_stake_targets' \in Nat /\ total_stake_targets' <= MaxTargets
    BY <1>0, <2>1, Numbers DEF Typed
  <2> HIDE DEF e
  <2>4. targets' \in [Indices -> TargetType]
    BY <1>0, <2>1, <2>2, <2>3 DEF Typed
  <2>5. directed_stake_lamports' \in [Indices -> Nat]
        /\ directed_stake_meta_indices' \in [Indices -> Indices \cup {NoTarget}]
    BY <1>0, <2>1, <2>3 DEF Typed
  <2> QED BY <1>0, <1>1, <1>3, <2>3, <2>4, <2>5 DEF Typed
<1> QED BY <1>4, <1>5

\* The maintenance of the directed account.
LEMMA MaintenanceSteps ==
  ASSUME Typed,
         SyncDirectedStakeLamports \/ MigrateDirectedToAlgorithmic \/ ReallocDirectedStakeMeta
  PROVE  Typed' /\ SameSeats
<1>0. Typed
  OBVIOUS
<1>1. UNCHANGED <<total_stake_targets, validator_lamport_balances,
        num_pool_validators, validator_list, reserve, leaving>>
  BY DEF SyncDirectedStakeLamports, MigrateDirectedToAlgorithmic, ReallocDirectedStakeMeta, state, pool
<1>2. SameSeats /\ Seats' = Seats
  BY <1>0, <1>1, ListUnchanged
<1>3. ASSUME targets' \in [Indices -> TargetType], directed_stake_lamports' \in [Indices -> Nat],
             directed_stake_meta_indices' \in [Indices -> Indices \cup {NoTarget}],
             directed_unstake_total' = directed_unstake_total \/ directed_unstake_total' = 0
      PROVE  Typed'
  <2>1. directed_unstake_total' \in Nat
    BY <1>0, <1>3 DEF Typed
  <2> QED BY <1>0, <1>1, <1>2, <1>3, <2>1 DEF Typed
<1>4. CASE SyncDirectedStakeLamports
  <2>1. \A i \in Indices : /\ directed_stake_meta_indices[i] # NoTarget =>
                                targets[directed_stake_meta_indices[i]].staked \in Nat
                           /\ directed_stake_lamports[i] \in Nat
    BY <1>0 DEF Typed, TargetType
  <2>2. directed_stake_lamports' \in [Indices -> Nat]
    BY <1>4, <2>1 DEF SyncDirectedStakeLamports
  <2>3. UNCHANGED <<targets, directed_unstake_total, directed_stake_meta_indices>>
    BY <1>4 DEF SyncDirectedStakeLamports
  <2>4. targets' \in [Indices -> TargetType]
        /\ directed_stake_meta_indices' \in [Indices -> Indices \cup {NoTarget}]
    BY <1>0, <2>3 DEF Typed
  <2> QED BY <1>2, <1>3, <2>2, <2>3, <2>4
<1>5. CASE MigrateDirectedToAlgorithmic
  <2>1. \A u \in Indices : [targets[u] EXCEPT !.goal = 0, !.staked = 0] \in TargetType
    BY <1>0 DEF Typed, TargetType
  <2>2. targets' \in [Indices -> TargetType]
    BY <1>5, <2>1 DEF MigrateDirectedToAlgorithmic
  <2>3. directed_stake_lamports' \in [Indices -> Nat]
    BY <1>5 DEF MigrateDirectedToAlgorithmic
  <2>4. directed_unstake_total' = 0 /\ UNCHANGED directed_stake_meta_indices
    BY <1>5 DEF MigrateDirectedToAlgorithmic
  <2>5. directed_stake_meta_indices' \in [Indices -> Indices \cup {NoTarget}]
    BY <1>0, <2>4 DEF Typed
  <2> QED BY <1>2, <1>3, <2>2, <2>3, <2>4, <2>5
<1>6. CASE ReallocDirectedStakeMeta
  <2>1. EmptyTarget \in TargetType
    BY DEF EmptyTarget, TargetType
  <2>2. targets' \in [Indices -> TargetType]
    BY <1>6, <2>1 DEF ReallocDirectedStakeMeta
  <2>3. directed_stake_lamports' \in [Indices -> Nat]
        /\ directed_stake_meta_indices' \in [Indices -> Indices \cup {NoTarget}]
    BY <1>6 DEF ReallocDirectedStakeMeta
  <2>4. UNCHANGED directed_unstake_total
    BY <1>6 DEF ReallocDirectedStakeMeta
  <2> QED BY <1>2, <1>3, <2>2, <2>3, <2>4
<1> QED BY <1>4, <1>5, <1>6

\* What leaves the directed account, the state's balances and the seats alone.
LEMMA QuietSteps ==
  ASSUME Typed,
         \/ \E t \in Indices, late \in BOOLEAN : RebalanceDirectedMissing(t, late)
         \/ UncheckedTransition \/ StartCycle \/ EpochMaintenance \/ NextEpoch
         \/ \E amount \in {-1, 1} : ReserveMoves(amount)
         \/ UNCHANGED vars
  PROVE  Typed' /\ SameSeats
<1>0. Typed
  OBVIOUS
<1>1. UNCHANGED <<targets, total_stake_targets, directed_stake_lamports, directed_stake_meta_indices,
                  validator_lamport_balances, validator_list, leaving>>
  BY DEF RebalanceDirectedMissing, UncheckedTransition, StartCycle, EpochMaintenance, NextEpoch,
     ReserveMoves, meta, state, pool, vars
<1>2. SameSeats /\ Seats' = Seats
  BY <1>0, <1>1, ListUnchanged
<1>3. reserve' \in Nat
  <2>1. reserve' = reserve \/ (\E amount \in {-1, 1} : reserve + amount >= 0 /\ reserve' = reserve + amount)
    BY DEF RebalanceDirectedMissing, UncheckedTransition, StartCycle, EpochMaintenance, NextEpoch,
       ReserveMoves, pool, vars
  <2> QED BY <1>0, <2>1 DEF Typed
<1>4. num_pool_validators' \in Nat /\ num_pool_validators' <= Seats
  <2>1. \/ num_pool_validators' = num_pool_validators
        \/ leaving = Nobody /\ num_pool_validators' = Len(validator_list)
    BY DEF RebalanceDirectedMissing, UncheckedTransition, StartCycle, EpochMaintenance, NextEpoch,
       ReserveMoves, state, vars
  <2>2. Len(validator_list) \in Nat
    BY <1>0, ListFacts
  <2> QED BY <1>0, <2>1, <2>2 DEF Typed, Seats
<1>5. directed_unstake_total' \in Nat
  <2>1. directed_unstake_total' = directed_unstake_total \/ directed_unstake_total' = 0
    BY DEF RebalanceDirectedMissing, UncheckedTransition, StartCycle, EpochMaintenance, NextEpoch,
       ReserveMoves, meta, vars
  <2> QED BY <1>0, <2>1 DEF Typed
<1>6. Typed'
  BY <1>0, <1>1, <1>2, <1>3, <1>4, <1>5 DEF Typed
<1> QED BY <1>2, <1>6

\* What moves stake in the list, and keeps the directed account.
LEMMA ListSteps ==
  ASSUME Typed,
         \/ \E i \in Indices, moved \in Moves, keep \in BOOLEAN : Rebalance(i, moved, keep)
         \/ UpdateStakePool
         \/ \E i \in Indices, amount \in {-1, 1} : StakeMoves(i, amount)
  PROVE  /\ Typed' /\ SameSeats
         /\ UNCHANGED <<targets, total_stake_targets, directed_stake_lamports,
                        directed_stake_meta_indices, astray>>
<1>0. Typed
  OBVIOUS
<1>1. UNCHANGED <<targets, total_stake_targets, directed_unstake_total, directed_stake_lamports,
                  directed_stake_meta_indices, num_pool_validators, leaving, astray>>
  BY DEF Rebalance, UpdateStakePool, StakeMoves, meta, state
<1>2. ASSUME SameSeats, reserve' \in Nat, validator_lamport_balances' \in [Indices -> Nat]
      PROVE  Typed'
  <2>1. Seats' = Seats /\ Len(validator_list') = Len(validator_list)
    BY <1>0, <1>2, SeatsKept DEF SameSeats
  <2> QED BY <1>0, <1>1, <1>2, <2>1 DEF Typed, SameSeats
<1>3. ASSUME NEW i \in Indices, NEW moved \in Moves, NEW keep \in BOOLEAN, Rebalance(i, moved, keep)
      PROVE  Typed' /\ SameSeats
  <2> DEFINE active == Entry(i).active
             balance == IF keep /\ active >= validator_lamport_balances[i]
                        THEN validator_lamport_balances[i] ELSE active
             new == IF balance = LamportBalanceDefault THEN balance
                    ELSE IF moved > 0 THEN balance + moved ELSE SatSub(balance, -moved)
  <2>1. /\ leaving = Nobody /\ i < num_pool_validators /\ moved <= reserve
        /\ -moved <= SatSub(active, directed_stake_lamports[i])
        /\ validator_lamport_balances' = [validator_lamport_balances EXCEPT ![i] = new]
        /\ validator_list' = [validator_list EXCEPT ![i + 1] =
                                [Entry(i) EXCEPT !.active = IF moved < 0 THEN @ + moved ELSE @,
                                                 !.transient = moved]]
        /\ reserve' = IF moved > 0 THEN reserve - moved ELSE reserve
    BY <1>3 DEF Rebalance
  <2>2. i \in 0 .. Len(validator_list) - 1
    <3>1. i \in Nat /\ num_pool_validators \in Nat /\ num_pool_validators <= Seats
      BY <1>0, Numbers DEF Typed
    <3>2. Seats = Len(validator_list) /\ Len(validator_list) \in Nat
      BY <1>0, <2>1, ListFacts DEF Seats
    <3> QED BY <2>1, <3>1, <3>2
  <2>3. Entry(i) \in EntryType /\ active \in Nat /\ moved \in Int
    BY <1>0, <2>2, ListFacts, Numbers
  <2>4. directed_stake_lamports[i] \in Nat /\ validator_lamport_balances[i] \in Nat
        /\ validator_lamport_balances \in [Indices -> Nat] /\ reserve \in Nat
    BY <1>0 DEF Typed
  <2> DEFINE x == IF moved < 0 THEN active + moved ELSE active
  <2>5. x \in Nat
    BY <2>1, <2>3, <2>4 DEF SatSub
  <2>6. validator_list' = [validator_list EXCEPT ![i + 1] =
                             [Entry(i) EXCEPT !.active = x, !.transient = moved]]
    <3>1. [Entry(i) EXCEPT !.active = IF moved < 0 THEN @ + moved ELSE @, !.transient = moved]
            = [Entry(i) EXCEPT !.active = x, !.transient = moved]
      OBVIOUS
    <3> HIDE DEF x
    <3> QED BY <2>1, <3>1
  <2>7. balance \in Nat
    BY <2>3, <2>4
  <2> HIDE DEF balance, x, active
  <2>8. new \in Nat
    <3>1. SatSub(balance, -moved) \in Nat /\ (moved > 0 => balance + moved \in Nat)
      BY <2>3, <2>7 DEF SatSub
    <3> QED BY <2>7, <3>1
  <2> HIDE DEF new
  <2>9. validator_lamport_balances' \in [Indices -> Nat]
    BY <2>1, <2>4, <2>8
  <2>10. reserve' \in Nat
    BY <2>1, <2>3, <2>4
  <2>11. SameSeats
    <3>1. /\ validator_list' \in Seq(EntryType)
          /\ Len(validator_list') = Len(validator_list)
          /\ \A k \in 1 .. Len(validator_list) : validator_list'[k].vote = validator_list[k].vote
      BY <1>0, <2>2, <2>3, <2>5, <2>6, RewriteEntry
    <3> QED BY <1>1, <3>1 DEF SameSeats
  <2> QED BY <1>2, <2>9, <2>10, <2>11
<1>4. ASSUME UpdateStakePool PROVE Typed' /\ SameSeats
  <2> DEFINE n == Len(validator_list)
             e(k) == [validator_list[k] EXCEPT
                        !.active = IF validator_list[k].transient > 0
                                   THEN @ + validator_list[k].transient ELSE @,
                        !.transient = 0]
             back == [k \in 1 .. n |-> SatSub(0, validator_list[k].transient)]
  <2>1. validator_list' = [k \in 1 .. n |-> e(k)] /\ reserve' = reserve + Total(back)
        /\ validator_lamport_balances' = validator_lamport_balances
    BY <1>4 DEF UpdateStakePool, state
  <2>2. n \in Nat /\ \A k \in 1 .. n : validator_list[k] \in EntryType
    BY <1>0, ListFacts
  <2>3. \A k \in 1 .. n : e(k) \in EntryType /\ e(k).vote = validator_list[k].vote
    <3>1. ASSUME NEW f \in EntryType
          PROVE  LET g == [f EXCEPT !.active = IF f.transient > 0 THEN @ + f.transient ELSE @,
                                    !.transient = 0]
                 IN  g \in EntryType /\ g.vote = f.vote
      <4> DEFINE x == IF f.transient > 0 THEN f.active + f.transient ELSE f.active
      <4>1. x \in Nat
        BY DEF EntryType
      <4>2. [f EXCEPT !.active = IF f.transient > 0 THEN @ + f.transient ELSE @, !.transient = 0]
              = [f EXCEPT !.active = x, !.transient = 0]
        OBVIOUS
      <4> HIDE DEF x
      <4>3. ASSUME NEW y \in Nat, NEW z \in Int
            PROVE  LET g == [f EXCEPT !.active = y, !.transient = z]
                   IN  g \in EntryType /\ g.vote = f.vote
        BY DEF EntryType
      <4>4. 0 \in Int
        OBVIOUS
      <4>5. LET g == [f EXCEPT !.active = x, !.transient = 0]
            IN  g \in EntryType /\ g.vote = f.vote
        BY <4>1, <4>3, <4>4, Zenon
      <4> QED BY <4>2, <4>5, Zenon
    <3> QED BY <2>2, <3>1
  <2>4. back \in [1 .. n -> Nat]
    <3>1. \A k \in 1 .. n : validator_list[k].transient \in Int
      BY <2>2 DEF EntryType
    <3> QED BY <3>1 DEF SatSub
  <2>5. Total(back) \in Nat
    <3>1. IsFiniteSet(1 .. n)
      BY <2>2, FS_Interval
    <3> HIDE DEF back
    <3> QED BY <2>4, <3>1, SumNatural, TotalIs
  <2>6. validator_list' \in Seq(EntryType) /\ Len(validator_list') = n
    <3> HIDE DEF n, e
    <3> QED BY <2>1, <2>2, <2>3
  <2>7. \A k \in 1 .. n : validator_list'[k].vote = validator_list[k].vote
    <3> HIDE DEF n, e
    <3> QED BY <2>1, <2>3
  <2>8. SameSeats
    BY <1>1, <2>6, <2>7 DEF SameSeats
  <2>9. reserve' \in Nat /\ validator_lamport_balances' \in [Indices -> Nat]
    <3> HIDE DEF back
    <3>1. reserve \in Nat /\ validator_lamport_balances \in [Indices -> Nat]
      BY <1>0 DEF Typed
    <3>2. reserve' = reserve + Total(back)
      BY <2>1
    <3>3. validator_lamport_balances' = validator_lamport_balances
      BY <2>1
    <3> QED BY <2>5, <3>1, <3>2, <3>3
  <2> QED BY <1>2, <2>8, <2>9
<1>5. ASSUME NEW i \in Indices, NEW amount \in {-1, 1}, StakeMoves(i, amount)
      PROVE  Typed' /\ SameSeats
  <2>1. /\ i < Len(validator_list) /\ Entry(i).active + amount >= 0
        /\ validator_list' = [validator_list EXCEPT ![i + 1] = [Entry(i) EXCEPT !.active = @ + amount]]
        /\ UNCHANGED <<validator_lamport_balances, reserve>>
    BY <1>5 DEF StakeMoves, state
  <2>2. i \in 0 .. Len(validator_list) - 1
    BY <1>0, <2>1, ListFacts, Numbers
  <2>3. Entry(i) \in EntryType /\ Entry(i).active \in Nat /\ Entry(i).transient \in Int
    BY <1>0, <2>2, ListFacts
  <2>4. Entry(i).active + amount \in Nat
    BY <2>1, <2>3
  <2>5. validator_list' = [validator_list EXCEPT ![i + 1] =
          [Entry(i) EXCEPT !.active = Entry(i).active + amount, !.transient = Entry(i).transient]]
    <3>1. ASSUME NEW e \in EntryType
          PROVE  [e EXCEPT !.active = @ + amount]
                   = [e EXCEPT !.active = e.active + amount, !.transient = e.transient]
      BY DEF EntryType
    <3> QED BY <2>1, <2>3, <3>1
  <2>6. SameSeats
    <3>1. /\ validator_list' \in Seq(EntryType)
          /\ Len(validator_list') = Len(validator_list)
          /\ \A k \in 1 .. Len(validator_list) : validator_list'[k].vote = validator_list[k].vote
      BY <1>0, <2>2, <2>3, <2>4, <2>5, RewriteEntry
    <3> QED BY <1>1, <3>1 DEF SameSeats
  <2>7. reserve' \in Nat /\ validator_lamport_balances' \in [Indices -> Nat]
    BY <1>0, <2>1 DEF Typed
  <2> QED BY <1>2, <2>6, <2>7
<1> QED BY <1>1, <1>3, <1>4, <1>5

\* A list without one of its entries.
LEMMA RemoveFacts ==
  ASSUME NEW S, NEW s \in Seq(S), NEW k \in 1 .. Len(s)
  PROVE  /\ RemoveAt(s, k) \in Seq(S) /\ Len(RemoveAt(s, k)) = Len(s) - 1
         /\ \A j \in 1 .. Len(s) - 1 : RemoveAt(s, k)[j] = IF j < k THEN s[j] ELSE s[j + 1]
<1> DEFINE a == SubSeq(s, 1, k - 1)
           b == SubSeq(s, k + 1, Len(s))
<1>1. /\ a \in Seq(S) /\ Len(a) = k - 1 /\ \A j \in 1 .. k - 1 : a[j] = s[j]
      /\ b \in Seq(S) /\ Len(b) = Len(s) - k /\ \A j \in 1 .. Len(s) - k : b[j] = s[k + j]
  OBVIOUS
<1>2. RemoveAt(s, k) = a \o b
  BY DEF RemoveAt
<1> HIDE DEF a, b
<1>3. a \o b \in Seq(S) /\ Len(a \o b) = Len(s) - 1
  <2>1. a \in Seq(S) /\ b \in Seq(S)
    BY <1>1
  <2>2. a \o b \in Seq(S) /\ Len(a \o b) = Len(a) + Len(b)
    BY <2>1
  <2>3. Len(a) + Len(b) = Len(s) - 1
    BY <1>1
  <2> QED BY <2>2, <2>3
<1>4. ASSUME NEW j \in 1 .. Len(s) - 1 PROVE (a \o b)[j] = IF j < k THEN s[j] ELSE s[j + 1]
  <2>1. CASE j < k
    BY <1>1, <2>1
  <2>2. CASE ~(j < k)
    <3>1. (a \o b)[j] = b[j - Len(a)]
      BY <1>1, <2>2
    <3>2. b[j - Len(a)] = s[k + (j - (k - 1))] /\ k + (j - (k - 1)) = j + 1
      BY <1>1, <2>2
    <3> QED BY <2>2, <3>1, <3>2
  <2> QED BY <2>1, <2>2
<1> QED BY <1>2, <1>3, <1>4

\* An entry leaves the list: the seats are the same.
LEMMA CleanupStep ==
  ASSUME Typed, NEW i \in Indices, CleanupRemovedValidatorEntry(i)
  PROVE  /\ Typed' /\ Seats' = Seats /\ Seating' = Seating
         /\ UNCHANGED <<targets, total_stake_targets, directed_stake_lamports,
                        directed_stake_meta_indices, astray>>
<1> DEFINE n == Len(validator_list)
<1>0. Typed
  OBVIOUS
<1>1. /\ leaving = Nobody /\ i < n
      /\ leaving' = [index |-> i, vote |-> Entry(i).vote]
      /\ reserve' = reserve + Entry(i).active
      /\ validator_list' = RemoveAt(validator_list, i + 1)
      /\ UNCHANGED <<targets, total_stake_targets, directed_unstake_total, directed_stake_lamports,
                     directed_stake_meta_indices, validator_lamport_balances, num_pool_validators,
                     astray>>
  BY DEF CleanupRemovedValidatorEntry, meta, state
<1>2. n \in Nat /\ i \in 0 .. n - 1 /\ i \in Nat /\ i + 1 \in 1 .. n /\ validator_list \in Seq(EntryType)
  <2>1. n \in Nat /\ i \in Nat
    BY <1>0, ListFacts, Numbers
  <2> QED BY <1>0, <1>1, <2>1 DEF Typed
<1>3. Entry(i).vote \in Votes /\ Entry(i).active \in Nat /\ reserve' \in Nat
  <2>1. Entry(i).vote \in Votes /\ Entry(i).active \in Nat
    BY <1>0, <1>2, ListFacts
  <2> QED BY <1>0, <1>1, <2>1 DEF Typed
<1>4. /\ validator_list' \in Seq(EntryType) /\ Len(validator_list') = n - 1
      /\ \A j \in 1 .. n - 1 : validator_list'[j] = IF j < i + 1 THEN validator_list[j]
                                                    ELSE validator_list[j + 1]
  BY <1>1, <1>2, RemoveFacts
<1>5. leaving'.index = i /\ leaving'.vote = Entry(i).vote /\ leaving' # Nobody /\ leaving' \in LeavingType
  <2>1. leaving'.index = i /\ leaving'.vote = Entry(i).vote /\ leaving' \in LeavingType
    BY <1>1, <1>2, <1>3 DEF LeavingType
  <2>2. Nobody.vote \notin Votes
    BY Numbers DEF Nobody
  <2> QED BY <1>3, <2>1, <2>2
<1>6. Seats' = Seats /\ Seats = n
  BY <1>1, <1>2, <1>4, <1>5 DEF Seats
<1>7. Typed'
  BY <1>0, <1>1, <1>2, <1>3, <1>4, <1>5, <1>6 DEF Typed
<1>8. ASSUME NEW j \in 0 .. n - 1 PROVE (Seating')[j] = Seating[j]
  <2>1. /\ Seating[j] = validator_list[j + 1].vote
        /\ (Seating')[j] = IF j < i THEN validator_list'[j + 1].vote
                           ELSE IF j = i THEN Entry(i).vote ELSE validator_list'[j].vote
    BY <1>1, <1>5, <1>6 DEF Seating
  <2>2. CASE j < i
    <3>1. j + 1 \in 1 .. n - 1 /\ j + 1 < i + 1
      BY <1>2, <2>2
    <3> QED BY <1>4, <2>1, <2>2, <3>1
  <2>3. CASE j = i
    BY <1>2, <2>1, <2>3 DEF Entry
  <2>4. CASE j > i
    <3>1. j \in 1 .. n - 1 /\ ~(j < i + 1)
      BY <1>2, <2>4
    <3>2. validator_list'[j] = validator_list[j + 1]
      BY <1>4, <3>1
    <3> QED BY <1>2, <2>1, <2>4, <3>2
  <2> QED BY <1>2, <2>2, <2>3, <2>4
<1>9. Seating' = Seating
  BY <1>6, <1>8 DEF Seating
<1> QED BY <1>0, <1>1, <1>6, <1>7, <1>9

\* A validator joins at the end.
LEMMA AddStep ==
  ASSUME Typed, NEW v \in Votes, AddValidator(v)
  PROVE  /\ Typed' /\ Seats' = Seats + 1
         /\ \A j \in 0 .. Seats - 1 : (Seating')[j] = Seating[j]
         /\ (Seating')[Seats] = v
         /\ \A j \in 0 .. Seats - 1 : Seating[j] # v
         /\ UNCHANGED <<targets, total_stake_targets, directed_stake_lamports,
                        directed_stake_meta_indices, num_pool_validators>>
<1> DEFINE n == Len(validator_list)
           e == [vote |-> v, active |-> 0, transient |-> 0]
<1>0. Typed
  OBVIOUS
<1>1. /\ leaving = Nobody /\ leaving' = Nobody /\ n < MaxValidators /\ ~InList(v)
      /\ validator_list' = Append(validator_list, e)
      /\ UNCHANGED <<targets, total_stake_targets, directed_unstake_total, directed_stake_lamports,
                     directed_stake_meta_indices, validator_lamport_balances, num_pool_validators,
                     reserve, leaving>>
  BY DEF AddValidator, meta
<1>2. n \in Nat /\ validator_list \in Seq(EntryType) /\ e \in EntryType /\ e.vote = v
  BY <1>0, ListFacts DEF Typed, EntryType
<1> HIDE DEF e
<1>3. /\ validator_list' \in Seq(EntryType) /\ Len(validator_list') = n + 1
      /\ \A j \in 1 .. n : validator_list'[j] = validator_list[j]
      /\ validator_list'[n + 1] = e
  BY <1>1, <1>2
<1>4. Seats' = Seats + 1 /\ Seats = n
  BY <1>1, <1>2, <1>3 DEF Seats
<1>5. Typed'
  <2>1. num_pool_validators \in Nat /\ num_pool_validators <= n /\ MaxValidators \in Nat
    BY <1>0, <1>4, Numbers DEF Typed
  <2>2. num_pool_validators' <= Seats' /\ Seats' <= MaxValidators
    BY <1>1, <1>2, <1>4, <2>1
  <2> QED BY <1>0, <1>1, <1>3, <2>2 DEF Typed
<1>6. /\ \A j \in 0 .. n - 1 : Seating[j] = validator_list[j + 1].vote
      /\ \A j \in 0 .. n : (Seating')[j] = validator_list'[j + 1].vote
  BY <1>1, <1>2, <1>4 DEF Seating
<1>7. ASSUME NEW j \in 0 .. n - 1 PROVE (Seating')[j] = Seating[j] /\ Seating[j] # v
  <2>1. j + 1 \in 1 .. n /\ j \in 0 .. n
    BY <1>2
  <2>2. validator_list[j + 1].vote # v
    BY <1>1, <2>1 DEF InList
  <2> QED BY <1>3, <1>6, <2>1, <2>2
<1>8. (Seating')[n] = v
  BY <1>2, <1>3, <1>6
<1> QED BY <1>0, <1>1, <1>4, <1>5, <1>7, <1>8

\* The state drops the seat of the validator that has left.
LEMMA RemoveStep ==
  ASSUME Typed, RemoveValidator
  PROVE  LET index == leaving.index
             num == IF index < num_pool_validators THEN num_pool_validators - 1
                    ELSE num_pool_validators
         IN  /\ Typed' /\ Seats' = Seats - 1
             /\ num_pool_validators' = num /\ num \in 0 .. Seats - 1
             /\ index \in 0 .. Seats - 1
             /\ \A j \in 0 .. Seats - 2 : (Seating')[j] = IF j < index THEN Seating[j] ELSE Seating[j + 1]
             /\ directed_stake_lamports' = ShiftArray(directed_stake_lamports, index, num, 0)
             /\ directed_stake_meta_indices' =
                  ShiftArray(directed_stake_meta_indices, index, num, NoTarget)
             /\ astray' = AstrayAfter(index, num)
             /\ UNCHANGED <<targets, total_stake_targets>>
<1> DEFINE n == Len(validator_list)
           index == leaving.index
           num == IF index < num_pool_validators THEN num_pool_validators - 1 ELSE num_pool_validators
<1>0. Typed
  OBVIOUS
<1>1. /\ leaving # Nobody /\ leaving' = Nobody /\ num_pool_validators' = num
      /\ validator_lamport_balances' =
           ShiftArray(validator_lamport_balances, index, num, LamportBalanceDefault)
      /\ directed_stake_lamports' = ShiftArray(directed_stake_lamports, index, num, 0)
      /\ directed_stake_meta_indices' =
           ShiftArray(directed_stake_meta_indices, index, num, NoTarget)
      /\ astray' = AstrayAfter(index, num)
      /\ UNCHANGED <<targets, total_stake_targets, directed_unstake_total, validator_list, reserve>>
  BY DEF RemoveValidator
<1>2. n \in Nat /\ index \in Nat /\ index <= n /\ num_pool_validators \in Nat
      /\ num_pool_validators <= Seats /\ Seats <= MaxValidators /\ Seats = n + 1
  <2>1. n \in Nat
    BY <1>0, ListFacts
  <2> QED BY <1>0, <1>1, <2>1 DEF Typed, Seats, LeavingType
<1>3. num \in 0 .. Seats - 1 /\ index \in 0 .. Seats - 1
  BY <1>2
<1>4. Seats' = Seats - 1 /\ Seats' = n
  BY <1>1, <1>2 DEF Seats
<1>5. leaving' \in LeavingType
  BY <1>1 DEF Nobody, LeavingType
<1> HIDE DEF num, index
<1>6. \A j \in Indices : j < num => j + 1 \in Indices
  <2>1. Indices = 0 .. MaxValidators - 1 /\ MaxValidators \in Nat
    BY Numbers
  <2> QED BY <1>2, <1>3, <2>1
<1>7. /\ validator_lamport_balances' \in [Indices -> Nat]
      /\ directed_stake_lamports' \in [Indices -> Nat]
      /\ directed_stake_meta_indices' \in [Indices -> Indices \cup {NoTarget}]
  <2>1. ASSUME NEW S, NEW a \in [Indices -> S], NEW d \in S
        PROVE  ShiftArray(a, index, num, d) \in [Indices -> S]
    BY <1>6 DEF ShiftArray
  <2>2. LamportBalanceDefault \in Nat /\ 0 \in Nat /\ NoTarget \in Indices \cup {NoTarget}
    BY Numbers
  <2>3. /\ validator_lamport_balances \in [Indices -> Nat]
        /\ directed_stake_lamports \in [Indices -> Nat]
        /\ directed_stake_meta_indices \in [Indices -> Indices \cup {NoTarget}]
    BY <1>0 DEF Typed
  <2> QED BY <1>1, <2>1, <2>2, <2>3
<1>8. Typed'
  <2>1. num_pool_validators' \in Nat /\ num_pool_validators' <= Seats' /\ Seats' <= MaxValidators
    <3>1. MaxValidators \in Nat
      BY Numbers
    <3> QED BY <1>1, <1>2, <1>3, <1>4, <3>1
  <2> QED BY <1>0, <1>1, <1>5, <1>7, <2>1 DEF Typed
<1>9. ASSUME NEW j \in 0 .. Seats - 2
      PROVE  (Seating')[j] = IF j < index THEN Seating[j] ELSE Seating[j + 1]
  <2>1. j \in 0 .. Seats' - 1 /\ j \in 0 .. Seats - 1 /\ j + 1 \in 0 .. Seats - 1
    BY <1>2, <1>4
  <2>2. (Seating')[j] = validator_list[j + 1].vote
    BY <1>1, <2>1 DEF Seating
  <2>3. j < index => Seating[j] = validator_list[j + 1].vote
    BY <1>1, <2>1 DEF Seating, index
  <2>4. ~(j < index) => Seating[j + 1] = validator_list[j + 1].vote
    <3>1. ~(j < index) => ~(j + 1 < index) /\ j + 1 # index
      BY <1>2, <2>1
    <3> QED BY <1>1, <2>1, <3>1 DEF Seating, index
  <2> QED BY <2>2, <2>3, <2>4
<1> QED BY <1>0, <1>1, <1>3, <1>4, <1>8, <1>9 DEF num, index

\* The accounts as they are set up.
LEMMA InitTyped ==
  ASSUME Init
  PROVE  /\ Typed /\ Seats = Len(InitialPool) /\ num_pool_validators = Seats
         /\ \A j \in 0 .. Seats - 1 : Seating[j] = InitialPool[j + 1]
<1> DEFINE n == Len(InitialPool)
<1>1. n \in Nat /\ n <= MaxValidators /\ \A k \in 1 .. n : InitialPool[k] \in Votes
  BY DirectedAssumption
<1>2. \A k \in 1 .. n : [vote |-> InitialPool[k], active |-> 0, transient |-> 0] \in EntryType
  BY <1>1 DEF EntryType
<1>3. validator_list = [k \in 1 .. n |-> [vote |-> InitialPool[k], active |-> 0, transient |-> 0]]
      /\ leaving = Nobody /\ num_pool_validators = n
  BY DEF Init, InitFrom
<1>4. validator_list \in Seq(EntryType) /\ Len(validator_list) = n
  <2> HIDE DEF n
  <2> QED BY <1>1, <1>2, <1>3
<1>5. Seats = n
  BY <1>1, <1>3, <1>4 DEF Seats
<1>6. targets \in [Indices -> TargetType]
  <2>1. EmptyTarget \in TargetType
    BY DEF EmptyTarget, TargetType
  <2> QED BY <2>1 DEF Init, InitFrom
<1>7. /\ directed_stake_lamports \in [Indices -> Nat]
      /\ directed_stake_meta_indices \in [Indices -> Indices \cup {NoTarget}]
      /\ validator_lamport_balances \in [Indices -> Nat]
  BY Numbers DEF Init, InitFrom
<1>8. leaving \in LeavingType
  BY <1>3 DEF Nobody, LeavingType
<1>9. total_stake_targets = 0 /\ directed_unstake_total = 0 /\ reserve = 0
  BY DEF Init, InitFrom
<1>10. Typed
  BY <1>1, <1>3, <1>4, <1>5, <1>6, <1>7, <1>8, <1>9, Numbers DEF Typed
<1>11. \A j \in 0 .. Seats - 1 : Seating[j] = InitialPool[j + 1]
  <2>1. \A j \in 0 .. n - 1 : j + 1 \in 1 .. n
    BY <1>1
  <2>2. \A j \in 0 .. n - 1 : validator_list[j + 1].vote = InitialPool[j + 1]
    BY <1>3, <2>1
  <2> QED BY <1>3, <1>5, <2>2 DEF Seating
<1> QED BY <1>3, <1>5, <1>10, <1>11

\* Every step keeps the types.
LEMMA NextTyped == Typed /\ [Next]_vars => Typed'
<1> SUFFICES ASSUME Typed, [Next]_vars PROVE Typed'
  OBVIOUS
<1>1. CASE Next
  BY <1>1, RebalanceDirectedStep, RebalanceDirectedEndsStep, CopyStep, MaintenanceSteps, QuietSteps,
     ListSteps, CleanupStep, AddStep, RemoveStep DEF Next
<1>2. CASE UNCHANGED vars
  BY <1>2, QuietSteps
<1> QED BY <1>1, <1>2

\* The types hold throughout.
LEMMA SpecTyped == Spec => []Typed
<1>1. Init => Typed
  BY InitTyped
<1> QED BY <1>1, NextTyped, PTL DEF Spec

\* Only a directed rebalance adds to the total, and it stays within the cap.
LEMMA NextWithinCap == Typed /\ [Next]_vars => CapStep
<1> SUFFICES ASSUME Typed, [Next]_vars PROVE CapStep
  OBVIOUS
<1>1. CASE \E t \in Indices : RebalanceDirected(t)
  BY <1>1, RebalanceDirectedStep
<1>2. CASE ~\E t \in Indices : RebalanceDirected(t)
  <2>1. directed_unstake_total' = directed_unstake_total \/ directed_unstake_total' = 0
    BY <1>2 DEF Next, RebalanceDirectedMissing, RebalanceDirectedEnds, CopyDirectedStakeTargets,
       SyncDirectedStakeLamports, MigrateDirectedToAlgorithmic, ReallocDirectedStakeMeta, Rebalance,
       UncheckedTransition, StartCycle, AddValidator, CleanupRemovedValidatorEntry, RemoveValidator,
       EpochMaintenance, UpdateStakePool, NextEpoch, StakeMoves, ReserveMoves, meta, vars
  <2>2. directed_unstake_total \in Nat
    BY DEF Typed
  <2> QED BY <2>1, <2>2 DEF CapStep
<1> QED BY <1>1, <1>2

\* A crank that unstakes directed stake leaves what its cycle has unstaked within the
\* cap as the pool's stake then gives it, in whatever order targets are uploaded,
\* adjusted, rebalanced and migrated, however stake is deposited and withdrawn between
\* the cranks, and whichever records are astray.
THEOREM SpecWithinCap == Spec => WithinCap
<1>1. Typed /\ [Next]_vars => [directed_unstake_total' > directed_unstake_total =>
         directed_unstake_total' * 10000 <= PoolLamports * UnstakeCapBps]_vars
  BY NextWithinCap DEF CapStep
<1> QED BY <1>1, SpecTyped, PTL DEF Spec, WithinCap
-----------------------------------------------------------------------------
(* The two records of directed stake *)

\* Every seat is another validator's, and every target too.
Distinct ==
  /\ \A i, j \in 0 .. Seats - 1 : Seating[i] = Seating[j] => i = j
  /\ \A t, u \in Indices :
       targets[t].vote = targets[u].vote /\ targets[t].vote # NoVote => t = u

\* The targets are in the first slots.
Counted == \A t \in Indices : targets[t].vote # NoVote => t < total_stake_targets

\* The arrays by index lead from each seat to the validator's target, and the
\* directed stake is what the target says; elsewhere they are as set up. All this
\* except where they are astray.
Mirrored ==
  \A i \in Indices : i \notin astray =>
    IF i < Seats /\ HasTarget(Seating[i])
    THEN /\ directed_stake_meta_indices[i] \in Indices
         /\ targets[directed_stake_meta_indices[i]].vote = Seating[i]
         /\ directed_stake_lamports[i] = targets[directed_stake_meta_indices[i]].staked
    ELSE directed_stake_meta_indices[i] = NoTarget /\ directed_stake_lamports[i] = 0

MirrorInv == Distinct /\ Counted /\ Mirrored

\* Seats are validators'.
LEMMA SeatFacts ==
  ASSUME Typed
  PROVE  /\ Seats \in Nat /\ Seats <= MaxValidators
         /\ \A i \in 0 .. Seats - 1 : i \in Indices /\ Seating[i] \in Votes
         /\ leaving = Nobody => /\ Seats = Len(validator_list)
                                /\ \A i \in 0 .. Seats - 1 : Seating[i] = Entry(i).vote
<1> DEFINE n == Len(validator_list)
<1>1. n \in Nat /\ \A k \in 1 .. n : validator_list[k].vote \in Votes
  BY ListFacts DEF EntryType
<1>2. Seats \in Nat /\ Seats <= MaxValidators
  BY <1>1 DEF Seats, Typed
<1>3. leaving # Nobody => leaving.vote \in Votes /\ leaving.index \in Nat /\ leaving.index <= n
  BY DEF Typed, LeavingType
<1>4. ASSUME NEW i \in 0 .. Seats - 1 PROVE i \in Indices /\ Seating[i] \in Votes
  <2>1. i \in Indices
    BY <1>2, Numbers
  <2>2. /\ leaving = Nobody \/ i < leaving.index => i + 1 \in 1 .. n
        /\ ~(leaving = Nobody \/ i < leaving.index) /\ i # leaving.index => i \in 1 .. n
    BY <1>1, <1>3 DEF Seats
  <2> QED BY <1>1, <1>3, <2>1, <2>2 DEF Seating
<1>5. leaving = Nobody => Seats = n /\ \A i \in 0 .. Seats - 1 : Seating[i] = Entry(i).vote
  BY <1>1 DEF Seats, Seating, Entry
<1> QED BY <1>2, <1>4, <1>5

\* Nothing that the records depend on has changed.
LEMMA MirrorKept ==
  ASSUME MirrorInv, Seats' = Seats, Seating' = Seating,
         UNCHANGED <<targets, total_stake_targets, directed_stake_lamports,
                     directed_stake_meta_indices, astray>>
  PROVE  MirrorInv'
<1>1. \A v : HasTarget(v)' = HasTarget(v)
  BY DEF HasTarget
<1>2. Distinct' /\ Counted'
  BY DEF MirrorInv, Distinct, Counted
<1>3. Mirrored'
  BY <1>1 DEF MirrorInv, Mirrored
<1> QED BY <1>2, <1>3 DEF MirrorInv

\* The seat of a validator of the list: its index there, or, if that is misplaced,
\* the next one.
LEMMA EntrySeat ==
  ASSUME Typed, NEW i \in 0 .. Len(validator_list) - 1
  PROVE  /\ i \in Indices /\ i < Seats /\ Entry(i).vote \in Votes
         /\ \E k \in 0 .. Seats - 1 : /\ Seating[k] = Entry(i).vote
                                      /\ k = i \/ (i \in Misplaced(i) /\ k \in Misplaced(i))
         /\ leaving = Nobody => Misplaced(i) = {}
<1> DEFINE n == Len(validator_list)
<1>1. n \in Nat /\ i \in Indices /\ Entry(i).vote \in Votes
  BY ListFacts
<1>2. i < Seats
  BY <1>1 DEF Seats
<1>3. leaving # Nobody => leaving.index \in Nat
  BY DEF Typed, LeavingType
<1>4. CASE leaving = Nobody \/ i < leaving.index
  <2>1. i \in 0 .. Seats - 1
    BY <1>1 DEF Seats
  <2>2. Seating[i] = Entry(i).vote
    BY <1>4, <2>1 DEF Seating, Entry
  <2> QED BY <1>1, <1>2, <2>1, <2>2 DEF Misplaced
<1>5. CASE ~(leaving = Nobody \/ i < leaving.index)
  <2>1. i + 1 \in 0 .. Seats - 1 /\ ~(i + 1 < leaving.index) /\ i + 1 # leaving.index
    BY <1>1, <1>3, <1>5 DEF Seats
  <2>2. Seating[i + 1] = Entry(i).vote
    BY <1>5, <2>1 DEF Seating, Entry
  <2>3. Misplaced(i) = {i, i + 1}
    BY <1>5 DEF Misplaced
  <2> QED BY <1>1, <1>2, <1>5, <2>1, <2>2, <2>3
<1> QED BY <1>4, <1>5

\* Both records of one target are rewritten alike, or at an index that is astray.
LEMMA BooksMirrored ==
  ASSUME Typed, MirrorInv, SameSeats,
         NEW t \in Indices, NEW i \in 0 .. Len(validator_list) - 1,
         Entry(i).vote = targets[t].vote, NEW staked \in Nat, NEW directed \in Nat, NEW balance \in Nat,
         WriteBooks(i, t, staked, directed, balance),
         directed_stake_lamports[i] = targets[t].staked => directed = staked,
         astray' = astray \cup Misplaced(i),
         UNCHANGED <<total_stake_targets, directed_stake_meta_indices>>
  PROVE  MirrorInv'
<1> DEFINE m == directed_stake_meta_indices
<1>0. Seats' = Seats /\ Seating' = Seating /\ Seats \in Nat
  BY SeatsKept, SeatFacts
<1>1. i \in Indices /\ i < Seats /\ targets[t].vote \in Votes
  BY EntrySeat
<1>2. PICK k \in 0 .. Seats - 1 :
        Seating[k] = targets[t].vote /\ (k = i \/ (i \in Misplaced(i) /\ k \in Misplaced(i)))
  BY EntrySeat
<1>3. \A u \in Indices : /\ targets'[u].vote = targets[u].vote
                         /\ targets'[u].staked = IF u = t THEN staked ELSE targets[u].staked
  BY <1>1, BooksTyped
<1>4. \A v : HasTarget(v)' = HasTarget(v)
  BY <1>3 DEF HasTarget
<1>5. HasTarget(Seating[k]) /\ targets[t].vote # NoVote
  BY <1>1, <1>2, Numbers DEF HasTarget
<1>6. /\ directed_stake_lamports'[i] = directed
      /\ \A j \in Indices : j # i => directed_stake_lamports'[j] = directed_stake_lamports[j]
  BY <1>1 DEF WriteBooks, Typed
<1>7. Distinct' /\ Counted'
  BY <1>0, <1>3 DEF MirrorInv, Distinct, Counted
<1>8. Mirrored'
  <2> SUFFICES ASSUME NEW j \in Indices, j \notin astray'
               PROVE  IF j < Seats /\ HasTarget(Seating[j])
                      THEN /\ m[j] \in Indices /\ targets'[m[j]].vote = Seating[j]
                           /\ directed_stake_lamports'[j] = targets'[m[j]].staked
                      ELSE m[j] = NoTarget /\ directed_stake_lamports'[j] = 0
    BY <1>0, <1>4 DEF Mirrored
  <2>0. j \notin astray /\ j \notin Misplaced(i)
    OBVIOUS
  <2>1. IF j < Seats /\ HasTarget(Seating[j])
        THEN /\ m[j] \in Indices /\ targets[m[j]].vote = Seating[j]
             /\ directed_stake_lamports[j] = targets[m[j]].staked
        ELSE m[j] = NoTarget /\ directed_stake_lamports[j] = 0
    BY <2>0 DEF MirrorInv, Mirrored
  <2>2. CASE j = k
    <3>1. j = i
      BY <1>2, <2>0, <2>2
    <3>2. m[i] \in Indices /\ targets[m[i]].vote = targets[t].vote
          /\ directed_stake_lamports[i] = targets[m[i]].staked
      BY <1>1, <1>2, <1>5, <2>1, <2>2, <3>1
    <3>3. m[i] = t
      BY <1>5, <3>2 DEF MirrorInv, Distinct
    <3>4. directed = staked
      BY <3>2, <3>3
    <3> QED BY <1>1, <1>2, <1>3, <1>5, <1>6, <2>2, <3>1, <3>3, <3>4
  <2>3. CASE j # k
    <3>1. j # i
      BY <1>2, <2>0, <2>3
    <3>2. j < Seats => Seating[j] # Seating[k]
      <4> SUFFICES ASSUME j < Seats PROVE Seating[j] # Seating[k]
        OBVIOUS
      <4>1. j \in 0 .. Seats - 1
        BY <1>0, Numbers
      <4> QED BY <2>3, <4>1 DEF MirrorInv, Distinct
    <3>3. j < Seats /\ HasTarget(Seating[j]) => m[j] # t
      BY <1>2, <2>1, <3>2
    <3> QED BY <1>3, <1>6, <2>1, <3>1, <3>3
  <2> QED BY <2>2, <2>3
<1> QED BY <1>7, <1>8 DEF MirrorInv

\* An upload writes the index of a new target, or leaves both records alone.
LEMMA CopyMirrored ==
  ASSUME Typed, MirrorInv,
         NEW i \in Indices, NEW goal \in Goals, CopyDirectedStakeTargets(i, goal)
  PROVE  MirrorInv'
<1> DEFINE v == Entry(i).vote
           m == directed_stake_meta_indices
           d == directed_stake_lamports
           tot == total_stake_targets
<1>0. Typed /\ Seats' = Seats /\ Seating' = Seating
  BY CopyStep, SeatsKept
<1>1. i \in 0 .. Len(validator_list) - 1
  <2>1. i < Len(validator_list)
    BY DEF CopyDirectedStakeTargets
  <2> QED BY <1>0, <2>1, ListFacts, Numbers
<1>2. i < Seats /\ v \in Votes /\ v # NoVote /\ Seats \in Nat
  BY <1>0, <1>1, EntrySeat, SeatFacts, Numbers
<1>3. CASE HasTarget(v)
  <2> DEFINE u == TargetOf(v)
             e == [targets[u] EXCEPT !.goal = goal]
  <2>1. u \in Indices /\ targets[u] \in TargetType
    BY <1>0, <1>3 DEF HasTarget, TargetOf, Typed
  <2>2. targets' = [targets EXCEPT ![u] = e]
        /\ UNCHANGED <<total_stake_targets, directed_stake_lamports, directed_stake_meta_indices, astray>>
    BY <1>3 DEF CopyDirectedStakeTargets
  <2>3. e.vote = targets[u].vote /\ e.staked = targets[u].staked
    BY <2>1 DEF TargetType
  <2> HIDE DEF e, u
  <2>4. \A w \in Indices : targets'[w].vote = targets[w].vote /\ targets'[w].staked = targets[w].staked
    BY <1>0, <2>1, <2>2, <2>3 DEF Typed
  <2>5. \A w : HasTarget(w)' = HasTarget(w)
    BY <2>4 DEF HasTarget
  <2>6. Distinct' /\ Counted'
    BY <1>0, <2>2, <2>4 DEF MirrorInv, Distinct, Counted
  <2>7. Mirrored'
    BY <1>0, <2>2, <2>4, <2>5 DEF MirrorInv, Mirrored
  <2> QED BY <2>6, <2>7 DEF MirrorInv
<1>4. CASE ~HasTarget(v)
  <2> DEFINE e == [vote |-> v, goal |-> goal, staked |-> 0]
  <2>0. PICK k \in 0 .. Seats - 1 :
          Seating[k] = v /\ (k = i \/ (i \in Misplaced(i) /\ k \in Misplaced(i)))
    BY <1>0, <1>1, EntrySeat
  <2>1. /\ tot < MaxTargets
        /\ targets' = [targets EXCEPT ![tot] = e]
        /\ total_stake_targets' = tot + 1
        /\ directed_stake_lamports' = [d EXCEPT ![i] = 0]
        /\ directed_stake_meta_indices' = [m EXCEPT ![i] = tot]
        /\ astray' = (astray \ {i}) \cup Misplaced(i)
    BY <1>4 DEF CopyDirectedStakeTargets
  <2>2. tot \in Indices /\ targets \in [Indices -> TargetType] /\ d \in [Indices -> Nat]
        /\ m \in [Indices -> Indices \cup {NoTarget}]
    <3>1. tot \in Nat /\ MaxTargets <= MaxValidators /\ MaxTargets \in Nat /\ MaxValidators \in Nat
          /\ Indices = 0 .. MaxValidators - 1
      BY <1>0, Numbers DEF Typed
    <3>2. tot \in Indices
      BY <2>1, <3>1
    <3> QED BY <1>0, <3>2 DEF Typed
  <2>3. e.vote = v /\ e.staked = 0
    OBVIOUS
  <2> HIDE DEF e
  <2>4. targets[tot].vote = NoVote
    BY <2>2, Numbers DEF MirrorInv, Counted
  <2>5. /\ targets'[tot].vote = v /\ targets'[tot].staked = 0
        /\ \A w \in Indices : w # tot => targets'[w] = targets[w]
    BY <2>1, <2>2, <2>3
  <2>6. \E w \in Indices : targets'[w].vote = v
    BY <2>2, <2>5
  <2>7. \A w \in Indices : targets[w].vote # v
    BY <1>4 DEF HasTarget
  <2>8. Distinct'
    <3>1. ASSUME NEW x \in Indices, NEW y \in Indices, targets'[x].vote = targets'[y].vote,
                 targets'[x].vote # NoVote
          PROVE  x = y
      BY <2>5, <2>7, <3>1 DEF MirrorInv, Distinct
    <3>2. \A a, b \in 0 .. Seats - 1 : Seating[a] = Seating[b] => a = b
      BY DEF MirrorInv, Distinct
    <3> QED BY <1>0, <3>1, <3>2 DEF Distinct
  <2>9. Counted'
    <3>1. ASSUME NEW w \in Indices PROVE targets'[w].vote # NoVote => w < tot + 1
      <4>1. w \in Nat /\ tot \in Nat
        BY <2>2, Numbers
      <4>2. targets[w].vote # NoVote => w < tot
        BY DEF MirrorInv, Counted
      <4> QED BY <1>2, <2>5, <4>1, <4>2
    <3> QED BY <2>1, <3>1 DEF Counted
  <2>10. Mirrored'
    <3> SUFFICES ASSUME NEW j \in Indices, j \notin astray'
                 PROVE  IF j < Seats /\ HasTarget(Seating[j])'
                        THEN /\ directed_stake_meta_indices'[j] \in Indices
                             /\ targets'[directed_stake_meta_indices'[j]].vote = Seating[j]
                             /\ directed_stake_lamports'[j] = targets'[directed_stake_meta_indices'[j]].staked
                        ELSE directed_stake_meta_indices'[j] = NoTarget /\ directed_stake_lamports'[j] = 0
      BY <1>0 DEF Mirrored, HasTarget
    <3>0. j \notin Misplaced(i) /\ (j # i => j \notin astray)
      BY <2>1
    <3>1. j # i => IF j < Seats /\ HasTarget(Seating[j])
                   THEN /\ m[j] \in Indices /\ targets[m[j]].vote = Seating[j]
                        /\ d[j] = targets[m[j]].staked
                   ELSE m[j] = NoTarget /\ d[j] = 0
      BY <3>0 DEF MirrorInv, Mirrored
    <3>2. CASE j = i
      <4>0. Seating[i] = v
        BY <2>0, <3>0, <3>2
      <4>1. directed_stake_meta_indices'[i] = tot /\ directed_stake_lamports'[i] = 0
        BY <2>1, <2>2
      <4> QED BY <1>0, <1>2, <2>2, <2>5, <2>6, <3>2, <4>0, <4>1 DEF HasTarget
    <3>3. CASE j # i
      <4>1. directed_stake_meta_indices'[j] = m[j] /\ directed_stake_lamports'[j] = d[j]
        BY <2>1, <2>2, <3>3
      <4>2. j < Seats => Seating[j] # v /\ Seating[j] # NoVote
        <5> SUFFICES ASSUME j < Seats PROVE Seating[j] # v /\ Seating[j] # NoVote
          OBVIOUS
        <5>1. j \in 0 .. Seats - 1
          BY <1>2, Numbers
        <5>2. Seating[j] \in Votes
          BY <1>0, <5>1, SeatFacts
        <5>3. j # k
          BY <2>0, <3>0, <3>3
        <5> QED BY <2>0, <5>1, <5>2, <5>3, Numbers DEF MirrorInv, Distinct
      <4>3. j < Seats => HasTarget(Seating[j])' = HasTarget(Seating[j])
        <5> SUFFICES ASSUME j < Seats PROVE HasTarget(Seating[j])' = HasTarget(Seating[j])
          OBVIOUS
        <5>1. (\E w \in Indices : targets'[w].vote = Seating[j]) <=> (\E w \in Indices : targets[w].vote = Seating[j])
          BY <2>2, <2>4, <2>5, <4>2
        <5> QED BY <1>0, <5>1 DEF HasTarget
      <4>4. CASE j < Seats /\ HasTarget(Seating[j])
        <5>1. m[j] \in Indices /\ targets[m[j]].vote = Seating[j] /\ d[j] = targets[m[j]].staked
          BY <3>1, <3>3, <4>4
        <5>2. m[j] # tot
          BY <2>4, <4>2, <4>4, <5>1
        <5>3. targets'[m[j]] = targets[m[j]]
          BY <2>5, <5>1, <5>2
        <5> QED BY <4>1, <4>3, <4>4, <5>1, <5>3
      <4>5. CASE ~(j < Seats /\ HasTarget(Seating[j]))
        BY <3>1, <3>3, <4>1, <4>3, <4>5
      <4> QED BY <4>4, <4>5
    <3> QED BY <3>2, <3>3
  <2> QED BY <2>8, <2>9, <2>10 DEF MirrorInv
<1> QED BY <1>3, <1>4

\* The maintenance of the directed account keeps the records in step.
LEMMA MaintenanceMirrored ==
  ASSUME Typed, MirrorInv,
         SyncDirectedStakeLamports \/ MigrateDirectedToAlgorithmic \/ ReallocDirectedStakeMeta
  PROVE  MirrorInv'
<1> DEFINE m == directed_stake_meta_indices
           d == directed_stake_lamports
<1>0. Typed /\ Seats' = Seats /\ Seating' = Seating
  BY MaintenanceSteps, SeatsKept
<1>1. UNCHANGED total_stake_targets
  BY DEF SyncDirectedStakeLamports, MigrateDirectedToAlgorithmic, ReallocDirectedStakeMeta
<1>2. CASE SyncDirectedStakeLamports
  <2>1. UNCHANGED <<targets, directed_stake_meta_indices, astray>>
    BY <1>2 DEF SyncDirectedStakeLamports
  <2>2. ASSUME NEW j \in Indices, j \notin astray PROVE directed_stake_lamports'[j] = d[j]
    <3>1. directed_stake_lamports'[j] \in {d[j]} \cup (IF m[j] # NoTarget THEN {targets[m[j]].staked} ELSE {})
      BY <1>2 DEF SyncDirectedStakeLamports
    <3>2. m[j] # NoTarget => d[j] = targets[m[j]].staked
      BY <2>2 DEF MirrorInv, Mirrored
    <3> QED BY <3>1, <3>2
  <2>3. \A w : HasTarget(w)' = HasTarget(w)
    BY <2>1 DEF HasTarget
  <2>4. Distinct' /\ Counted'
    BY <1>0, <1>1, <2>1 DEF MirrorInv, Distinct, Counted
  <2>5. Mirrored'
    BY <1>0, <2>1, <2>2, <2>3 DEF MirrorInv, Mirrored
  <2> QED BY <2>4, <2>5 DEF MirrorInv
<1>3. CASE MigrateDirectedToAlgorithmic
  <2>1. \A w \in Indices : targets'[w].vote = targets[w].vote /\ targets'[w].staked = 0
    <3>1. \A w \in Indices : targets[w] \in TargetType
      BY <1>0 DEF Typed
    <3>2. \A e \in TargetType : /\ [e EXCEPT !.goal = 0, !.staked = 0].vote = e.vote
                                /\ [e EXCEPT !.goal = 0, !.staked = 0].staked = 0
      BY DEF TargetType
    <3>3. \A w \in Indices : targets'[w] = [targets[w] EXCEPT !.goal = 0, !.staked = 0]
      BY <1>3 DEF MigrateDirectedToAlgorithmic
    <3> QED BY <3>1, <3>2, <3>3
  <2>2. /\ UNCHANGED <<directed_stake_meta_indices, astray>>
        /\ \A j \in Indices : directed_stake_lamports'[j] = 0
    BY <1>3 DEF MigrateDirectedToAlgorithmic
  <2>3. \A w : HasTarget(w)' = HasTarget(w)
    BY <2>1 DEF HasTarget
  <2>4. Distinct' /\ Counted'
    BY <1>0, <1>1, <2>1 DEF MirrorInv, Distinct, Counted
  <2>5. Mirrored'
    BY <1>0, <2>1, <2>2, <2>3 DEF MirrorInv, Mirrored
  <2> QED BY <2>4, <2>5 DEF MirrorInv
<1>4. CASE ReallocDirectedStakeMeta
  <2>1. \A w \in Indices : targets'[w].vote = NoVote
    BY <1>4 DEF ReallocDirectedStakeMeta, EmptyTarget
  <2>2. \A j \in Indices : directed_stake_meta_indices'[j] = NoTarget /\ directed_stake_lamports'[j] = 0
    BY <1>4 DEF ReallocDirectedStakeMeta
  <2>3. Distinct'
    BY <1>0, <2>1 DEF MirrorInv, Distinct
  <2>4. Counted'
    BY <2>1 DEF Counted
  <2>5. \A j \in 0 .. Seats - 1 : ~(\E w \in Indices : targets'[w].vote = Seating[j])
    <3>1. \A j \in 0 .. Seats - 1 : Seating[j] # NoVote
      BY <1>0, SeatFacts, Numbers
    <3> QED BY <2>1, <3>1
  <2>6. Mirrored'
    <3>1. \A j \in Indices : j < Seats => j \in 0 .. Seats - 1
      BY <1>0, SeatFacts, Numbers
    <3> QED BY <1>0, <2>2, <2>5, <3>1 DEF Mirrored, HasTarget
  <2> QED BY <2>3, <2>4, <2>6 DEF MirrorInv
<1> QED BY <1>2, <1>3, <1>4

\* So do the steps that move no directed stake.
LEMMA QuietMirrored ==
  ASSUME Typed, MirrorInv,
         \/ \E t \in Indices, late \in BOOLEAN : RebalanceDirectedMissing(t, late)
         \/ UncheckedTransition \/ StartCycle \/ EpochMaintenance \/ NextEpoch
         \/ \E amount \in {-1, 1} : ReserveMoves(amount)
         \/ UNCHANGED vars
  PROVE  MirrorInv'
<1>0. Seats' = Seats /\ Seating' = Seating
  BY QuietSteps, SeatsKept
<1>1. UNCHANGED <<targets, total_stake_targets, directed_stake_lamports, directed_stake_meta_indices,
                  astray>>
  BY DEF RebalanceDirectedMissing, UncheckedTransition, StartCycle, EpochMaintenance, NextEpoch,
     ReserveMoves, meta, vars
<1> QED BY <1>0, <1>1, MirrorKept

\* A validator that joins has no target, or its index is astray.
LEMMA AddMirrored ==
  ASSUME Typed, MirrorInv, NEW v \in Votes, AddValidator(v)
  PROVE  MirrorInv'
<1>0. Typed /\ Seats \in Nat
  BY SeatFacts
<1>1. /\ Seats' = Seats + 1
      /\ \A j \in 0 .. Seats - 1 : (Seating')[j] = Seating[j] /\ Seating[j] # v
      /\ (Seating')[Seats] = v
      /\ UNCHANGED <<targets, total_stake_targets, directed_stake_lamports,
                     directed_stake_meta_indices, num_pool_validators>>
  BY AddStep
<1>2. astray \subseteq astray' /\ (HasTarget(v) => Seats \in astray')
  <2>1. leaving = Nobody /\ astray' = IF HasTarget(v) THEN astray \cup {Len(validator_list)} ELSE astray
    BY DEF AddValidator
  <2>2. Seats = Len(validator_list)
    BY <1>0, <2>1, SeatFacts
  <2> QED BY <2>1, <2>2
<1>3. \A w : HasTarget(w)' = HasTarget(w)
  BY <1>1 DEF HasTarget
<1>4. \A j \in 0 .. Seats : j = Seats \/ j \in 0 .. Seats - 1
  BY <1>0
<1>5. Distinct'
  <2>1. \A i, j \in 0 .. Seats : (Seating')[i] = (Seating')[j] => i = j
    BY <1>1, <1>4 DEF MirrorInv, Distinct
  <2>2. 0 .. Seats' - 1 = 0 .. Seats
    BY <1>0, <1>1
  <2> QED BY <1>1, <2>1, <2>2 DEF MirrorInv, Distinct
<1>6. Counted'
  BY <1>1 DEF MirrorInv, Counted
<1>7. Mirrored'
  <2> SUFFICES ASSUME NEW j \in Indices, j \notin astray'
               PROVE  IF j < Seats' /\ HasTarget((Seating')[j])
                      THEN /\ directed_stake_meta_indices[j] \in Indices
                           /\ targets[directed_stake_meta_indices[j]].vote = (Seating')[j]
                           /\ directed_stake_lamports[j] = targets[directed_stake_meta_indices[j]].staked
                      ELSE directed_stake_meta_indices[j] = NoTarget /\ directed_stake_lamports[j] = 0
    BY <1>1 DEF Mirrored, HasTarget
  <2>1. j \in Nat
    BY Numbers
  <2>2. IF j < Seats /\ HasTarget(Seating[j])
        THEN /\ directed_stake_meta_indices[j] \in Indices
             /\ targets[directed_stake_meta_indices[j]].vote = Seating[j]
             /\ directed_stake_lamports[j] = targets[directed_stake_meta_indices[j]].staked
        ELSE directed_stake_meta_indices[j] = NoTarget /\ directed_stake_lamports[j] = 0
    BY <1>2 DEF MirrorInv, Mirrored
  <2>3. CASE j < Seats
    <3>1. j \in 0 .. Seats - 1 /\ j < Seats'
      BY <1>0, <1>1, <2>1, <2>3
    <3> QED BY <1>1, <2>2, <2>3, <3>1
  <2>4. CASE j = Seats
    <3>1. ~(j < Seats)
      BY <1>0, <2>4
    <3> QED BY <1>1, <1>2, <2>2, <2>4, <3>1
  <2>5. CASE j > Seats
    <3>1. ~(j < Seats) /\ ~(j < Seats')
      BY <1>0, <1>1, <2>1, <2>5
    <3> QED BY <2>2, <3>1
  <2> QED BY <1>0, <2>1, <2>3, <2>4, <2>5
<1> QED BY <1>5, <1>6, <1>7 DEF MirrorInv

\* Dropping a seat shifts both arrays up to the validators of the cycle; whom that
\* does not reach has no target, before or after, or is astray.
LEMMA RemoveMirrored ==
  ASSUME Typed, MirrorInv, RemoveValidator
  PROVE  MirrorInv'
<1> DEFINE m == directed_stake_meta_indices
           d == directed_stake_lamports
           index == leaving.index
           num == IF index < num_pool_validators THEN num_pool_validators - 1
                  ELSE num_pool_validators
           Plain(j) == m[j] = NoTarget /\ d[j] = 0
           Leads(j, v) == m[j] \in Indices /\ targets[m[j]].vote = v /\ d[j] = targets[m[j]].staked
<1>0. Seats \in Nat /\ num_pool_validators \in Nat /\ num_pool_validators <= Seats
  BY SeatFacts DEF Typed
<1>1. /\ Seats' = Seats - 1 /\ num \in 0 .. Seats - 1 /\ index \in 0 .. Seats - 1
      /\ \A j \in 0 .. Seats - 2 : (Seating')[j] = IF j < index THEN Seating[j] ELSE Seating[j + 1]
      /\ directed_stake_lamports' = ShiftArray(directed_stake_lamports, index, num, 0)
      /\ directed_stake_meta_indices' = ShiftArray(directed_stake_meta_indices, index, num, NoTarget)
      /\ astray' = AstrayAfter(index, num)
      /\ UNCHANGED <<targets, total_stake_targets>>
  BY RemoveStep
<1> HIDE DEF num, index
<1>2. ASSUME NEW j \in Indices, j \notin astray'
      PROVE  IF j = num THEN ~Targeted(IF j < index THEN j ELSE j + 1)
             ELSE IF index <= j /\ j < num THEN j + 1 \notin astray
             ELSE j \notin astray /\ ~(index <= j /\ (Targeted(j) \/ Targeted(j + 1)))
  BY <1>1, <1>2 DEF AstrayAfter
<1>3. \A w : HasTarget(w)' = HasTarget(w)
  BY <1>1 DEF HasTarget
<1>4. \A j \in Indices : j \notin astray => IF Targeted(j) THEN Leads(j, Seating[j]) ELSE Plain(j)
  BY DEF MirrorInv, Mirrored, Targeted
<1>5. \A j \in Indices :
        /\ j = num => directed_stake_meta_indices'[j] = NoTarget /\ directed_stake_lamports'[j] = 0
        /\ j # num /\ index <= j /\ j < num =>
             directed_stake_meta_indices'[j] = m[j + 1] /\ directed_stake_lamports'[j] = d[j + 1]
        /\ j # num /\ ~(index <= j /\ j < num) =>
             directed_stake_meta_indices'[j] = m[j] /\ directed_stake_lamports'[j] = d[j]
  BY <1>1 DEF ShiftArray
<1> HIDE DEF Plain, Leads
<1>6. Distinct'
  <2>1. ASSUME NEW a \in 0 .. Seats - 2, NEW b \in 0 .. Seats - 2, (Seating')[a] = (Seating')[b]
        PROVE  a = b
    <3> DEFINE x == IF a < index THEN a ELSE a + 1
               y == IF b < index THEN b ELSE b + 1
    <3>1. Seating[x] = Seating[y]
      BY <1>1, <2>1
    <3>2. x \in 0 .. Seats - 1 /\ y \in 0 .. Seats - 1
      BY <1>0, <1>1
    <3>3. x = y
      BY <3>1, <3>2 DEF MirrorInv, Distinct
    <3> QED BY <1>1, <3>3
  <2>2. 0 .. Seats' - 1 = 0 .. Seats - 2
    BY <1>0, <1>1
  <2> QED BY <1>1, <2>1, <2>2 DEF MirrorInv, Distinct
<1>7. Counted'
  BY <1>1 DEF MirrorInv, Counted
\* Who sits at j afterwards sat at j or at j + 1.
<1>8. ASSUME NEW j \in Indices
      PROVE  LET k == IF j < index THEN j ELSE j + 1
             IN  /\ (j < Seats' /\ HasTarget((Seating')[j])) <=> Targeted(k)
                 /\ Targeted(k) => (Seating')[j] = Seating[k]
  <2> DEFINE k == IF j < index THEN j ELSE j + 1
  <2>1. j \in Nat
    BY Numbers
  <2>2. j < Seats' <=> k < Seats
    BY <1>0, <1>1, <2>1
  <2>3. j < Seats' => (Seating')[j] = Seating[k]
    <3> SUFFICES ASSUME j < Seats' PROVE (Seating')[j] = Seating[k]
      OBVIOUS
    <3>1. j \in 0 .. Seats - 2
      BY <1>0, <1>1, <2>1
    <3> QED BY <1>1, <3>1
  <2> HIDE DEF k
  <2>4. (j < Seats' /\ HasTarget((Seating')[j])) <=> Targeted(k)
    BY <2>2, <2>3 DEF Targeted
  <2>5. Targeted(k) => (Seating')[j] = Seating[k]
    BY <2>2, <2>3 DEF Targeted
  <2> QED BY <2>4, <2>5 DEF k
<1>9. Mirrored'
  <2> SUFFICES ASSUME NEW j \in Indices, j \notin astray'
               PROVE  IF j < Seats' /\ HasTarget((Seating')[j])
                      THEN /\ directed_stake_meta_indices'[j] \in Indices
                           /\ targets[directed_stake_meta_indices'[j]].vote = (Seating')[j]
                           /\ directed_stake_lamports'[j] = targets[directed_stake_meta_indices'[j]].staked
                      ELSE directed_stake_meta_indices'[j] = NoTarget /\ directed_stake_lamports'[j] = 0
    BY <1>1 DEF Mirrored, HasTarget
  <2>1. j \in Nat /\ index \in Nat /\ num \in Nat
    BY <1>0, <1>1, Numbers
  <2>2. CASE j = num
    <3>1. ~(j < Seats' /\ HasTarget((Seating')[j]))
      BY <1>2, <1>8, <2>2
    <3> QED BY <1>5, <2>2, <3>1
  <2>3. CASE j # num /\ index <= j /\ j < num
    <3>1. j + 1 \notin astray /\ ~(j < index)
      BY <1>2, <2>1, <2>3
    <3>2. j + 1 \in Indices
      <4>1. j + 1 \in 0 .. Seats - 1
        BY <1>0, <1>1, <2>1, <2>3
      <4> QED BY <4>1, SeatFacts
    <3>3. IF Targeted(j + 1) THEN Leads(j + 1, Seating[j + 1]) ELSE Plain(j + 1)
      BY <1>4, <3>1, <3>2
    <3>4. /\ (j < Seats' /\ HasTarget((Seating')[j])) <=> Targeted(j + 1)
          /\ Targeted(j + 1) => (Seating')[j] = Seating[j + 1]
      BY <1>8, <3>1
    <3> QED BY <1>5, <2>3, <3>3, <3>4 DEF Plain, Leads
  <2>4. CASE j # num /\ ~(index <= j /\ j < num)
    <3>1. j \notin astray /\ ~(index <= j /\ (Targeted(j) \/ Targeted(j + 1)))
      BY <1>2, <2>4
    <3>2. IF Targeted(j) THEN Leads(j, Seating[j]) ELSE Plain(j)
      BY <1>4, <3>1
    <3>3. CASE j < index
      <4>1. /\ (j < Seats' /\ HasTarget((Seating')[j])) <=> Targeted(j)
            /\ Targeted(j) => (Seating')[j] = Seating[j]
        BY <1>8, <3>3
      <4> QED BY <1>5, <2>4, <3>2, <4>1 DEF Plain, Leads
    <3>4. CASE ~(j < index)
      <4>1. index <= j
        BY <2>1, <3>4
      <4>2. ~Targeted(j) /\ ~Targeted(j + 1)
        BY <3>1, <4>1
      <4>3. ~(j < Seats' /\ HasTarget((Seating')[j]))
        BY <1>8, <3>4, <4>2
      <4> QED BY <1>5, <2>4, <3>2, <4>2, <4>3 DEF Plain
    <3> QED BY <3>3, <3>4
  <2> QED BY <2>2, <2>3, <2>4
<1> QED BY <1>6, <1>7, <1>9 DEF MirrorInv

\* Nothing is directed when the accounts are set up.
LEMMA InitMirrored ==
  ASSUME Init
  PROVE  MirrorInv
<1>1. /\ Typed /\ Seats = Len(InitialPool) /\ num_pool_validators = Seats
      /\ \A j \in 0 .. Seats - 1 : Seating[j] = InitialPool[j + 1]
  BY InitTyped
<1>2. Typed /\ Seats \in Nat
  BY <1>1, SeatFacts
<1>3. \A t \in Indices : targets[t].vote = NoVote
  BY DEF Init, InitFrom, EmptyTarget
<1>4. total_stake_targets = 0 /\ \A j \in Indices : /\ directed_stake_meta_indices[j] = NoTarget
                                                    /\ directed_stake_lamports[j] = 0
  BY DEF Init, InitFrom
<1>5. \A j \in 0 .. Seats - 1 : ~HasTarget(Seating[j])
  <2>1. \A j \in 0 .. Seats - 1 : Seating[j] # NoVote
    BY <1>2, SeatFacts, Numbers
  <2> QED BY <1>3, <2>1 DEF HasTarget
<1>6. Distinct
  <2>1. ASSUME NEW i \in 0 .. Seats - 1, NEW j \in 0 .. Seats - 1, Seating[i] = Seating[j] PROVE i = j
    <3>1. i + 1 \in 1 .. Len(InitialPool) /\ j + 1 \in 1 .. Len(InitialPool)
      BY <1>1, <1>2
    <3>2. InitialPool[i + 1] = InitialPool[j + 1]
      BY <1>1, <2>1
    <3>3. i + 1 = j + 1
      BY <3>1, <3>2, DirectedAssumption
    <3> QED BY <3>3
  <2> QED BY <1>3, <2>1 DEF Distinct
<1>7. Counted
  BY <1>3, <1>4, Numbers DEF Counted
<1>8. Mirrored
  <2>1. \A j \in Indices : j < Seats => j \in 0 .. Seats - 1
    BY <1>2, Numbers
  <2> QED BY <1>4, <1>5, <2>1 DEF Mirrored
<1> QED BY <1>6, <1>7, <1>8 DEF MirrorInv

\* Every step keeps the records in step, where they are not astray.
LEMMA NextMirrored == Typed /\ MirrorInv /\ [Next]_vars => MirrorInv'
<1> SUFFICES ASSUME Typed, MirrorInv, [Next]_vars PROVE MirrorInv'
  OBVIOUS
<1>0. Typed
  OBVIOUS
<1>1. ASSUME NEW t \in Indices, RebalanceDirected(t) PROVE MirrorInv'
  <2>1. leaving = Nobody /\ UNCHANGED <<total_stake_targets, directed_stake_meta_indices, astray>>
    BY <1>1 DEF RebalanceDirected
  <2>2. PICK i \in 0 .. Len(validator_list) - 1 :
          /\ Entry(i).vote = targets[t].vote
          /\ \E staked, directed, balance \in Nat :
               /\ WriteBooks(i, t, staked, directed, balance)
               /\ directed_stake_lamports[i] = targets[t].staked => directed = staked
    BY <1>1, RebalanceDirectedStep
  <2>3. SameSeats
    BY <1>1, RebalanceDirectedStep
  <2>4. PICK staked, directed, balance \in Nat :
          /\ WriteBooks(i, t, staked, directed, balance)
          /\ directed_stake_lamports[i] = targets[t].staked => directed = staked
    BY <2>2
  <2>5. astray' = astray \cup Misplaced(i)
    BY <2>1 DEF Misplaced
  <2> QED BY <2>1, <2>2, <2>3, <2>4, <2>5, BooksMirrored
<1>2. ASSUME NEW t \in Indices, NEW late \in BOOLEAN, RebalanceDirectedEnds(t, late) PROVE MirrorInv'
  <2>1. UNCHANGED <<total_stake_targets, directed_stake_meta_indices>>
    BY <1>2 DEF RebalanceDirectedEnds
  <2>2. PICK i \in 0 .. Len(validator_list) - 1 :
          /\ Entry(i).vote = targets[t].vote
          /\ astray' = astray \cup Misplaced(i)
          /\ \E staked, directed, balance \in Nat :
               /\ WriteBooks(i, t, staked, directed, balance)
               /\ directed_stake_lamports[i] = targets[t].staked => directed = staked
    BY <1>2, RebalanceDirectedEndsStep
  <2>3. SameSeats
    BY <1>2, RebalanceDirectedEndsStep
  <2>4. PICK staked, directed, balance \in Nat :
          /\ WriteBooks(i, t, staked, directed, balance)
          /\ directed_stake_lamports[i] = targets[t].staked => directed = staked
    BY <2>2
  <2> QED BY <2>1, <2>2, <2>3, <2>4, BooksMirrored
<1>3. ASSUME \/ \E i \in Indices, moved \in Moves, keep \in BOOLEAN : Rebalance(i, moved, keep)
             \/ UpdateStakePool
             \/ \E i \in Indices, amount \in {-1, 1} : StakeMoves(i, amount)
      PROVE  MirrorInv'
  <2>1. /\ SameSeats
        /\ UNCHANGED <<targets, total_stake_targets, directed_stake_lamports,
                       directed_stake_meta_indices, astray>>
    BY <1>3, ListSteps
  <2>2. Seats' = Seats /\ Seating' = Seating
    BY <1>0, <2>1, SeatsKept
  <2> QED BY <2>1, <2>2, MirrorKept
<1>4. ASSUME NEW i \in Indices, CleanupRemovedValidatorEntry(i) PROVE MirrorInv'
  <2>1. /\ Seats' = Seats /\ Seating' = Seating
        /\ UNCHANGED <<targets, total_stake_targets, directed_stake_lamports,
                       directed_stake_meta_indices, astray>>
    BY <1>4, CleanupStep
  <2> QED BY <2>1, MirrorKept
<1>5. ASSUME NEW i \in Indices, NEW goal \in Goals, CopyDirectedStakeTargets(i, goal) PROVE MirrorInv'
  BY <1>5, CopyMirrored
<1>6. ASSUME SyncDirectedStakeLamports \/ MigrateDirectedToAlgorithmic \/ ReallocDirectedStakeMeta
      PROVE  MirrorInv'
  BY <1>6, MaintenanceMirrored
<1>7. ASSUME NEW v \in Votes, AddValidator(v) PROVE MirrorInv'
  BY <1>7, AddMirrored
<1>8. ASSUME RemoveValidator PROVE MirrorInv'
  BY <1>8, RemoveMirrored
<1>9. ASSUME \/ \E t \in Indices, late \in BOOLEAN : RebalanceDirectedMissing(t, late)
             \/ UncheckedTransition \/ StartCycle \/ EpochMaintenance \/ NextEpoch
             \/ \E amount \in {-1, 1} : ReserveMoves(amount)
             \/ UNCHANGED vars
      PROVE  MirrorInv'
  BY <1>9, QuietMirrored
<1> QED BY <1>1, <1>2, <1>3, <1>4, <1>5, <1>6, <1>7, <1>8, <1>9 DEF Next

\* They are in step throughout.
LEMMA SpecMirrorInv == Spec => [](Typed /\ MirrorInv)
<1>1. Init => MirrorInv
  BY InitMirrored
<1>2. Typed /\ MirrorInv /\ [Next]_vars => MirrorInv'
  BY NextMirrored
<1> QED BY <1>1, <1>2, SpecTyped, PTL DEF Spec

\* The record that leads from a seat with a target is that of the target.
LEMMA MirrorImplies ==
  ASSUME Typed, MirrorInv
  PROVE  MirrorsAgree /\ SimulationAgrees
<1> DEFINE m == directed_stake_meta_indices
           d == directed_stake_lamports
<1> SUFFICES ASSUME leaving = Nobody, NEW i \in 0 .. Len(validator_list) - 1, i \notin astray
             PROVE  /\ IF HasTarget(Entry(i).vote)
                       THEN m[i] = TargetOf(Entry(i).vote) /\ d[i] = targets[m[i]].staked
                       ELSE m[i] = NoTarget /\ d[i] = 0
                    /\ m[i] # NoTarget =>
                         SimulateAdjust(i, Entry(i).active) =
                           [directed |-> Adjust(i, m[i], Entry(i).active).directed,
                            balance |-> Adjust(i, m[i], Entry(i).active).balance]
  BY DEF MirrorsAgree, InStep, SimulationAgrees
<1>0. Typed
  OBVIOUS
<1>1. i \in Indices /\ i < Seats /\ Seating[i] = Entry(i).vote /\ Entry(i).vote \in Votes
      /\ Entry(i).active \in Nat
  BY <1>0, SeatFacts, ListFacts
<1> DEFINE v == Entry(i).vote
           active == Entry(i).active
<1>2. IF HasTarget(v) THEN m[i] \in Indices /\ targets[m[i]].vote = v /\ d[i] = targets[m[i]].staked
      ELSE m[i] = NoTarget /\ d[i] = 0
  BY <1>1 DEF MirrorInv, Mirrored
<1>3. HasTarget(v) => m[i] = TargetOf(v)
  <2> SUFFICES ASSUME HasTarget(v) PROVE m[i] = TargetOf(v)
    OBVIOUS
  <2>1. TargetOf(v) \in Indices /\ targets[TargetOf(v)].vote = v
    BY DEF HasTarget, TargetOf
  <2>2. v # NoVote
    BY <1>1, Numbers
  <2> QED BY <1>2, <2>1, <2>2 DEF MirrorInv, Distinct
<1>4. ASSUME m[i] # NoTarget
      PROVE  SimulateAdjust(i, active) = [directed |-> Adjust(i, m[i], active).directed,
                                          balance |-> Adjust(i, m[i], active).balance]
  <2>1. m[i] \in Indices /\ d[i] = targets[m[i]].staked
    BY <1>2, <1>4
  <2>2. Adjust(i, m[i], active).directed = Lesser(Moved(d[i], i, m[i], active), active)
    BY <1>0, <1>1, <2>1, AdjustFacts
  <2>3. Adjust(i, m[i], active).balance = NewBalance(i, m[i], active)
    BY DEF Adjust
  <2>4. SimulateAdjust(i, active) = [directed |-> Lesser(Moved(d[i], i, m[i], active), active),
                                     balance |-> NewBalance(i, m[i], active)]
    BY <1>4 DEF SimulateAdjust
  <2> QED BY <2>2, <2>3, <2>4
<1> QED BY <1>2, <1>3, <1>4

\* Wherever the records are not astray, the index array leads from each validator with
\* a target to its own target, and the two records of its directed stake agree, whatever
\* is uploaded, rebalanced, migrated, and whoever joins and leaves meanwhile: they part
\* through what leads to astray and through nothing else.
THEOREM SpecMirrorsAgree == Spec => []MirrorsAgree
<1>1. Typed /\ MirrorInv => MirrorsAgree
  BY MirrorImplies
<1> QED BY <1>1, SpecMirrorInv, PTL

\* Wherever the records are not astray, the undirected rebalance is told of a
\* validator's directed stake what the directed rebalance would write.
THEOREM SpecSimulationAgrees == Spec => []SimulationAgrees
<1>1. Typed /\ MirrorInv => SimulationAgrees
  BY MirrorImplies
<1> QED BY <1>1, SpecMirrorInv, PTL
-----------------------------------------------------------------------------
(* Tickets *)


PreferenceType == [vote : Votes \cup {NoVote}, bps : Nat]
TicketType == [1 .. MaxPreferences -> PreferenceType]

\* Of every ticket the shares make at most the whole.
SharesWithinWhole ==
  \A s \in Stakers : Holds(s) => Total(Shares(tickets[s])) <= TotalBps

TicketInv ==
  /\ balances \in [Stakers -> Nat]
  /\ tickets \in [Stakers -> {NoTicket} \cup TicketType]
  /\ SharesWithinWhole

\* The constants.
LEMMA TicketNumbers ==
  /\ TotalBps \in Nat \ {0} /\ RateBps \in Nat /\ MaxPreferences \in Nat
  /\ IsFiniteSet(Stakers) /\ IsFiniteSet(1 .. MaxPreferences)
  /\ Offers \subseteq Seq([vote : Votes, bps : Nat])
<1>1. MaxPreferences \in Nat
  BY TicketAssumption
<1>2. IsFiniteSet(1 .. MaxPreferences)
  BY <1>1, FS_Interval
<1> QED BY <1>1, <1>2, TicketAssumption

\* A quotient times its divisor is at most what was divided.
LEMMA DivBelow ==
  ASSUME NEW a \in Nat, NEW n \in Nat \ {0}
  PROVE  a \div n \in Nat /\ (a \div n) * n <= a
OBVIOUS

\* What a preference directs is at most its share of the balance, at the rate of
\* the pool.
LEMMA AllocationBelow ==
  ASSUME NEW b \in Nat, NEW p \in PreferenceType
  PROVE  /\ Allocation(b, p) \in Nat
         /\ Allocation(b, p) * (TotalBps * TotalBps) <= p.bps * (b * RateBps)
<1> DEFINE T == TotalBps
           R == RateBps
           x == p.bps
           q == (b * x) \div T
           a == (q * R) \div T
<1>1. T \in Nat \ {0} /\ R \in Nat /\ x \in Nat
  BY TicketNumbers DEF PreferenceType
<1> HIDE DEF T, R, x
<1>2. b * x \in Nat
  BY <1>1
<1>3. q \in Nat /\ q * T <= b * x
  BY <1>1, <1>2, DivBelow
<1> HIDE DEF q
<1>4. q * R \in Nat
  BY <1>1, <1>3
<1>5. a \in Nat /\ a * T <= q * R
  BY <1>1, <1>4, DivBelow
<1> HIDE DEF a
<1>6. (a * T) * T <= (q * R) * T
  BY <1>1, <1>4, <1>5
<1>7. (q * T) * R <= (b * x) * R
  BY <1>1, <1>2, <1>3
<1>8. (a * T) * T = a * (T * T) /\ (q * R) * T = (q * T) * R /\ (b * x) * R = x * (b * R)
  BY <1>1, <1>3, <1>5
<1>9. a * (T * T) <= x * (b * R)
  <2> DEFINE k1 == (a * T) * T
             k2 == (q * R) * T
             k3 == (b * x) * R
  <2>1. k1 \in Nat /\ k2 \in Nat /\ k3 \in Nat /\ k1 <= k2 /\ k2 <= k3
    BY <1>1, <1>2, <1>3, <1>4, <1>5, <1>6, <1>7, <1>8
  <2> QED BY <1>8, <2>1
<1>10. Allocation(b, p) = a
  BY DEF Allocation, a, q, T, R, x
<1> QED BY <1>5, <1>9, <1>10 DEF T, R, x

\* Offers, as far as they fit a ticket.
OfferType == {p \in Seq([vote : Votes, bps : Nat]) : Len(p) <= MaxPreferences}

Padded(p) == [k \in 1 .. MaxPreferences |-> IF k \in DOMAIN p THEN p[k] ELSE NoPreference]

\* Empty places add nothing.
LEMMA PaddedShares ==
  ASSUME NEW p \in OfferType
  PROVE  Padded(p) \in TicketType /\ Total(Shares(Padded(p))) = Total(Shares(p))
<1> DEFINE n == Len(p)
           K == 1 .. MaxPreferences
           J == 1 .. n
           g == Shares(p)
           h == Shares(Padded(p))
<1>0. p \in Seq([vote : Votes, bps : Nat]) /\ Len(p) <= MaxPreferences
  BY DEF OfferType
<1>1. /\ n \in Nat /\ n <= MaxPreferences /\ MaxPreferences \in Nat /\ DOMAIN p = J
      /\ \A k \in J : p[k] \in [vote : Votes, bps : Nat]
  <2>1. MaxPreferences \in Nat
    BY TicketNumbers
  <2> DEFINE R == [vote : Votes, bps : Nat]
  <2>2. n \in Nat /\ DOMAIN p = J /\ \A k \in J : p[k] \in R
    <3>1. p \in Seq(R)
      BY <1>0
    <3> HIDE DEF R
    <3> QED BY <3>1
  <2> QED BY <1>0, <2>1, <2>2
<1>2. J \in SUBSET K /\ IsFiniteSet(K)
  BY <1>1, TicketNumbers
<1>3. IsFiniteSet(J)
  BY <1>2, FS_Subset
<1>4. Padded(p) \in TicketType
  BY <1>1 DEF Padded, TicketType, PreferenceType, NoPreference
<1>5. g \in [J -> Nat] /\ \A k \in J : g[k] = p[k].bps
  BY <1>1 DEF Shares
<1>6. h \in [K -> Nat] /\ \A k \in K : h[k] = IF k \in J THEN g[k] ELSE 0
  BY <1>1, <1>5 DEF Shares, Padded, NoPreference
<1>7. SumOf(h) = SumOf(g)
  <2> HIDE DEF n, g, h, K, J
  <2> QED BY <1>2, <1>3, <1>5, <1>6, SumExtended
<1> QED BY <1>4, <1>7, TotalIs

\* A common factor is left out of an inequality.
LEMMA Cancel ==
  ASSUME NEW x \in Nat, NEW y \in Nat, NEW n \in Nat \ {0}, NEW w \in Nat,
         y <= n, x * (n * n) <= y * w
  PROVE  x * n <= w
<1>1. y * w <= n * w
  BY (n - y) * w \in Nat /\ n * w = y * w + (n - y) * w
<1>2. x * (n * n) = n * (x * n) /\ x * n \in Nat /\ n * w \in Nat /\ y * w \in Nat
      /\ n * (x * n) \in Nat
  OBVIOUS
<1>3. n * (x * n) <= n * w
  BY <1>1, <1>2
<1> SUFFICES ASSUME w < x * n PROVE FALSE
  BY <1>2
<1> DEFINE d == x * n - w
<1>4. d \in Nat /\ d >= 1 /\ x * n = w + d
  BY <1>2
<1>5. n * (x * n) = n * w + n * d
  BY <1>4
<1>6. n * d >= 1 /\ n * d \in Nat
  <2> HIDE DEF d
  <2> QED BY <1>4
<1> QED BY <1>2, <1>3, <1>5, <1>6

\* What one ticket directs is at most what its holder's tokens are worth.
LEMMA RowBelow ==
  ASSUME NEW t \in TicketType, NEW b \in Nat, Total(Shares(t)) <= TotalBps
  PROVE  LET row == [k \in 1 .. MaxPreferences |-> Allocation(b, t[k])]
         IN  SumOf(row) \in Nat /\ SumOf(row) * TotalBps <= b * RateBps
<1> DEFINE K == 1 .. MaxPreferences
           T == TotalBps
           w == b * RateBps
           row == [k \in K |-> Allocation(b, t[k])]
           bps == Shares(t)
           low == [k \in K |-> row[k] * (T * T)]
           high == [k \in K |-> bps[k] * w]
<1>1. T \in Nat \ {0} /\ RateBps \in Nat /\ IsFiniteSet(K)
  BY TicketNumbers
<1>2. w \in Nat /\ T * T \in Nat
  BY <1>1
<1>3. bps \in [K -> Nat] /\ \A k \in K : t[k] \in PreferenceType /\ bps[k] = t[k].bps
  BY DEF TicketType, PreferenceType, Shares
<1>4. row \in [K -> Nat] /\ \A k \in K : row[k] * (T * T) <= bps[k] * w
  BY <1>3, AllocationBelow
<1> HIDE DEF T, w, row, bps, K
<1>5. SumOf(row) \in Nat /\ SumOf(bps) \in Nat
  BY <1>1, <1>3, <1>4, SumNatural
<1>6. row \in [K -> Int] /\ bps \in [K -> Int] /\ T * T \in Int /\ w \in Int
  BY <1>2, <1>3, <1>4
<1>7. low \in [K -> Int] /\ high \in [K -> Int] /\ \A k \in K : low[k] <= high[k]
  BY <1>2, <1>4, <1>6
<1>8. SumOf(low) = SumOf(row) * (T * T)
  BY <1>1, <1>6, SumScaled
<1>9. SumOf(high) = SumOf(bps) * w
  BY <1>1, <1>6, SumScaled
<1>10. SumOf(low) <= SumOf(high)
  <2> HIDE DEF low, high
  <2> QED BY <1>1, <1>7, SumOrdered
<1>11. SumOf(bps) <= T
  BY TotalIs DEF bps, T
<1>12. SumOf(row) * T <= w
  <2> DEFINE x == SumOf(row)
             y == SumOf(bps)
  <2>1. x \in Nat /\ y \in Nat /\ T \in Nat \ {0} /\ w \in Nat /\ y <= T /\ x * (T * T) <= y * w
    BY <1>1, <1>2, <1>5, <1>8, <1>9, <1>10, <1>11
  <2> HIDE DEF x, y
  <2> QED BY <2>1, Cancel DEF x, y
<1> QED BY <1>5, <1>12 DEF row, K, T, w

\* What is directed from pairs of a holder and a place is, per holder, at most what
\* all of the holder's places have.
LEMMA OwnersPart ==
  ASSUME NEW H, NEW K, IsFiniteSet(K), NEW all \in SUBSET (H \X K), IsFiniteSet(all),
         NEW m \in [all -> Nat], NEW s \in H, NEW row \in [K -> Nat],
         \A k \in K : <<s, k>> \in all => m[<<s, k>>] = row[k]
  PROVE  LET own == OfKey(all, m, [x \in all |-> x[1]], s)
         IN  SumOf(own) \in Nat /\ SumOf(own) <= SumOf(row)
<1> DEFINE owner == [x \in all |-> x[1]]
           place == [x \in all |-> x[2]]
           own == OfKey(all, m, owner, s)
           cols == [k \in K |-> SumOf(OfKey(all, own, place, k))]
<1>1. own \in [all -> Nat] /\ place \in [all -> K]
  BY DEF OfKey
<1>2. SumOf(cols) = SumOf(own)
  <2>1. own \in [all -> Int]
    BY <1>1
  <2> HIDE DEF own, place
  <2> QED BY <1>1, <2>1, SumByKey
<1>3. ASSUME NEW k \in K PROVE cols[k] \in Int /\ cols[k] <= row[k]
  <2> DEFINE p == <<s, k>>
             d == row[k]
             f == OfKey(all, own, place, k)
  <2>0. d \in Nat
    OBVIOUS
  <2>1. \A x \in all : x = <<x[1], x[2]>>
    OBVIOUS
  <2>2. \A x \in all : f[x] = IF x = p THEN d ELSE 0
    BY <2>1 DEF OfKey
  <2>3. f = [x \in all |-> IF x = p THEN d ELSE 0]
    <3>1. f = [x \in all |-> f[x]]
      BY DEF OfKey
    <3> HIDE DEF f, p, d
    <3> QED BY <2>2, <3>1
  <2>4. CASE p \in all
    <3>1. SumOf(f) = d
      <4> HIDE DEF f, p, d
      <4> QED BY <2>0, <2>3, <2>4, SumAtPoint
    <3> QED BY <2>0, <3>1
  <2>5. CASE p \notin all
    <3>1. f = [x \in all |-> 0]
      BY <2>3, <2>5
    <3>2. SumOf(f) = 0
      BY <3>1, SumOfZeros
    <3> QED BY <2>0, <3>2
  <2> QED BY <2>4, <2>5
<1>4. cols \in [K -> Int]
  BY <1>3
<1>5. SumOf(cols) <= SumOf(row)
  <2>1. row \in [K -> Int]
    OBVIOUS
  <2> HIDE DEF cols
  <2> QED BY <1>3, <1>4, <2>1, SumOrdered
<1>6. SumOf(own) \in Nat
  <2> HIDE DEF own
  <2> QED BY <1>1, SumNatural
<1> QED BY <1>2, <1>5, <1>6

\* Multiplication keeps the order.
LEMMA Multiplied ==
  ASSUME NEW x \in Nat, NEW y \in Nat, NEW n \in Nat, x <= y
  PROVE  x * n <= y * n
<1>1. y - x \in Nat /\ y * n = x * n + (y - x) * n
  OBVIOUS
<1>2. (y - x) * n \in Nat
  BY <1>1
<1> QED BY <1>1, <1>2

\* Shares that make at most the whole direct no more than there is.
LEMMA SharesSuffice == TicketInv => TicketsWithinHoldings
<1> SUFFICES ASSUME TicketInv PROVE TicketsWithinHoldings
  OBVIOUS
<1> DEFINE T == TotalBps
           R == RateBps
           K == 1 .. MaxPreferences
           holders == {s \in Stakers : Holds(s)}
           held == [s \in holders |-> balances[s]]
           all == {sk \in holders \X K : held[sk[1]] > 0 /\ tickets[sk[1]][sk[2]].vote # NoVote}
           m == [sk \in all |-> Allocation(held[sk[1]], tickets[sk[1]][sk[2]])]
           vote == [sk \in all |-> tickets[sk[1]][sk[2]].vote]
           V == {vote[sk] : sk \in all}
           targetsOf == [v \in V |-> SumOf(OfKey(all, m, vote, v))]
           owner == [sk \in all |-> sk[1]]
           own == [s \in holders |-> SumOf(OfKey(all, m, owner, s))]
<1>1. T \in Nat \ {0} /\ R \in Nat /\ IsFiniteSet(Stakers) /\ IsFiniteSet(K)
  BY TicketNumbers
<1>2. \A s \in holders : /\ s \in Stakers /\ held[s] \in Nat /\ tickets[s] \in TicketType
                         /\ Total(Shares(tickets[s])) <= TotalBps
  BY DEF TicketInv, SharesWithinWhole, Holds
<1>3. IsFiniteSet(holders)
  <2>1. holders \in SUBSET Stakers
    OBVIOUS
  <2> HIDE DEF holders
  <2> QED BY <1>1, <2>1, FS_Subset
<1>4. IsFiniteSet(all) /\ all \in SUBSET (holders \X K)
  <2>1. all \in SUBSET (holders \X K)
    OBVIOUS
  <2>2. IsFiniteSet(holders \X K)
    <3> HIDE DEF holders, K
    <3> QED BY <1>1, <1>3, FS_Product
  <2> HIDE DEF all
  <2> QED BY <2>1, <2>2, FS_Subset
<1>5. \A sk \in holders \X K : Allocation(held[sk[1]], tickets[sk[1]][sk[2]]) \in Nat
  <2>1. ASSUME NEW sk \in holders \X K
        PROVE  held[sk[1]] \in Nat /\ tickets[sk[1]][sk[2]] \in PreferenceType
    BY <1>2, sk[1] \in holders, sk[2] \in K DEF TicketType
  <2> QED BY <2>1, AllocationBelow
<1>6. m \in [all -> Nat] /\ m \in [all -> Int]
  <2>1. \A sk \in all : m[sk] \in Nat
    <3> HIDE DEF holders, K
    <3> QED BY <1>4, <1>5
  <2> HIDE DEF all
  <2> QED BY <2>1
<1>7. /\ vote \in [all -> V] /\ owner \in [all -> holders]
      /\ IsFiniteSet(V)
  <2>1. vote \in [all -> V]
    <3> HIDE DEF all
    <3> QED OBVIOUS
  <2>2. owner \in [all -> holders]
    <3>1. \A sk \in all : sk[1] \in holders
      OBVIOUS
    <3> HIDE DEF all
    <3> QED BY <3>1
  <2>3. IsFiniteSet(V)
    <3> HIDE DEF all, vote
    <3> QED BY <1>4, ImageFinite
  <2> QED BY <2>1, <2>2, <2>3
<1>8. SumOf(targetsOf) = SumOf(m)
  <2>1. IsFiniteSet(all) /\ IsFiniteSet(V) /\ vote \in [all -> V] /\ m \in [all -> Int]
    BY <1>4, <1>6, <1>7
  <2> HIDE DEF all, m, vote, V
  <2>2. SumOf([v \in V |-> SumOf(OfKey(all, m, vote, v))]) = SumOf(m)
    BY <2>1, SumByKey
  <2> QED BY <2>2
<1>9. SumOf(own) = SumOf(m)
  <2>1. /\ IsFiniteSet(all) /\ IsFiniteSet(holders) /\ owner \in [all -> holders]
        /\ m \in [all -> Int]
    BY <1>3, <1>4, <1>6, <1>7
  <2> HIDE DEF all, m, owner, holders
  <2>2. SumOf([s \in holders |-> SumOf(OfKey(all, m, owner, s))]) = SumOf(m)
    BY <2>1, SumByKey
  <2> QED BY <2>2
<1>10. ASSUME NEW s \in holders
       PROVE  own[s] \in Nat /\ own[s] * T <= held[s] * R
  <2> DEFINE row == [k \in K |-> Allocation(held[s], tickets[s][k])]
             mine == OfKey(all, m, owner, s)
  <2>1. \A k \in K : <<s, k>> \in all => m[<<s, k>>] = row[k]
    <3>1. ASSUME NEW k \in K, <<s, k>> \in all PROVE m[<<s, k>>] = row[k]
      <4> HIDE DEF all, held, holders
      <4> QED BY <3>1
    <3> HIDE DEF all, m, row
    <3> QED BY <3>1
  <2>2. row \in [K -> Nat]
    <3>1. \A k \in K : row[k] \in Nat
      <4>1. ASSUME NEW k \in K PROVE Allocation(held[s], tickets[s][k]) \in Nat
        <5>1. <<s, k>> \in holders \X K
          OBVIOUS
        <5>2. <<s, k>>[1] = s /\ <<s, k>>[2] = k
          OBVIOUS
        <5> HIDE DEF holders, held, K
        <5> QED BY <1>5, <5>1, <5>2
      <4> HIDE DEF held, K
      <4> QED BY <4>1
    <3> HIDE DEF K
    <3> QED BY <3>1
  <2>3. SumOf(mine) \in Nat /\ SumOf(mine) <= SumOf(row)
    <3> HIDE DEF all, m, row, holders, K
    <3> QED BY <1>1, <1>4, <1>6, <2>1, <2>2, OwnersPart
  <2>4. SumOf(row) \in Nat /\ SumOf(row) * T <= held[s] * R
    <3>1. held[s] \in Nat /\ tickets[s] \in TicketType /\ Total(Shares(tickets[s])) <= TotalBps
      BY <1>2
    <3> HIDE DEF holders, held
    <3> QED BY <3>1, RowBelow
  <2>5. own[s] = SumOf(mine)
    <3> HIDE DEF all, m, owner, holders
    <3> QED OBVIOUS
  <2>6. held[s] * R \in Nat
    <3>1. held[s] \in Nat
      BY <1>2
    <3> HIDE DEF held, R
    <3> QED BY <1>1, <3>1
  <2>7. SumOf(mine) * T <= SumOf(row) * T
    <3> HIDE DEF mine, row, T
    <3> QED BY <1>1, <2>3, <2>4, Multiplied
  <2> HIDE DEF own, mine, row, T, held, R
  <2>8. SumOf(mine) * T \in Nat /\ SumOf(row) * T \in Nat
    BY <1>1, <2>3, <2>4
  <2> QED BY <2>3, <2>4, <2>5, <2>6, <2>7, <2>8
<1>11. SumOf(own) * T <= SumOf(held) * R
  <2> DEFINE low == [s \in holders |-> own[s] * T]
             high == [s \in holders |-> held[s] * R]
  <2>1. \A s \in holders : held[s] \in Nat
    BY <1>2
  <2>2. own \in [holders -> Int] /\ held \in [holders -> Int]
    <3>1. own = [s \in holders |-> own[s]] /\ held = [s \in holders |-> held[s]]
      <4> HIDE DEF holders, all, m, owner
      <4> QED OBVIOUS
    <3> HIDE DEF own, held, holders
    <3> QED BY <1>10, <2>1, <3>1
  <2> HIDE DEF own, held, holders, T, R
  <2>3. low \in [holders -> Int] /\ high \in [holders -> Int]
        /\ \A s \in holders : low[s] <= high[s]
    BY <1>1, <1>10, <2>2
  <2>4. SumOf(low) = SumOf(own) * T
    BY <1>1, <1>3, <2>2, SumScaled
  <2>5. SumOf(high) = SumOf(held) * R
    BY <1>1, <1>3, <2>2, SumScaled
  <2>6. SumOf(low) <= SumOf(high)
    <3> HIDE DEF low, high
    <3> QED BY <1>3, <2>3, SumOrdered
  <2> QED BY <2>4, <2>5, <2>6
<1>12. AggregateValidatorTargets(tickets, held) = targetsOf
  <2>1. DOMAIN held = holders
    OBVIOUS
  <2>2. V = {tickets[sk[1]][sk[2]].vote : sk \in all}
    <3> HIDE DEF all
    <3> QED OBVIOUS
  <2>3. ASSUME NEW v \in V
        PROVE  OfKey(all, m, vote, v)
                 = [sk \in all |-> IF tickets[sk[1]][sk[2]].vote = v
                                   THEN Allocation(held[sk[1]], tickets[sk[1]][sk[2]]) ELSE 0]
    <3> HIDE DEF all, held
    <3> QED BY DEF OfKey
  <2>4. \A v \in V :
          SumOf(OfKey(all, m, vote, v))
            = Total([sk \in all |-> IF tickets[sk[1]][sk[2]].vote = v
                                    THEN Allocation(held[sk[1]], tickets[sk[1]][sk[2]]) ELSE 0])
    <3> HIDE DEF all, held, m, vote, V
    <3> QED BY <2>3, TotalIs
  <2>5. targetsOf = [v \in V |-> Total([sk \in all |->
                       IF tickets[sk[1]][sk[2]].vote = v
                       THEN Allocation(held[sk[1]], tickets[sk[1]][sk[2]]) ELSE 0])]
    <3> HIDE DEF all, held, m, vote, V
    <3> QED BY <2>4
  <2>6. AggregateValidatorTargets(tickets, held)
          = [v \in {tickets[sk[1]][sk[2]].vote : sk \in all} |->
               Total([sk \in all |->
                       IF tickets[sk[1]][sk[2]].vote = v
                       THEN Allocation(held[sk[1]], tickets[sk[1]][sk[2]]) ELSE 0])]
    <3> HIDE DEF held, holders
    <3> QED BY <2>1 DEF AggregateValidatorTargets
  <2> HIDE DEF targetsOf, held, all, V
  <2> QED BY <2>2, <2>5, <2>6
<1>13. Total(AggregateValidatorTargets(tickets, held)) * T <= Total(held) * R
  <2> HIDE DEF targetsOf, held, own, m, T, R
  <2> QED BY <1>8, <1>9, <1>11, <1>12, TotalIs
<1> QED BY <1>13 DEF TicketsWithinHoldings

\* At first nobody holds a ticket.
LEMMA InitTickets == TicketInit => TicketInv
<1> SUFFICES ASSUME TicketInit PROVE TicketInv
  OBVIOUS
<1>1. tickets = [s \in Stakers |-> NoTicket]
  BY DEF TicketInit
<1>2. balances \in [Stakers -> Nat]
  <2>1. balances \in [Stakers -> 0 .. Tokens] /\ 0 .. Tokens \subseteq Nat
    BY TicketAssumption DEF TicketInit
  <2> QED BY <2>1
<1> QED BY <1>1, <1>2 DEF TicketInv, SharesWithinWhole, Holds

\* A ticket that is set up, rewritten or closed keeps to the whole.
LEMMA TicketSet ==
  ASSUME TicketInv, NEW s \in Stakers, NEW t \in {NoTicket} \cup TicketType,
         t # NoTicket => Total(Shares(t)) <= TotalBps,
         tickets' = [tickets EXCEPT ![s] = t], balances' = balances
  PROVE  TicketInv'
<1>1. balances' \in [Stakers -> Nat] /\ tickets' \in [Stakers -> {NoTicket} \cup TicketType]
  BY DEF TicketInv
<1>2. ASSUME NEW r \in Stakers, tickets'[r] # NoTicket
      PROVE  Total(Shares(tickets'[r])) <= TotalBps
  <2>1. CASE r = s
    <3>1. tickets'[r] = t
      BY <2>1 DEF TicketInv
    <3> QED BY <1>2, <3>1
  <2>2. CASE r # s
    <3>1. tickets'[r] = tickets[r]
      BY <2>2 DEF TicketInv
    <3> QED BY <1>2, <3>1 DEF TicketInv, SharesWithinWhole, Holds
  <2> QED BY <2>1, <2>2
<1> QED BY <1>1, <1>2 DEF TicketInv, SharesWithinWhole, Holds

\* An empty ticket directs nothing.
LEMMA EmptyTicket ==
  LET t == [k \in 1 .. MaxPreferences |-> NoPreference]
  IN  t \in TicketType /\ Total(Shares(t)) = 0
<1> DEFINE t == [k \in 1 .. MaxPreferences |-> NoPreference]
<1>1. t \in TicketType
  BY DEF TicketType, PreferenceType, NoPreference
<1>2. Shares(t) = [k \in 1 .. MaxPreferences |-> 0]
  BY DEF Shares, NoPreference
<1>3. SumOf(Shares(t)) = 0
  BY <1>2, TicketNumbers, SumOfZeros
<1> QED BY <1>1, <1>3, TotalIs

\* Every step of stakers, admin and keeper keeps the tickets to their whole.
LEMMA NextTickets ==
  ASSUME TicketInv, [DirectedNext]_<<vars, part, ticketVars>>
  PROVE  TicketInv'
<1>1. ASSUME tickets' = tickets, balances' = balances
      PROVE  TicketInv'
  BY <1>1 DEF TicketInv, SharesWithinWhole, Holds
<1>2. ASSUME NEW s \in Stakers, NEW signer, InitializeDirectedStakeTicket(signer, s)
      PROVE  TicketInv'
  <2> DEFINE t == [k \in 1 .. MaxPreferences |-> NoPreference]
  <2>1. tickets' = [tickets EXCEPT ![s] = t] /\ balances' = balances
    BY <1>2 DEF InitializeDirectedStakeTicket
  <2>2. t \in TicketType /\ Total(Shares(t)) <= TotalBps
    BY EmptyTicket, TicketNumbers
  <2> HIDE DEF t
  <2> QED BY <2>1, <2>2, TicketSet
<1>3. ASSUME NEW s \in Stakers, NEW signer, NEW p \in Offers,
             UpdateDirectedStakeTicket(signer, s, p)
      PROVE  TicketInv'
  <2>1. tickets' = [tickets EXCEPT ![s] = Padded(p)] /\ balances' = balances
    BY <1>3 DEF UpdateDirectedStakeTicket, Padded
  <2>2. p \in OfferType /\ Total(Shares(p)) <= TotalBps
    <3>1. Len(p) <= MaxPreferences /\ Total(Shares(p)) <= TotalBps
      BY <1>3 DEF UpdateDirectedStakeTicket, Permitted
    <3>2. p \in Seq([vote : Votes, bps : Nat])
      BY TicketNumbers
    <3> QED BY <3>1, <3>2 DEF OfferType
  <2>3. Padded(p) \in TicketType /\ Total(Shares(Padded(p))) <= TotalBps
    BY <2>2, PaddedShares
  <2> QED BY <2>1, <2>3, TicketSet
<1>4. ASSUME NEW s \in Stakers, NEW signer, CloseDirectedStakeTicket(signer, s)
      PROVE  TicketInv'
  BY <1>4, TicketSet DEF CloseDirectedStakeTicket
<1>5. ASSUME NEW from \in Stakers, NEW to \in Stakers, Transfer(from, to)
      PROVE  TicketInv'
  <2>1. tickets' = tickets /\ from # to /\ balances[from] > 0
        /\ balances' = [balances EXCEPT ![from] = @ - 1, ![to] = @ + 1]
    BY <1>5 DEF Transfer
  <2>2. balances' \in [Stakers -> Nat]
    BY <2>1 DEF TicketInv
  <2> QED BY <2>1, <2>2 DEF TicketInv, SharesWithinWhole, Holds
<1>6. ASSUME Change PROVE TicketInv'
  <2>1. ASSUME NEW list, NEW s, AddStaker(list, s) PROVE TicketInv'
    BY <1>1, <2>1 DEF AddStaker
  <2>2. ASSUME NEW list, NEW x, RemoveFromDirectedStakeWhitelist(list, x) PROVE TicketInv'
    BY <1>1, <2>2 DEF RemoveFromDirectedStakeWhitelist
  <2>3. ASSUME NEW v, AddValidatorToWhitelist(v) PROVE TicketInv'
    BY <1>1, <2>3 DEF AddValidatorToWhitelist
  <2>4. ASSUME NEW key, SetNewAuthority(key) PROVE TicketInv'
    BY <1>1, <2>4 DEF SetNewAuthority
  <2> QED BY <1>2, <1>3, <1>4, <1>6, <2>1, <2>2, <2>3, <2>4 DEF Change
<1>7. ASSUME \/ GetDirectedStakeTickets \/ \E s \in Stakers : GetTokenBalance(s)
             \/ (\E v \in Votes : ComputeCoinbaseTargets(v)) \/ TargetsCopied
      PROVE  TicketInv'
  BY <1>1, <1>7 DEF GetDirectedStakeTickets, GetTokenBalance, ComputeCoinbaseTargets, TargetsCopied
<1>8. CASE TicketNext
  BY <1>5, <1>6, <1>7, <1>8 DEF TicketNext
<1>9. CASE UNCHANGED ticketVars
  BY <1>1, <1>9 DEF ticketVars
<1> QED BY <1>8, <1>9 DEF DirectedNext

\* Tickets never direct more than their holders' JitoSOL is worth: every ticket's
\* shares make at most the whole, both divisions round down, and the sums by
\* validator are the sums by holder. For any number of stakers and validators, any
\* rate and any preferences.
THEOREM SpecTicketsWithinHoldings == DirectedSpec => []TicketsWithinHoldings
<1>1. TicketInv /\ [DirectedNext]_<<vars, part, ticketVars>> => TicketInv'
  BY NextTickets
<1> QED BY <1>1, InitTickets, SharesSuffice, PTL DEF DirectedSpec
=============================================================================
