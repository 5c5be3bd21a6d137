------------------------------- MODULE Rebalance -------------------------------
(***************************************************************************)
(* Moving stake: the Rebalance phase of the steward, which brings every    *)
(* validator of the pool toward its share of the pool's lamports by one    *)
(* increase or decrease per epoch, in whatever order the validators are    *)
(* cranked, within the unstake caps of the cycle and what the reserve has. *)
(*                                                                         *)
(* Abstractions:                                                           *)
(*  - lamports are small numbers; stake is what a validator's stake        *)
(*    account has delegated beyond the minimum delegation;                 *)
(*  - the pool keeps its validators (StewardStateMachine has additions and *)
(*    removals, DirectedStake the shifting of balances by list index);     *)
(*  - of the machine's states the two that move stake and the way between  *)
(*    them are kept;                                                       *)
(*  - the targets of directed stake stay as they are, their two records    *)
(*    agree, and rebalance_directed moves any amount toward them that the  *)
(*    reserve has (DirectedStake has the amounts, the records and their    *)
(*    changes);                                                            *)
(*  - a delegation is 0 or n, for the fraction 1/n.                        *)
(***************************************************************************)
EXTENDS Integers, Sequences, FiniteSets, SequencesExt

CONSTANTS
  NumPoolValidators,        \* num_pool_validators, the length of the list
  MinimumDelegation,
  StakeRent,
  UnstakeCapBps,            \* the three unstake caps, in basis points
  StakeCeiling,             \* undirected_stake_ceiling_lamports
  DirectedTargets,          \* total_target_lamports of the validators with a target
  HistoryIndex,             \* index of each validator's ValidatorHistory account
  InitialStakes,            \* stakes when the steward is set up
  InitialReserves,
  InitialDirected,          \* directed stake each target has had, if there was as much
  Amounts,                  \* what users deposit and withdraw at once
  DirectedAmounts,          \* what rebalance_directed moves at once
  Moves,                    \* what happens besides cranking: sets of AllMoves
  InstantUnstakes,          \* results of ComputeInstantUnstake
  MaxLamports,              \* bound on the pool
  MaxEpoch                  \* bound on the clock

\* Stake deposits and withdrawals, SOL deposits and withdrawals, admin passthroughs.
AllMoves == {"deposit", "withdraw", "deposit_sol", "withdraw_sol", "admin"}

Indices == 0 .. NumPoolValidators - 1

\* What a decrease is for: a stake deposit, instant unstaking, a low score.
Categories == {"deposit", "instant", "scoring"}

ASSUME RebalanceAssumption ==
  /\ NumPoolValidators \in Nat \ {0}
  /\ MinimumDelegation \in Nat
  /\ StakeRent \in Nat
  /\ UnstakeCapBps \in [Categories -> 0 .. 10000]
  /\ StakeCeiling \in Nat
  /\ DOMAIN DirectedTargets \subseteq Indices
  /\ \A i \in DOMAIN DirectedTargets : DirectedTargets[i] \in Nat
  /\ HistoryIndex \in [Indices -> Indices]
  /\ InitialStakes \subseteq [Indices -> Nat]
  /\ InitialReserves \subseteq Nat
  /\ InitialDirected \in Nat
  /\ Amounts \subseteq Nat \ {0}
  /\ DirectedAmounts \subseteq Nat
  /\ Moves \subseteq SUBSET AllMoves
  /\ InstantUnstakes \subseteq SUBSET Indices
  /\ MaxLamports \in Nat
  /\ MaxEpoch \in Nat

VARIABLES
  moves,                       \* the member of Moves this behaviour has
  tag,                         \* state_tag
  progress,                    \* in RebalanceDirected: the targets done in this epoch
  instant_unstake,
  delegations,
  sorted_score_indices,
  sorted_raw_score_indices,
  validator_lamport_balances,
  directed_stake_lamports,     \* and total_staked_lamports of the targets
  totals,                      \* the three unstake totals of the cycle
  stake,
  transient,                   \* in the transient account: > 0 activating, < 0 deactivating
  reserve,
  epoch,
  plan                         \* auxiliary: the phase as its start had it, see StartRebalance

fixed == <<moves, sorted_score_indices, sorted_raw_score_indices>>
vars == <<tag, progress, instant_unstake, delegations, fixed, validator_lamport_balances,
          directed_stake_lamports, totals, stake, transient, reserve, epoch, plan>>

Lesser(a, b) == IF a < b THEN a ELSE b
SatSub(a, b) == IF a > b THEN a - b ELSE 0
Sum(f) == FoldFunction(LAMBDA a, b : a + b, 0, f)

Base == MinimumDelegation + StakeRent
LamportBalanceDefault == 2 * MaxLamports + 1
Zero == [deposit |-> 0, instant |-> 0, scoring |-> 0]
Add(a, b) == [c \in DOMAIN a |-> a[c] + b[c]]
-----------------------------------------------------------------------------
(* The pool *)

\* active_stake_lamports in the validator list
Active(i) == stake[i] + Base

\* total_lamports of the stake pool
PoolLamports ==
  reserve + Sum([i \in Indices |->
    Active(i) + IF transient[i] = 0 THEN 0
                ELSE StakeRent + (IF transient[i] > 0 THEN transient[i] ELSE -transient[i])])

UndirectedPoolLamports == SatSub(PoolLamports, Sum(directed_stake_lamports))

\* What is shared out: the fixed costs of the validators are taken off.
StakePoolLamports == UndirectedPoolLamports - NumPoolValidators * Base

TargetLamports(i) ==
  IF delegations[i] = 0 THEN 0 ELSE StakePoolLamports \div delegations[i]

\* Mutant: the ceiling is not looked at.
UncappedReserve == reserve

CappedReserve == Lesser(reserve, SatSub(StakeCeiling, UndirectedPoolLamports))

\* Mutant: only the rent of the next account is kept.
ReserveForOne == SatSub(CappedReserve, 2 * StakeRent)

\* The reserve keeps the rent of the accounts that may still be created.
ReserveLamports ==
  SatSub(CappedReserve, StakeRent * (NumPoolValidators + 1 - Cardinality(progress)))

\* What deposits and withdrawals make of the directed stake of a validator with a
\* target, and of its balance, once the validator has the lamports held: a withdrawal
\* takes directed stake first, a deposit fills the target, and there is no more of it
\* than there is stake.
Adjusted(i, held) ==
  LET balance  == validator_lamport_balances[i]
      directed == directed_stake_lamports[i]
      lost     == SatSub(balance, held)
      gained   == Lesser(SatSub(DirectedTargets[i], directed), SatSub(held, balance))
  IN  [directed |-> Lesser(IF lost > directed THEN 0 ELSE directed - lost + gained, held),
       balance  |-> balance - lost + gained]

\* The undirected stake of the validator being rebalanced, and as seen when
\* another one is.
CurrentLamports(i) == SatSub(stake[i], directed_stake_lamports[i])

SimulatedLamports(i) ==
  IF i \notin DOMAIN DirectedTargets THEN stake[i]
  ELSE LET a == Adjusted(i, Active(i)) IN SatSub(a.balance, a.directed + Base)
-----------------------------------------------------------------------------
(* Decreases *)

Caps == [c \in DOMAIN UnstakeCapBps |-> (StakePoolLamports * UnstakeCapBps[c]) \div 10000]

\* A validator to be instantly unstaked has no share.
UnstakeTarget(i) == IF i \in instant_unstake THEN 0 ELSE TargetLamports(i)

\* Mutant: the scoring unstake is capped by itself, not with what went before.
SimulateUnstakeAfresh(i, current, spent, balance) ==
  LET above == current - UnstakeTarget(i)
  IN  IF above <= 0 THEN Zero
      ELSE [deposit |-> 0, instant |-> 0, scoring |-> Lesser(above, Caps.scoring)]

\* simulate_unstake: what goes is a stake deposit as far as possible, then an
\* instant unstake, then a scoring unstake.
SimulateUnstake(i, current, spent, balance) ==
  LET above   == current - UnstakeTarget(i)
      deposit == IF current <= balance THEN 0
                 ELSE Lesser(Lesser(above, current - balance),
                             SatSub(Caps.deposit, spent.deposit))
      instant == IF i \notin instant_unstake THEN 0
                 ELSE Lesser(above - deposit, SatSub(Caps.instant, spent.instant))
      scoring == Lesser(above - deposit - instant, SatSub(Caps.scoring, spent.scoring))
  IN  IF above <= 0 THEN Zero
      ELSE [deposit |-> deposit, instant |-> instant, scoring |-> scoring]

Unstaked(amounts) == amounts.deposit + amounts.instant + amounts.scoring

\* The validators after i in order, the last one first.
WorseThan(i) ==
  LET place == CHOOSE k \in 1 .. NumPoolValidators : sorted_raw_score_indices[k] = i
  IN  Reverse(SubSeq(sorted_raw_score_indices, place + 1, NumPoolValidators))

\* Mutant: what the other validators will lose is not set aside.
DecreaseAlone(i, balance) ==
  LET amounts == SimulateUnstake(i, CurrentLamports(i), totals, balance)
  IN  IF Unstaked(amounts) <= MinimumDelegation THEN Zero ELSE amounts

\* decrease_stake_calculation: whoever has a lower yield comes first.
DecreaseStakeCalculation(i, balance) ==
  LET step(spent, j) ==
        IF transient[j] # 0 THEN spent
        ELSE Add(spent, SimulateUnstake(j, SimulatedLamports(j), spent,
                                        validator_lamport_balances[j]))
      amounts == SimulateUnstake(i, CurrentLamports(i),
                                 FoldLeft(step, totals, WorseThan(i)), balance)
  IN  IF Unstaked(amounts) <= MinimumDelegation THEN Zero ELSE amounts
-----------------------------------------------------------------------------
(* Increases *)

\* What validator i lacks, given that it may get stake.
Missing(i) ==
  IF delegations[i] = 0 \/ i \in instant_unstake \/ transient[i] # 0 THEN 0
  ELSE SatSub(TargetLamports(i), SimulatedLamports(i))

BetterThan(i) ==
  LET place == CHOOSE k \in 1 .. NumPoolValidators : sorted_score_indices[k] = i
  IN  SubSeq(sorted_score_indices, 1, place - 1)

\* increase_stake_calculation: whoever has a higher score comes first.
IncreaseStakeCalculation(i) ==
  LET step(left, j) == left - Lesser(Missing(j), left)
      amount == Lesser(Missing(i), FoldLeft(step, ReserveLamports, BetterThan(i)))
  IN  IF amount <= MinimumDelegation THEN 0 ELSE amount
-----------------------------------------------------------------------------
(* The rebalance instruction *)

\* The internal balance follows the stake, but keeps showing a deposit that is
\* above the target.
SyncedBalance(i) ==
  IF Active(i) < validator_lamport_balances[i] \/ CurrentLamports(i) < TargetLamports(i)
  THEN Active(i) ELSE validator_lamport_balances[i]

\* Mutant: the validator keeps its own share.
RedistributeKeeping(i, unstaked) ==
  IF unstaked.instant = 0 \/ delegations[i] = 0 THEN delegations
  ELSE [j \in Indices |->
          IF delegations[j] = 0 THEN 0 ELSE IF delegations[j] = 1 THEN 1 ELSE delegations[j] - 1]

\* The share of an instantly unstaked validator goes to the others.
Redistribute(i, unstaked) ==
  IF unstaked.instant = 0 \/ delegations[i] = 0 THEN delegations
  ELSE [j \in Indices |->
          IF j = i \/ delegations[j] = 0 THEN 0
          ELSE IF delegations[j] = 1 THEN 1 ELSE delegations[j] - 1]

\* transition_rebalance
AfterRebalance(done) == IF done = Indices THEN "Done" ELSE "Rebalance"

\* Stake is moving already.
RebalanceTransient(i) ==
  /\ tag = "Rebalance"
  /\ i \notin progress
  /\ transient[i] # 0
  /\ progress' = progress \cup {i}
  /\ tag' = AfterRebalance(progress')
  /\ UNCHANGED <<instant_unstake, delegations, fixed, validator_lamport_balances,
                 directed_stake_lamports, totals, stake, transient, reserve, epoch, plan>>

\* The balance before the move, the parts of a decrease, and what validator i gains.
Outcome(i) ==
  LET lowers == TargetLamports(i) < CurrentLamports(i) \/ i \in instant_unstake
      down   == IF lowers THEN DecreaseStakeCalculation(i, SyncedBalance(i)) ELSE Zero
      up     == IF lowers \/ CurrentLamports(i) >= TargetLamports(i) THEN 0
                ELSE IncreaseStakeCalculation(i)
  IN  [balance |-> SyncedBalance(i), down |-> down, moved |-> up - Unstaked(down)]

\* increase_validator_stake and decrease_validator_stake_with_reserve: the reserve
\* pays the rent of the transient account until it is merged, and keeps its own.
Funded(moved) ==
  moved # 0 => reserve >= 2 * StakeRent + (IF moved > 0 THEN moved ELSE 0)

MoveStake(i, moved) ==
  /\ stake' = [stake EXCEPT ![i] = IF moved < 0 THEN @ + moved ELSE @]
  /\ transient' = [transient EXCEPT ![i] = @ + moved]
  /\ reserve' = reserve - (IF moved > 0 THEN moved ELSE 0)
                        - (IF moved # 0 /\ transient[i] = 0 THEN StakeRent ELSE 0)

Rebalance(i) ==
  \E o \in {Outcome(i)} :
      /\ tag = "Rebalance"
      /\ i \notin progress
      /\ transient[i] = 0
      /\ StakePoolLamports >= 0
      /\ Funded(o.moved)
      /\ validator_lamport_balances' = [validator_lamport_balances EXCEPT ![i] =
           IF o.balance = LamportBalanceDefault THEN o.balance
           ELSE IF o.moved > 0 THEN o.balance + o.moved ELSE SatSub(o.balance, -o.moved)]
      /\ totals' = Add(totals, o.down)
      /\ delegations' = Redistribute(i, o.down)
      /\ MoveStake(i, o.moved)
      /\ progress' = progress \cup {i}
      /\ tag' = AfterRebalance(progress')
      /\ plan' = [plan EXCEPT !.holds = @ /\ delegations' = delegations]
      /\ UNCHANGED <<instant_unstake, fixed, directed_stake_lamports, epoch>>
-----------------------------------------------------------------------------
(* rebalance_directed *)

\* The books of target i are brought up to date, and moved lamports follow.
DirectedBooks(i, moved) ==
  LET a == Adjusted(i, Active(i))
  IN  /\ tag = "RebalanceDirected"
      /\ directed_stake_lamports' =
           [directed_stake_lamports EXCEPT ![i] = a.directed + moved]
      /\ validator_lamport_balances' = [validator_lamport_balances EXCEPT ![i] =
           IF moved > 0 THEN a.balance + moved ELSE SatSub(a.balance, -moved)]
      /\ UNCHANGED <<instant_unstake, delegations, fixed, totals, epoch, plan>>

\* Nothing, or some of what is missing to the target or is above it.
RebalanceDirected(i, moved) ==
  LET directed == Adjusted(i, Active(i)).directed
  IN  /\ i \in progress => directed = 0
      /\ moved > 0 => moved >= MinimumDelegation /\ moved <= DirectedTargets[i] - directed
      /\ moved < 0 => -moved >= MinimumDelegation /\ -moved <= directed - DirectedTargets[i]
      /\ moved # 0 => transient[i] = 0 /\ stake[i] + moved >= 0
      /\ Funded(moved)
      /\ DirectedBooks(i, moved)
      /\ MoveStake(i, moved)
      /\ progress' = progress \cup {i}
      /\ tag' = IF DOMAIN DirectedTargets \subseteq progress' THEN "Idle" ELSE tag

\* All targets are done, or half of the epoch is gone: the handler adjusts and ends
\* the phase. For an unused target it only ends it.
DirectedEnds(i) ==
  /\ DirectedBooks(i, 0)
  /\ tag' = "Idle"
  /\ UNCHANGED <<progress, stake, transient, reserve>>

DirectedEndsUnused ==
  /\ tag = "RebalanceDirected"
  /\ tag' = "Idle"
  /\ UNCHANGED <<progress, instant_unstake, delegations, fixed, validator_lamport_balances,
                 directed_stake_lamports, totals, stake, transient, reserve, epoch, plan>>
-----------------------------------------------------------------------------
(* The way to the phase *)

\* The k best validators get equal shares (compute_delegations).
Shares(k) ==
  [i \in Indices |-> IF \E n \in 1 .. k : sorted_score_indices[n] = i THEN k ELSE 0]

\* A new cycle: reset_state_for_new_cycle, then scores and delegations.
NewCycle(k) ==
  /\ tag = "Idle"
  /\ totals' = Zero
  /\ instant_unstake' = {}
  /\ delegations' = Shares(k)
  /\ UNCHANGED <<tag, progress, fixed, validator_lamport_balances,
                 directed_stake_lamports, stake, transient, reserve, epoch, plan>>

ComputeInstantUnstake(found) ==
  /\ tag = "Idle"
  /\ tag' = "ComputeInstantUnstake"
  /\ instant_unstake' = found
  /\ UNCHANGED <<progress, delegations, fixed, validator_lamport_balances,
                 directed_stake_lamports, totals, stake, transient, reserve, epoch, plan>>

\* The whole phase worked out at once: one pass from the lowest yield up for what
\* is unstaked, one from the highest score down for what is staked.
Plan ==
  LET lower(acc, i) ==
        LET a == IF transient[i] # 0 THEN Zero
                 ELSE SimulateUnstake(i, CurrentLamports(i), acc.spent, SyncedBalance(i))
        IN  [spent |-> Add(acc.spent, a),
             moved |-> [acc.moved EXCEPT ![i] =
                          IF Unstaked(a) <= MinimumDelegation THEN @ ELSE -Unstaked(a)]]
      raise(acc, i) ==
        LET a == Lesser(Missing(i), acc.left)
        IN  [left  |-> acc.left - a,
             moved |-> [acc.moved EXCEPT ![i] = IF a <= MinimumDelegation THEN @ ELSE a]]
      none == [i \in Indices |-> 0]
      lowered == FoldLeft(lower, [spent |-> totals, moved |-> none],
                          Reverse(sorted_raw_score_indices)).moved
  IN  FoldLeft(raise, [left |-> SatSub(CappedReserve, StakeRent * (NumPoolValidators + 1)),
                       moved |-> lowered], sorted_score_indices).moved

\* A deposit to an instantly unstaked validator that still lacks stake: others
\* count it as a deposit, and the validator's own turn as instant unstake.
HiddenDeposit ==
  \E i \in instant_unstake :
    /\ CurrentLamports(i) < TargetLamports(i)
    /\ CurrentLamports(i) > validator_lamport_balances[i]

\* transition_compute_instant_unstake. The plan holds until somebody else moves
\* stake or a share is passed on; covered: the reserve has all the rent.
StartRebalance ==
  /\ tag = "ComputeInstantUnstake"
  /\ tag' = "Rebalance"
  /\ progress' = {}
  /\ plan' = [moved   |-> Plan,
              holds   |-> TRUE,
              hidden  |-> HiddenDeposit,
              covered |-> reserve >= StakeRent * (NumPoolValidators + 1)]
  /\ UNCHANGED <<instant_unstake, delegations, fixed, validator_lamport_balances,
                 directed_stake_lamports, totals, stake, transient, reserve, epoch>>

\* A new epoch: what was moving is merged by the stake pool's update, then
\* epoch_maintenance restarts the loop.
NextEpoch ==
  /\ epoch < MaxEpoch
  /\ epoch' = epoch + 1
  /\ tag' = "RebalanceDirected"
  /\ progress' = {}
  /\ instant_unstake' = {}
  /\ stake' = [i \in Indices |-> IF transient[i] > 0 THEN stake[i] + transient[i] ELSE stake[i]]
  /\ reserve' = reserve + Sum([i \in Indices |->
       IF transient[i] = 0 THEN 0 ELSE StakeRent + SatSub(0, transient[i])])
  /\ transient' = [i \in Indices |-> 0]
  /\ UNCHANGED <<delegations, fixed, validator_lamport_balances, directed_stake_lamports,
                 totals, plan>>
-----------------------------------------------------------------------------
(* The admin and the users *)

\* The passthroughs: the balance that changes is the one at the index of the
\* validator's history account. The additional ones add to what moves already.
AdminWrites(i, moved, balance) ==
  /\ "admin" \in moves
  /\ Funded(moved)
  /\ validator_lamport_balances' = [validator_lamport_balances EXCEPT ![HistoryIndex[i]] =
       IF @ = LamportBalanceDefault THEN @ ELSE balance]
  /\ MoveStake(i, moved)
  /\ plan' = [plan EXCEPT !.holds = FALSE, !.covered = FALSE]
  /\ UNCHANGED <<tag, progress, instant_unstake, delegations, fixed,
                 directed_stake_lamports, totals, epoch>>

\* increase_validator_stake, increase_additional_validator_stake
IncreaseValidatorStake(i, a) ==
  /\ transient[i] >= 0
  /\ AdminWrites(i, a, validator_lamport_balances[HistoryIndex[i]] + a)

\* decrease_validator_stake, decrease_additional_validator_stake
DecreaseValidatorStake(i, a) ==
  /\ transient[i] <= 0
  /\ a <= stake[i]
  /\ a <= validator_lamport_balances[HistoryIndex[i]]
  /\ AdminWrites(i, -a, validator_lamport_balances[HistoryIndex[i]] - a)

\* reset_validator_lamport_balances
ResetValidatorLamportBalances ==
  /\ "admin" \in moves
  /\ validator_lamport_balances' = [i \in Indices |-> LamportBalanceDefault]
  /\ plan' = [plan EXCEPT !.holds = FALSE]
  /\ UNCHANGED <<tag, progress, instant_unstake, delegations, fixed,
                 directed_stake_lamports, totals, stake, transient, reserve, epoch>>

UsersMove(newStake, newReserve) ==
  /\ stake' = newStake
  /\ reserve' = newReserve
  /\ plan' = [plan EXCEPT !.holds = FALSE, !.covered = @ /\ newReserve >= reserve]
  /\ UNCHANGED <<tag, progress, instant_unstake, delegations, fixed,
                 validator_lamport_balances, directed_stake_lamports, totals, transient,
                 epoch>>

DepositStake(i, a) ==
  /\ "deposit" \in moves
  /\ PoolLamports + a <= MaxLamports
  /\ UsersMove([stake EXCEPT ![i] = @ + a], reserve)

WithdrawStake(i, a) ==
  /\ "withdraw" \in moves
  /\ a <= stake[i]
  /\ UsersMove([stake EXCEPT ![i] = @ - a], reserve)

DepositSol(a) ==
  /\ "deposit_sol" \in moves
  /\ PoolLamports + a <= MaxLamports
  /\ UsersMove(stake, reserve + a)

WithdrawSol(a) ==
  /\ "withdraw_sol" \in moves
  /\ a + StakeRent <= reserve
  /\ UsersMove(stake, reserve - a)
-----------------------------------------------------------------------------
(* The specification: it begins after the first rebalance_directed phase *)

Init ==
  /\ moves \in Moves
  /\ tag = "Idle"
  /\ progress = {}
  /\ instant_unstake = {}
  /\ sorted_score_indices = [k \in 1 .. NumPoolValidators |-> k - 1]
  /\ sorted_raw_score_indices \in SetToSeqs(Indices)
  /\ \E k \in 1 .. NumPoolValidators : delegations = Shares(k)
  /\ stake \in InitialStakes
  /\ directed_stake_lamports = [i \in Indices |->
       IF i \in DOMAIN DirectedTargets THEN Lesser(InitialDirected, stake[i]) ELSE 0]
  /\ validator_lamport_balances = [i \in Indices |->
       IF i \in DOMAIN DirectedTargets THEN Active(i) ELSE LamportBalanceDefault]
  /\ totals = Zero
  /\ transient = [i \in Indices |-> 0]
  /\ reserve \in InitialReserves
  /\ epoch = 0
  /\ plan = [moved |-> [i \in Indices |-> 0], holds |-> FALSE,
             hidden |-> FALSE, covered |-> FALSE]

Next ==
  \/ \E k \in 1 .. NumPoolValidators : NewCycle(k)
  \/ \E found \in InstantUnstakes : ComputeInstantUnstake(found)
  \/ StartRebalance
  \/ \E i \in Indices : Rebalance(i) \/ RebalanceTransient(i)
  \/ NextEpoch
  \/ \E i \in DOMAIN DirectedTargets :
        \/ DirectedEnds(i)
        \/ RebalanceDirected(i, 0)
        \/ \E a \in DirectedAmounts : RebalanceDirected(i, a) \/ RebalanceDirected(i, -a)
  \/ DirectedEndsUnused
  \/ \E i \in Indices, a \in Amounts :
        \/ IncreaseValidatorStake(i, a)
        \/ DecreaseValidatorStake(i, a)
        \/ DepositStake(i, a)
        \/ WithdrawStake(i, a)
  \/ ResetValidatorLamportBalances
  \/ \E a \in Amounts : DepositSol(a) \/ WithdrawSol(a)

Spec == Init /\ [][Next]_vars
-----------------------------------------------------------------------------
(* Properties *)

\* Every variable has its type; in particular no subtraction falls below zero.
TypeOK ==
  /\ tag \in {"RebalanceDirected", "Idle", "ComputeInstantUnstake", "Rebalance", "Done"}
  /\ progress \subseteq Indices
  /\ instant_unstake \subseteq Indices
  /\ delegations \in [Indices -> 0 .. NumPoolValidators]
  /\ validator_lamport_balances \in [Indices -> 0 .. LamportBalanceDefault]
  /\ directed_stake_lamports \in [Indices -> Nat]
  /\ totals \in [Categories -> Nat]
  /\ stake \in [Indices -> Nat]
  /\ transient \in [Indices -> Int]
  /\ reserve \in Nat

\* "Won't unstake beyond each category's cap": a step that adds to a total of the
\* cycle does not take it above the cap, whatever was unstaked before and however
\* the pool, and with it the cap, has changed since.
CapsHold ==
  [][tag = "Rebalance" =>
       \A c \in DOMAIN totals : totals'[c] > totals[c] => totals'[c] <= Caps[c]]_vars

\* The shares never add up to more than the pool, however many validators were
\* instantly unstaked and their shares passed on.
NotOverAllocated ==
  LET shared == {i \in Indices : delegations[i] # 0}
  IN  \A i \in shared : delegations[i] >= Cardinality(shared)

\* "these instructions can run in any order": whoever is cranked first, each
\* validator gets what one pass over all of them at the start of the phase gives it.
OrderDoesNotMatter ==
  [][\A i \in Indices :
       tag = "Rebalance" /\ i \in progress' \ progress /\ plan.holds =>
         transient'[i] = plan.moved[i]]_vars

\* The same, unless the phase began with a deposit that the two ways of counting
\* put in different categories.
OrderMattersOnlyToHiddenDeposits ==
  [][\A i \in Indices :
       tag = "Rebalance" /\ i \in progress' \ progress /\ plan.holds /\ ~plan.hidden =>
         transient'[i] = plan.moved[i]]_vars

\* "covers rent for all validators plus the transient rent": whatever the phase
\* does, a reserve that had the rent can pay for the validators still to come.
AllFunded ==
  tag = "Rebalance" /\ plan.covered =>
    \A i \in Indices \ progress : transient[i] = 0 => Funded(Outcome(i).moved)

\* What a validator has and is getting, and how much of it is directed stake by the
\* books, and once they are brought up to date in the next epoch.
Held(i) == Active(i) + (IF transient[i] > 0 THEN transient[i] ELSE 0)
TrueDirected(i) ==
  IF i \in DOMAIN DirectedTargets THEN Adjusted(i, Held(i)).directed ELSE 0
UndirectedStake == Sum([i \in Indices |-> Held(i) - TrueDirected(i)])
Overstated ==
  Sum([i \in Indices |-> SatSub(directed_stake_lamports[i], TrueDirected(i))])

\* An increase of the Rebalance phase.
Increases(i) == tag = "Rebalance" /\ i \in progress' \ progress /\ transient'[i] > transient[i]

\* An increase takes the undirected stake above the ceiling by no more than
\* withdrawals have taken of the directed stake without the books knowing.
CeilingHolds ==
  [][\A i \in Indices : Increases(i) => UndirectedStake' <= StakeCeiling + Overstated']_vars

\* "This ensures total undirected stake never exceeds the configured ceiling": refuted.
CeilingNeverExceeded ==
  [][\A i \in Indices : Increases(i) => UndirectedStake' <= StakeCeiling]_vars

\* "Indices correspond to spl_stake_pool::ValidatorList index": where only the
\* steward and its admin move stake, an internal balance is what its validator has
\* and is getting.
BalanceTracksStake ==
  \A i \in Indices :
    validator_lamport_balances[i] \in
      {LamportBalanceDefault, Active(i) + (IF transient[i] > 0 THEN transient[i] ELSE 0)}

\* "we can calculate current_lamports - validator_lamport_balances[index] to see the
\* net stake deposits that should be unstaked": a decrease of the only validator
\* with more stake than its balance is, as far as the cap allows, a deposit's.
HasDeposit(i) == Active(i) > validator_lamport_balances[i]
DepositsComeFirst ==
  [][\A i \in Indices :
       /\ tag = "Rebalance" /\ i \in progress' \ progress
       /\ transient'[i] < 0
       /\ \A j \in Indices : HasDeposit(j) <=> j = i
       /\ totals.deposit < Caps.deposit
       => totals'.deposit > totals.deposit]_vars
=============================================================================
