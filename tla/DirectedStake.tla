---------------------------- MODULE DirectedStake ----------------------------
(***************************************************************************)
(* The DirectedStakeMeta account: the targets uploaded for validators, the *)
(* directed stake applied to each of them, and its mirror by validator     *)
(* list index, kept in step with validator_lamport_balances while stake is *)
(* deposited, withdrawn, rebalanced, and validators join and leave.        *)
(*                                                                         *)
(* Abstractions:                                                           *)
(*  - lamports are small numbers; a stake account's rent and minimum       *)
(*    delegation, which never move, are not counted in active stake;       *)
(*  - target_last_updated_epoch, which nothing reads, is left out, and     *)
(*    staked_last_updated_epoch is the set rebalanced of the targets for   *)
(*    which it is the current epoch;                                       *)
(*  - every state of the machine after RebalanceDirected is "Later", and   *)
(*    the amount of an undirected rebalance is any that its bounds allow;  *)
(*  - next_cycle_epoch is its position relative to the clock (due);        *)
(*  - the stake pool's total_lamports is what the pool has: a deposit or    *)
(*    withdrawal shows in it at once;                                       *)
(*  - the marks of validators to remove are left out: an entry that the    *)
(*    stake pool drops is leaving until remove_validator has dropped it    *)
(*    from the state, and its stake returns to the reserve at once.        *)
(*                                                                         *)
(* The history variable astray, which no guard reads, holds the indices at *)
(* which the records may have parted: those written while list and state   *)
(* were not in step, those that a removal left behind, and those of        *)
(* validators that came back to a target. Everywhere else they must agree. *)
(***************************************************************************)
EXTENDS Integers, Sequences, FiniteSets, SequencesExt

CONSTANTS
  Votes,              \* vote accounts that can be in the pool
  NoVote,             \* Pubkey::default()
  MaxValidators,      \* MAX_VALIDATORS
  MaxLamports,        \* bound on the stake of the whole pool
  MaxTargets,         \* bound on uploaded targets
  Goals,              \* amounts that are uploaded as targets
  Moves,              \* amounts that undirected rebalances move
  MinimumDelegation,
  StakeRent,
  UnstakeCapBps,      \* directed_stake_unstake_cap_bps
  MaxProduct,         \* u64::MAX, at which a product saturates
  InitialPool,        \* the validator list when the accounts are set up
  ZeroByteVotes       \* vote accounts that read as zero where is_initialized looks

ASSUME DirectedAssumption ==
  /\ NoVote \notin Votes
  /\ MaxValidators \in Nat \ {0}
  /\ MaxLamports \in Nat
  /\ MaxTargets \in 0 .. MaxValidators
  /\ Goals \subseteq 0 .. MaxLamports
  /\ Moves \subseteq -MaxLamports .. MaxLamports
  /\ MinimumDelegation \in Nat
  /\ StakeRent \in Nat
  /\ UnstakeCapBps \in Nat
  /\ MaxProduct \in Nat
  /\ InitialPool \in Seq(Votes)
  /\ Len(InitialPool) <= MaxValidators
  /\ \A j, k \in 1 .. Len(InitialPool) : InitialPool[j] = InitialPool[k] => j = k
  /\ ZeroByteVotes \subseteq Votes

VARIABLES
  targets,                      \* the targets array
  total_stake_targets,
  rebalanced,                   \* targets done in the current epoch
  directed_unstake_total,
  directed_stake_lamports,      \* by validator list index
  directed_stake_meta_indices,  \* by validator list index
  validator_lamport_balances,   \* of the StewardState account
  num_pool_validators,
  validators_added,
  tag,                          \* state_tag
  stage,                        \* how far the epoch's start has got
  due,                          \* epoch against next_cycle_epoch
  validator_list,               \* of the stake pool
  reserve,
  leaving,                      \* what has left the list and not the state
  astray                        \* history: indices whose records may have parted

meta == <<targets, total_stake_targets, rebalanced, directed_unstake_total,
          directed_stake_lamports, directed_stake_meta_indices>>
state == <<validator_lamport_balances, num_pool_validators, validators_added, tag>>
clock == <<stage, due>>
pool == <<validator_list, reserve, leaving>>

vars == <<meta, state, clock, pool, astray>>

Indices == 0 .. MaxValidators - 1
NoTarget == MaxValidators                        \* u64::MAX in the index array
LamportBalanceDefault == 3 * MaxLamports + 1     \* u64::MAX
EmptyTarget == [vote |-> NoVote, goal |-> 0, staked |-> 0]

Nobody == [index |-> 0, vote |-> NoVote]         \* no validator is leaving

SatSub(a, b) == IF a > b THEN a - b ELSE 0
Lesser(a, b) == IF a < b THEN a ELSE b

InList(v) == \E k \in 1 .. Len(validator_list) : validator_list[k].vote = v
Entry(i) == validator_list[i + 1]
ListIndex(v) == CHOOSE i \in 0 .. Len(validator_list) - 1 : Entry(i).vote = v

HasTarget(v) == \E t \in Indices : targets[t].vote = v
TargetOf(v) == CHOOSE t \in Indices : targets[t].vote = v

\* all_targets_rebalanced_for_epoch
AllTargetsRebalanced(done) == \A t \in Indices : targets[t].vote # NoVote => t \in done

Total(f) == FoldFunction(LAMBDA a, b : a + b, 0, f)

\* total_lamports of the stake pool.
PoolLamports ==
  reserve + Total([k \in 1 .. Len(validator_list) |->
                     validator_list[k].active + SatSub(validator_list[k].transient, 0)
                                              + SatSub(0, validator_list[k].transient)])

\* The validators in the order in which the state has them: the list, with the
\* validator that is leaving back in its place.
Seats == Len(validator_list) + (IF leaving = Nobody THEN 0 ELSE 1)
Seating ==
  [i \in 0 .. Seats - 1 |->
     IF leaving = Nobody \/ i < leaving.index THEN validator_list[i + 1].vote
     ELSE IF i = leaving.index THEN leaving.vote ELSE validator_list[i].vote]
Targeted(i) == i < Seats /\ HasTarget(Seating[i])

\* What is written at list index i while a validator before it is leaving belongs
\* one seat further on.
Misplaced(i) == IF leaving = Nobody \/ i < leaving.index THEN {} ELSE {i, i + 1}
-----------------------------------------------------------------------------
(* Deposits and withdrawals *)

\* What adjust_directed_stake_for_deposits_and_withdrawals and its simulation
\* share: stake lost to withdrawals and the part of a deposit below the target.
Lost(i, active) == SatSub(validator_lamport_balances[i], active)
Gained(i, t, active) ==
  IF active > validator_lamport_balances[i]
  THEN Lesser(SatSub(targets[t].goal, targets[t].staked),
              active - validator_lamport_balances[i])
  ELSE 0

NewBalance(i, t, active) ==
  validator_lamport_balances[i] - Lost(i, active) + Gained(i, t, active)

\* A withdrawal above the directed stake takes all of it.
Moved(amount, i, t, active) ==
  IF Lost(i, active) > targets[t].staked THEN 0
  ELSE SatSub(amount, Lost(i, active)) + Gained(i, t, active)

\* Mutant: directed stake above the validator's stake is kept.
AdjustWithoutClamp(i, t, active) ==
  [staked   |-> Moved(targets[t].staked, i, t, active),
   directed |-> Moved(directed_stake_lamports[i], i, t, active),
   balance  |-> NewBalance(i, t, active)]

\* adjust_directed_stake_for_deposits_and_withdrawals
Adjust(i, t, active) ==
  LET staked == Moved(targets[t].staked, i, t, active)
      excess == SatSub(staked, active)
  IN  [staked   |-> staked - excess,
       directed |-> SatSub(Moved(directed_stake_lamports[i], i, t, active), excess),
       balance  |-> NewBalance(i, t, active)]

\* simulate_adjust_directed_stake_for_deposits_and_withdrawals
SimulateAdjust(i, active) ==
  LET t == directed_stake_meta_indices[i]
  IN  IF t = NoTarget THEN [directed |-> 0, balance |-> active]
      ELSE [directed |-> Lesser(Moved(directed_stake_lamports[i], i, t, active), active),
            balance  |-> NewBalance(i, t, active)]
-----------------------------------------------------------------------------
(* rebalance_directed *)

\* The targets still to rebalance in this epoch.
Remaining == {t \in 0 .. total_stake_targets - 1 : t \notin rebalanced}

\* directed_unstake_cap_lamports, of the pool as it is at this crank.
UnstakeCap == Lesser(PoolLamports * UnstakeCapBps, MaxProduct) \div 10000

\* Mutant: the cap is not lowered by what the cycle has unstaked already.
DecreaseIgnoringTotal(t, staked) ==
  LET excess(u) == SatSub(IF u = t THEN staked ELSE targets[u].staked, targets[u].goal)
      total     == Total([u \in Remaining |-> excess(u)])
      room      == Lesser(UnstakeCap, total)
      amount    == (room * ((excess(t) * 10000) \div total)) \div 10000
  IN  IF excess(t) = 0 \/ total = 0 THEN 0
      ELSE IF Lesser(amount, excess(t)) < MinimumDelegation THEN 0
      ELSE Lesser(amount, excess(t))

\* decrease_stake_calculation: a share of what is left of the cap, in proportion
\* to the excess over the target.
Decrease(t, staked) ==
  LET excess(u) == SatSub(IF u = t THEN staked ELSE targets[u].staked, targets[u].goal)
      total     == Total([u \in Remaining |-> excess(u)])
      room      == Lesser(SatSub(UnstakeCap, directed_unstake_total), total)
      amount    == (room * ((excess(t) * 10000) \div total)) \div 10000
  IN  IF excess(t) = 0 \/ total = 0 THEN 0
      ELSE IF Lesser(amount, excess(t)) < MinimumDelegation THEN 0
      ELSE Lesser(amount, excess(t))

\* increase_stake_calculation: a share of the reserve, in proportion to what is
\* missing to the target.
Increase(t, staked) ==
  LET missing(u) == SatSub(targets[u].goal, IF u = t THEN staked ELSE targets[u].staked)
      total      == Total([u \in Remaining |-> missing(u)])
      available  == SatSub(reserve, 2 * StakeRent)
      amount     == (available * ((missing(t) * 10000) \div total)) \div 10000
  IN  IF missing(t) = 0 \/ total = 0 THEN 0
      ELSE IF Lesser(amount, missing(t)) < MinimumDelegation THEN 0
      ELSE Lesser(amount, missing(t))

\* The directed books of target t at list index i after a change.
WriteBooks(i, t, staked, directed, balance) ==
  /\ targets' = [targets EXCEPT ![t].staked = staked]
  /\ directed_stake_lamports' = [directed_stake_lamports EXCEPT ![i] = directed]
  /\ validator_lamport_balances' = [validator_lamport_balances EXCEPT ![i] = balance]

\* The target's validator is not in the list: only the epoch is noted. An unused
\* slot, named by the default key, takes the same path; its epoch is never read.
RebalanceDirectedMissing(t, late) ==
  /\ ~InList(targets[t].vote)
  /\ rebalanced' = IF targets[t].vote = NoVote THEN rebalanced ELSE rebalanced \cup {t}
  /\ tag' = IF AllTargetsRebalanced(rebalanced') \/ late THEN "Later" ELSE tag
  /\ UNCHANGED <<targets, total_stake_targets, directed_unstake_total,
                 directed_stake_lamports, directed_stake_meta_indices,
                 validator_lamport_balances, num_pool_validators, validators_added,
                 clock, pool, astray>>

\* The handler adjusts, then finds the phase at its end: all targets done, or
\* (late) half of the epoch gone. The adjustment stays.
RebalanceDirectedEnds(t, late) ==
  LET i == ListIndex(targets[t].vote)
      a == Adjust(i, t, Entry(i).active)
  IN  /\ tag = "RebalanceDirected"
      /\ targets[t].vote # NoVote
      /\ InList(targets[t].vote)
      /\ AllTargetsRebalanced(rebalanced) \/ late
      /\ WriteBooks(i, t, a.staked, a.directed, a.balance)
      /\ tag' = "Later"
      /\ astray' = astray \cup Misplaced(i)
      /\ UNCHANGED <<total_stake_targets, rebalanced, directed_unstake_total,
                     directed_stake_meta_indices, num_pool_validators,
                     validators_added, clock, pool>>

RebalanceDirected(t) ==
  LET i    == ListIndex(targets[t].vote)
      a    == Adjust(i, t, Entry(i).active)
      down == Decrease(t, a.staked)
      up   == IF down > 0 THEN 0 ELSE Increase(t, a.staked)
  IN  /\ tag = "RebalanceDirected"
      /\ stage = "maintained"
      /\ leaving = Nobody
      /\ targets[t].vote # NoVote
      /\ InList(targets[t].vote)
      /\ ~AllTargetsRebalanced(rebalanced)
      /\ t \in rebalanced => a.staked = 0
      /\ t < total_stake_targets
      \* the stake pool refuses a second movement, and what it does not have
      /\ down + up > 0 => Entry(i).transient = 0
      /\ down <= Entry(i).active
      /\ up <= reserve
      /\ WriteBooks(i, t, SatSub(a.staked, down) + up, SatSub(a.directed, down) + up,
                    SatSub(a.balance, down) + up)
      /\ validator_list' = [validator_list EXCEPT ![i + 1] =
                              [Entry(i) EXCEPT !.active = @ - down, !.transient = @ + up - down]]
      /\ reserve' = reserve - up
      /\ directed_unstake_total' = directed_unstake_total + down
      /\ rebalanced' = rebalanced \cup {t}
      /\ tag' = IF AllTargetsRebalanced(rebalanced') THEN "Later" ELSE tag
      /\ UNCHANGED <<total_stake_targets, directed_stake_meta_indices,
                     num_pool_validators, validators_added, clock, leaving, astray>>
-----------------------------------------------------------------------------
(* Uploading and maintaining targets *)

\* copy_directed_stake_targets: the target of the validator at list index i.
CopyDirectedStakeTargets(i, goal) ==
  LET v == Entry(i).vote
  IN  /\ i < Len(validator_list)
      /\ IF HasTarget(v)
         THEN /\ targets' = [targets EXCEPT ![TargetOf(v)].goal = goal]
              /\ UNCHANGED <<total_stake_targets, rebalanced, directed_stake_lamports,
                             directed_stake_meta_indices, astray>>
         ELSE /\ total_stake_targets < MaxTargets
              /\ targets' = [targets EXCEPT ![total_stake_targets] =
                               [vote |-> v, goal |-> goal, staked |-> 0]]
              /\ total_stake_targets' = total_stake_targets + 1
              /\ rebalanced' = rebalanced \ {total_stake_targets}
              /\ directed_stake_lamports' = [directed_stake_lamports EXCEPT ![i] = 0]
              /\ directed_stake_meta_indices' =
                   [directed_stake_meta_indices EXCEPT ![i] = total_stake_targets]
              /\ astray' = (astray \ {i}) \cup Misplaced(i)
      /\ UNCHANGED <<directed_unstake_total, state, clock, pool>>

\* sync_directed_stake_lamports: an index whose target is another validator's is
\* left alone.
SyncDirectedStakeLamports ==
  /\ directed_stake_lamports' =
       [i \in Indices |->
          LET t == directed_stake_meta_indices[i]
          IN  IF i < Len(validator_list) /\ t # NoTarget
              THEN IF targets[t].vote = Entry(i).vote THEN targets[t].staked
                                                      ELSE directed_stake_lamports[i]
              ELSE directed_stake_lamports[i]]
  /\ UNCHANGED <<targets, total_stake_targets, rebalanced, directed_unstake_total,
                 directed_stake_meta_indices, state, clock, pool, astray>>

MigrateDirectedToAlgorithmic ==
  /\ targets' = [t \in Indices |-> [targets[t] EXCEPT !.goal = 0, !.staked = 0]]
  /\ rebalanced' = {t \in Indices : targets[t].vote # NoVote} \cup rebalanced
  /\ directed_stake_lamports' = [i \in Indices |-> 0]
  /\ directed_unstake_total' = 0
  /\ UNCHANGED <<total_stake_targets, directed_stake_meta_indices, state, clock, pool,
                 astray>>

\* is_initialized: the byte at IS_INITIALIZED_BYTE_POSITION lies inside the vote
\* account of the first target.
ReadsInitialized ==
  /\ targets[0].vote # NoVote
  /\ targets[0].vote \notin ZeroByteVotes

ReallocDirectedStakeMeta ==
  /\ ~ReadsInitialized
  /\ targets' = [t \in Indices |-> EmptyTarget]
  /\ rebalanced' = {}
  /\ directed_stake_lamports' = [i \in Indices |-> 0]
  /\ directed_stake_meta_indices' = [i \in Indices |-> NoTarget]
  /\ astray' = {}
  /\ UNCHANGED <<total_stake_targets, directed_unstake_total, state, clock, pool>>
-----------------------------------------------------------------------------
(* The pool and the state machine around it *)

\* One validator's undirected rebalance, moved lamports up (or down, if negative):
\* the balance is brought to the stake found, unless that is a deposit above the
\* target (keep).
Rebalance(i, moved, keep) ==
  LET active  == Entry(i).active
      balance == IF keep /\ active >= validator_lamport_balances[i]
                 THEN validator_lamport_balances[i] ELSE active
  IN  /\ tag = "Later"
      /\ stage = "maintained"
      /\ leaving = Nobody
      /\ i < num_pool_validators
      /\ Entry(i).transient = 0
      /\ moved <= reserve
      /\ -moved <= SatSub(active, directed_stake_lamports[i])
      /\ validator_lamport_balances' =
           [validator_lamport_balances EXCEPT ![i] =
              IF balance = LamportBalanceDefault THEN balance
              ELSE IF moved > 0 THEN balance + moved ELSE SatSub(balance, -moved)]
      /\ validator_list' = [validator_list EXCEPT ![i + 1] =
                              [Entry(i) EXCEPT !.active = IF moved < 0 THEN @ + moved ELSE @,
                                               !.transient = moved]]
      /\ reserve' = IF moved > 0 THEN reserve - moved ELSE reserve
      /\ UNCHANGED <<meta, num_pool_validators, validators_added, tag, clock, leaving, astray>>

\* Half of the epoch is gone, and the crank of another phase takes the transition.
UncheckedTransition ==
  /\ tag = "RebalanceDirected"
  /\ tag' = "Later"
  /\ UNCHANGED <<meta, validator_lamport_balances, num_pool_validators,
                 validators_added, clock, pool, astray>>

\* Scoring opens a cycle: the validators added since join the pool.
StartCycle ==
  /\ tag = "Later"
  /\ stage = "maintained"
  /\ leaving = Nobody
  /\ due # "before"
  /\ due' = "before"
  /\ num_pool_validators' = Len(validator_list)
  /\ validators_added' = 0
  /\ UNCHANGED <<meta, validator_lamport_balances, tag, stage, pool, astray>>

AddValidator(v) ==
  /\ stage = "maintained"
  /\ leaving = Nobody
  /\ Len(validator_list) < MaxValidators
  /\ ~InList(v)
  /\ validators_added' = validators_added + 1
  /\ validator_list' = Append(validator_list, [vote |-> v, active |-> 0, transient |-> 0])
  /\ astray' = IF HasTarget(v) THEN astray \cup {Len(validator_list)} ELSE astray
  /\ UNCHANGED <<meta, validator_lamport_balances, num_pool_validators, tag, clock,
                 reserve, leaving>>

\* The stake pool drops the entry of a validator whose stake is gone.
CleanupRemovedValidatorEntry(i) ==
  /\ leaving = Nobody
  /\ i < Len(validator_list)
  /\ Entry(i).transient = 0
  /\ leaving' = [index |-> i, vote |-> Entry(i).vote]
  /\ reserve' = reserve + Entry(i).active
  /\ validator_list' = RemoveAt(validator_list, i + 1)
  /\ UNCHANGED <<meta, state, clock, astray>>

\* The loop "for i in index..n { a[i] = a[i + 1] }" followed by a[n] = default.
ShiftArray(a, index, n, default) ==
  [i \in Indices |-> IF i = n THEN default
                     ELSE IF index <= i /\ i < n THEN a[i + 1] ELSE a[i]]

\* After a removal: the entry cleared last is astray if a validator with a target
\* comes to sit there, what is shifted is as astray as before, and what is not
\* shifted, although its validator moves, if a target was or is there.
AstrayAfter(index, num) ==
  {i \in Indices :
     IF i = num THEN Targeted(IF i < index THEN i ELSE i + 1)
     ELSE IF index <= i /\ i < num THEN i + 1 \in astray
     ELSE i \in astray \/ (index <= i /\ (Targeted(i) \/ Targeted(i + 1)))}

\* Mutant: the index array stays behind.
RemoveKeepingIndices ==
  LET index  == leaving.index
      inPool == index < num_pool_validators
      num    == IF inPool THEN num_pool_validators - 1 ELSE num_pool_validators
  IN  /\ leaving # Nobody
      /\ num_pool_validators' = num
      /\ validators_added' = IF inPool THEN validators_added ELSE validators_added - 1
      /\ validator_lamport_balances' =
           ShiftArray(validator_lamport_balances, index, num, LamportBalanceDefault)
      /\ directed_stake_lamports' = ShiftArray(directed_stake_lamports, index, num, 0)
      /\ leaving' = Nobody
      /\ astray' = AstrayAfter(index, num)
      /\ UNCHANGED <<targets, total_stake_targets, rebalanced, directed_unstake_total,
                     directed_stake_meta_indices, tag, clock, validator_list, reserve>>

\* remove_validator, by instant_remove_validator or epoch_maintenance: the directed
\* arrays are shifted up to num_pool_validators only.
RemoveValidator ==
  LET index  == leaving.index
      inPool == index < num_pool_validators
      num    == IF inPool THEN num_pool_validators - 1 ELSE num_pool_validators
  IN  /\ leaving # Nobody
      /\ num_pool_validators' = num
      /\ validators_added' = IF inPool THEN validators_added ELSE validators_added - 1
      /\ validator_lamport_balances' =
           ShiftArray(validator_lamport_balances, index, num, LamportBalanceDefault)
      /\ directed_stake_lamports' = ShiftArray(directed_stake_lamports, index, num, 0)
      /\ directed_stake_meta_indices' =
           ShiftArray(directed_stake_meta_indices, index, num, NoTarget)
      /\ leaving' = Nobody
      /\ astray' = AstrayAfter(index, num)
      /\ UNCHANGED <<targets, total_stake_targets, rebalanced, directed_unstake_total,
                     tag, clock, validator_list, reserve>>

\* The end of epoch maintenance; the unstake total is cleared when a cycle is due
\* in this very epoch.
EpochMaintenance ==
  /\ stage = "updated"
  /\ leaving = Nobody
  /\ stage' = "maintained"
  /\ tag' = "RebalanceDirected"
  /\ directed_unstake_total' = IF due = "at" THEN 0 ELSE directed_unstake_total
  /\ UNCHANGED <<targets, total_stake_targets, rebalanced, directed_stake_lamports,
                 directed_stake_meta_indices, validator_lamport_balances,
                 num_pool_validators, validators_added, due, pool, astray>>

\* The stake pool's own update: activated stake is merged, deactivated stake
\* returns to the reserve.
UpdateStakePool ==
  /\ stage = "new"
  /\ stage' = "updated"
  /\ validator_list' =
       [k \in 1 .. Len(validator_list) |->
          LET e == validator_list[k]
          IN  [e EXCEPT !.active = IF e.transient > 0 THEN @ + e.transient ELSE @,
                        !.transient = 0]]
  /\ reserve' = reserve + Total([k \in 1 .. Len(validator_list) |->
                                   SatSub(0, validator_list[k].transient)])
  /\ UNCHANGED <<meta, state, due, leaving, astray>>

NextEpoch ==
  /\ stage' = "new"
  /\ \/ due = "before" /\ due' \in {"before", "at"}
     \/ due # "before" /\ due' = "after"
  /\ rebalanced' = {}
  /\ UNCHANGED <<targets, total_stake_targets, directed_unstake_total,
                 directed_stake_lamports, directed_stake_meta_indices, state, pool, astray>>

\* Stakers deposit to and withdraw from validators and the reserve; the pool holds
\* at most MaxLamports.
StakeMoves(i, amount) ==
  /\ i < Len(validator_list)
  /\ Entry(i).active + amount >= 0
  /\ amount > 0 => PoolLamports < MaxLamports
  /\ validator_list' = [validator_list EXCEPT ![i + 1] =
                          [Entry(i) EXCEPT !.active = @ + amount]]
  /\ UNCHANGED <<meta, state, clock, reserve, leaving, astray>>

ReserveMoves(amount) ==
  /\ reserve + amount >= 0
  /\ amount > 0 => PoolLamports < MaxLamports
  /\ reserve' = reserve + amount
  /\ UNCHANGED <<meta, state, clock, validator_list, leaving, astray>>
-----------------------------------------------------------------------------
(* The specification *)

InitFrom(votes) ==
  /\ targets = [t \in Indices |-> EmptyTarget]
  /\ total_stake_targets = 0
  /\ rebalanced = {}
  /\ directed_unstake_total = 0
  /\ directed_stake_lamports = [i \in Indices |-> 0]
  /\ directed_stake_meta_indices = [i \in Indices |-> NoTarget]
  /\ validator_lamport_balances = [i \in Indices |-> LamportBalanceDefault]
  /\ num_pool_validators = Len(votes)
  /\ validators_added = 0
  /\ tag = "Later"
  /\ stage = "new"
  /\ due = "at"
  /\ validator_list = [k \in 1 .. Len(votes) |->
                         [vote |-> votes[k], active |-> 0, transient |-> 0]]
  /\ reserve = 0
  /\ leaving = Nobody
  /\ astray = {}

Init == InitFrom(InitialPool)

Next ==
  \/ \E t \in Indices, late \in BOOLEAN :
        RebalanceDirectedMissing(t, late) \/ RebalanceDirectedEnds(t, late)
  \/ \E t \in Indices : RebalanceDirected(t)
  \/ \E i \in Indices, goal \in Goals : CopyDirectedStakeTargets(i, goal)
  \/ SyncDirectedStakeLamports
  \/ MigrateDirectedToAlgorithmic
  \/ ReallocDirectedStakeMeta
  \/ \E i \in Indices, moved \in Moves, keep \in BOOLEAN :
        Rebalance(i, moved, keep)
  \/ UncheckedTransition
  \/ StartCycle
  \/ \E v \in Votes : AddValidator(v)
  \/ \E i \in Indices : CleanupRemovedValidatorEntry(i)
  \/ RemoveValidator
  \/ EpochMaintenance
  \/ UpdateStakePool
  \/ NextEpoch
  \/ \E i \in Indices, amount \in {-1, 1} : StakeMoves(i, amount)
  \/ \E amount \in {-1, 1} : ReserveMoves(amount)

Spec == Init /\ [][Next]_vars
-----------------------------------------------------------------------------
(* Properties *)

\* Every variable has its type; no balance or total falls below zero or grows
\* past the stake of the pool.
TypeOK ==
  /\ targets \in [Indices -> [vote : Votes \cup {NoVote}, goal : 0 .. MaxLamports,
                              staked : 0 .. 2 * MaxLamports]]
  /\ total_stake_targets \in 0 .. MaxValidators
  /\ rebalanced \subseteq Indices
  /\ directed_stake_lamports \in [Indices -> 0 .. 2 * MaxLamports]
  /\ directed_stake_meta_indices \in [Indices -> Indices \cup {NoTarget}]
  /\ validator_lamport_balances \in [Indices -> 0 .. LamportBalanceDefault]
  /\ num_pool_validators + validators_added =
       Len(validator_list) + (IF leaving = Nobody THEN 0 ELSE 1)
  /\ validators_added \in 0 .. MaxValidators
  /\ reserve \in 0 .. MaxLamports
  /\ \A k \in 1 .. Len(validator_list) : validator_list[k].active \in 0 .. MaxLamports
  /\ tag \in {"RebalanceDirected", "Later"}
  /\ stage \in {"new", "updated", "maintained"}
  /\ due \in {"before", "at", "after"}

\* The records at index i: the index array leads to the validator's own target, and
\* both records of its directed stake agree; without a target there is nothing.
InStep(i) ==
  LET v == Entry(i).vote
      t == directed_stake_meta_indices[i]
  IN  IF HasTarget(v)
      THEN t = TargetOf(v) /\ directed_stake_lamports[i] = targets[t].staked
      ELSE t = NoTarget /\ directed_stake_lamports[i] = 0

\* "Both mirrors (targets[i].total_staked_lamports and directed_stake_lamports[j])
\* ... the accounting invariant": whatever is uploaded, rebalanced, added and removed,
\* in the middle of a removal too, the records part nowhere but at the indices astray.
MirrorsAgree ==
  leaving = Nobody => \A i \in 0 .. Len(validator_list) - 1 : i \notin astray => InStep(i)

\* The same of every index, which the code does not keep up.
AllMirrorsAgree ==
  leaving = Nobody => \A i \in 0 .. Len(validator_list) - 1 : InStep(i)

\* "keeping their branches in sync is required for scoring/rebalance correctness":
\* what the simulation tells the undirected rebalance of a validator is what the
\* directed rebalance would write, wherever the records are not astray.
SimulationAgrees ==
  leaving = Nobody =>
    \A i \in (0 .. Len(validator_list) - 1) \ astray :
      LET t == directed_stake_meta_indices[i]
          a == Adjust(i, t, Entry(i).active)
      IN  t # NoTarget => SimulateAdjust(i, Entry(i).active) =
                            [directed |-> a.directed, balance |-> a.balance]

\* "capped to a scoring cycle based directed unstake cap": a crank that unstakes
\* directed stake leaves what its cycle has unstaked within UnstakeCapBps of the pool
\* at that moment, although the pool, and the cap with it, may have shrunk since the
\* earlier cranks.
WithinCap ==
  [][directed_unstake_total' > directed_unstake_total =>
       directed_unstake_total' * 10000 <= PoolLamports * UnstakeCapBps]_vars

\* "a pro-rata allocation of the reserve lamports": no increase that a target can
\* still get in this epoch is above the reserve.
IncreaseWithinReserve ==
  tag = "RebalanceDirected" /\ stage = "maintained" /\ leaving = Nobody =>
    \A t \in 0 .. total_stake_targets - 1 :
      t \in rebalanced => targets[t].staked > 0 \/ Increase(t, 0) <= reserve

\* total_stake_targets is the number of targets: none is lost.
TargetsCounted ==
  total_stake_targets = Cardinality({t \in Indices : targets[t].vote # NoVote})
=============================================================================
