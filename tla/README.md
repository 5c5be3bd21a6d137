# StakeNet in TLA+

A verification project for Jito StakeNet: TLA+ modules that model the on-chain
programs and the off-chain keeper, TLC configurations that check them on small
instances, and TLAPS proofs of the properties that matter most.

## 1. The system

StakeNet manages the stake of the JitoSOL SPL stake pool. Two Anchor programs run
on Solana, and an off-chain keeper drives both.

| Part | State | Operations |
|------|-------|------------|
| validator-history program (`programs/validator-history`) | one `ValidatorHistory` per vote account: a ring buffer of 512 epochs, the validator's age, timestamps of the last gossip upload; one `ClusterHistory`; a `Config` with the authorities | `copy_vote_account`, `copy_gossip_contact_info`, `copy_tip_distribution_account`, `copy_priority_fee_distribution`, `update_stake_history`, `update_priority_fee_history`, `upload_validator_age`, `copy_cluster_info`, `backfill_total_blocks`, init, realloc and authority instructions |
| steward state machine (`programs/steward/src/state/steward_state.rs` and the crank instructions) | `StewardStateV2`: tag, status flags, bitmasks, pool counters, scores, sorted indices, delegations, internal balances, unstake totals | `compute_score`, `compute_delegations`, `idle`, `compute_instant_unstake`, `rebalance`, `rebalance_directed`, `epoch_maintenance` |
| pool membership | the stake pool's validator list; the marks `validators_to_remove` and `validators_for_immediate_removal` | `auto_add_validator_to_pool`, `auto_remove_validator_from_pool`, `instant_remove_validator`, `epoch_maintenance`, the admin's passthroughs |
| scoring and delegation (`score.rs`, `delegation.rs`, `compute_score`, `compute_delegations`) | `scores`, `raw_scores`, two sorted index arrays, `delegations` | score a validator, sort it in, pick the top validators |
| rebalancing (`rebalance`, `delegation.rs`, `directed_delegation.rs`) | `validator_lamport_balances`, the unstake totals of the cycle | increase or decrease a validator's stake by one CPI, within the caps |
| directed stake (`state/directed_stake.rs`, `rebalance_directed.rs`) | `DirectedStakeMeta` (targets, staked lamports, index arrays), whitelist, tickets | copy targets, rebalance a target, tickets, whitelist, sync and migration |
| configuration (`state/parameters.rs`, authorities, blacklist) | `Config` | `update_parameters`, `set_new_authority`, blacklist, pause and resume |
| keeper (`keepers/stakenet-keeper`) | counters and flags per epoch, fetched account maps, an SQLite file of block metadata | a tick loop: fetch, create accounts, fire the validator-history, steward and block-metadata operations; transaction submission with retries |
| CLIs, SDK (`utils`, `sdk`) | none | build and send the same instructions |

The parts interact through accounts. Every instruction is atomic: it succeeds or
leaves no trace. All cranks are permissionless, so any instruction may be sent by
anybody at any time and in any order. The stake pool's list and the state account
are two separate accounts, and several instructions (the stake pool's own update and
cleanup, the steward's additions, marks and removals) change one and not the other;
the epoch moves between any two instructions.

Four things make the system hard. First, **two lists**: the state account names
validators by their place in the stake pool's list, and a removal takes the entry
out of the list in one transaction and out of the state in another. Second, **no
schedule**: cranks come in any order, whole epochs may be missed, and users deposit
and withdraw stake between any two cranks. Third, **late and repeated data**: history
entries arrive out of order, for past epochs, and more than once. Fourth, **an
unreliable driver**: the keeper decides from accounts it fetched one by one a while ago,
over nodes that fail or lag, with transactions that are reported failed and land later,
and it is restarted without its counters.

What makes each part correct:

| Part | Correct means |
|------|---------------|
| state machine | flags, tag, bitmasks and epochs agree; no phase is skipped or run twice in an epoch; verdicts and delegations are used only in the period they were computed for; every epoch that lasts completes |
| membership | indices in the state and in the list name the same validators, apart from those marked as leaving; a removal moves nobody else's progress |
| scoring | delegations go to the best of the validators that were in the pool when scoring began, whoever joins and leaves meanwhile |
| rebalancing | the outcome does not depend on the order of the cranks; caps, ceiling and rent are respected however the pool changes |
| score formula | the number compares tier by tier; what validated parameters can score stays scorable; a validator that is given a score is not one to unstake at once; who voted is not delinquent |
| directed stake | the two records of directed stake agree; the simulated and the real adjustment agree; the cap of a cycle holds; tickets direct no more than their holders own |
| validator history | the ring is sorted, loses only its oldest entry, keeps final facts, and counts the age once per epoch |
| cluster history | an epoch's blocks are counted once and all of them |
| transactions | what is reported as executed is; nothing is left out of a clean run; the loop ends |
| keeper | every feed of an epoch is recorded under its own epoch; the steward gets the data it waits for and completes its epoch; a panic needs a failed request |
| block metadata | a final record counts every block; counts never shrink; every record becomes final |

## 2. The modules

| Module | Models | State | Actions |
|--------|--------|-------|---------|
| `StewardStateMachine` | `steward_state.rs` without amounts, all cranks, maintenance, membership, pause, reset | `state` (the account's record), `paused`, `clock`, `list` (the stake pool's list), `owners` (auxiliary: whom each index of the state stands for) | one per instruction; a crank that returns from its transition is `UncheckedTransition` |
| `DelegationCycle` | abstract: validators are chosen at the start of a cycle, scored once each, and the best are delegated to | scores and shares by vote account | 5 |
| `StewardScoring` | `compute_score`, `compute_delegations`, `remove_validator`, with scores and sorted indices | the index arrays of the state | one per instruction that changes them |
| `Rebalance` | `rebalance`, `delegation.rs`, the stake passthroughs, and of `rebalance_directed` what it does to the books both phases read | amounts, balances, totals, directed lamports, the pool's stake and reserve | one per instruction and per user's move, two for the early returns |
| `DirectedStake` | `directed_stake.rs`, `rebalance_directed.rs`, `directed_delegation.rs` | `DirectedStakeMeta` and the part of the state it is mirrored in; `astray` (history: indices at which the records may have parted) | one per instruction, two for the early returns |
| `EpochLog` | abstract: a bounded log from epochs to facts | a function | one: entries are added and facts written |
| `ValidatorHistory` | `CircBuf` and the ten instructions that write to it | `account`, the vote account, the clock | one per instruction |
| `ClusterHistory` | `copy_cluster_info` with its bit vector, `backfill_total_blocks`; extends `ValidatorHistory` | `cluster`, the slots and blocks of the cluster | one per instruction |
| `ScoreEncoding` | `encode_validator_score`, arithmetic only | - | - |
| `ValidatorScore` | `score.rs`: score and instant unstake over the accounts of the two modules above; validation and update of their parameters; the blacklist | `parameters`, `blacklisted` | one per instruction |
| `DirectedTickets` | whitelist, tickets, override authority; the keeper adding tickets up; extends `DirectedStake` | whitelist, tickets, balances, the keeper's sums | one per instruction, one per request of the keeper |
| `Submission` | abstract: a batch is handed over, what is reported as a success has taken effect | two sets | 2 |
| `Transactions` | packing and `parallel_execute_transactions` of the SDK | the loop's variables, the network, the blockhashes | one per step of the loop, and what the network does |
| `StewardCrank` | `crank_steward`: one keeper on a snapshot; extends `StewardStateMachine`, which is the chain it acts on | `pc`, the snapshot, pending transactions | one per step of the crank |
| `KeeperLoop` | `run_keeper`, its fetches and the history operations | the keeper's counters and snapshot, what is recorded | one per fetch and per operation |
| `BlockMetadata` | the SQLite table of slots and the uploads made from it | the table, the records | one per step of `update_block_metadata` |
| `MC...` | small instances of the module they name | - | - |
| `StewardStateMachineProofs`, `StewardScoringProofs`, `BlockMetadataProofs`, `RebalanceProofs` | TLAPS proofs about the module they name, the first also about `StewardCrank` | - | - |
| `DirectedStakeProofs` | TLAPS proofs about `DirectedStake` and `DirectedTickets` | - | - |
| `KeeperProofs` | TLAPS proofs about `Transactions` and `KeeperLoop` | - | - |
| `HistoryProofs` | TLAPS proofs about `ValidatorHistory`, `ClusterHistory`, `ValidatorScore` and `ScoreEncoding` | - | - |
| `WellOrder` | what several proofs need of finite sets and numbers: least elements, recursion over subsets, sums, division | - | - |

How the models follow the code:

* An instruction is one action. Solana runs it atomically, and an error undoes it, so
  every `require!` and every checked operation is a guard, and nothing is changed by
  an instruction that fails. An instruction that returns `Ok` early is an action of
  its own, because it keeps what it wrote before (`UncheckedTransition`,
  `RebalanceDirectedEnds`, `ComputeScoreForcesTransition`).
* The stake pool, the vote program, the clock and the users are outside of the
  repository. Their actions are the few the code depends on, and are marked external
  in `PROJECT.json`.
* Bitmasks are sets of indices, arrays by index are functions, lamports are small
  integers. The default balance is a value above every reachable amount.
* `StewardStateMachine` takes the results of scoring and rebalancing as free choices;
  `StewardScoring`, `Rebalance` and `DirectedStake` take the pace of the machine as
  free and fill in the values. Where one of them leaves out a part, its header says so.
* The keeper is not atomic: every request is a step, and the chain moves between any
  two. The update of the pool is three submissions, as in the code: the entries
  of the list, its deactivated accounts, and last the pool's balance with the cleanup. `StewardCrank` and `KeeperLoop` take a submission to keep the contract of
  `Submission`, which `Transactions` is shown to implement.
* A module's `TypeOK` says what its variables hold; only that of `StewardStateMachine`,
  which is proved, is part of a run.

## 3. The runs

| Run | Specification | Shows |
|-----|---------------|-------|
| `core` | `AdminSpec`, 2 validators, 2 epochs, a cycle that ends between them | `TypeOK` and `MachineInv` under every instruction including the admin's |
| `membership` | `Spec`, 3 validators, 2 epochs, instant unstaking due before scoring | `OneToOne` and `ProgressFollowsValidators` while anybody joins and leaves in any phase; `MachineInv`; `DelegationsLastTheCycle` |
| `crank` | `CrankSpec`, the keeper alone, 4 epochs, 2 validators of which one joins, closes or goes delinquent, up to two troubles together, 1 of them a failed request | the keeper completes the epoch (`KeeperCompletesEpoch`); it does not panic unless a request failed or it meets a mark that it never passes on (`PanicNeedsFault`) |
| `scoring` | `KeeperSpec`, 3 validators, scores 0 to 2, 2 delegations | the arrays implement `DelegationCycle`; `SortedDescending` |
| `directed` | `DirectedSpec`: 2 validators, 2 lamports; apart from that, 2 stakers with 2 tokens | `WithinCap`; `SimulationAgrees` and `MirrorsAgree` at every index that is not `astray`; `TicketsWithinHoldings` |
| `rebalance` | 2 validators, one of them with directed stake, 2 epochs, users or the admin move stake in between | `CapsHold`, `AllFunded`, and `CeilingHolds` up to what the directed books overstate |
| `rebalance_order` | 3 validators, every order of yields and cranks, 2 epochs | `OrderMattersOnlyToHiddenDeposits`, `NotOverAllocated` |
| `history` | `ScoredSpec`, rings of 3, up to 5 epochs, eleven mixes of writers | the ring implements `EpochLog`; `SortedByEpoch`, `AgeCountsCredits`, `GossipFresh`, `BlocksCounted`; `ScoringDefined`, `ActiveNotDelinquent`, `ScoredThenKept` of what is made of it |
| `transactions` | 1 or 2 instructions, 3 blockhashes, any requests fail | the loop implements `Submission` and ends; `CleanRunExecutedAll`, `OneLiveSignature` |
| `keeper` | 2 epochs, six sets of operations, 1 fault, drop, restart or copy by somebody else | `EveryFeedRecorded` and `StewardUnblocked` in the end; `StakeOfItsEpoch`, `ThirdRunIsLate` always |
| `block_metadata` | 3 epochs of 2 slots, 2 identities, 1 fault, a crash, an entry that comes late | `FinalIsExact`, `NoBlockWrittenOff`, `CountsNeverShrink`, `EventuallyFinal` |
| `rebalance_index` | violation | the admin's stake passthroughs change another validator's balance |

### Bounds

* Two validators are enough for one to be removed while the other is at work; three
  let a removal in the middle shift one index and leave another, which is what the
  index arrays need (`membership`, `scoring`, `rebalance_order`).
* Two epochs with `NumEpochsBetweenScoring = 1` contain the end of a cycle. `crank` has
  slot thresholds inside the epoch, so that waiting for them is part of it.
* `core` runs with one slot per epoch and thresholds at 0, so that scoring comes first.
  `membership` has two slots per epoch, scoring in the second and instant unstaking from
  the first on: nothing in the program relates the two (`parameters.rs:552`, `:584`).
  One addition at a time waits for its cycle (`MaxAdded`), which lets three validators be
  in the pool, the last of them not scored yet. The proofs are about every value of the
  thresholds. Two parts of `MachineInv`, that the
  loop has delegations and that it does not run past the end of its cycle, are stated
  under `ScoresFirst`; without it they do not hold, and the rest of `MachineInv` does.
* In `directed` a target is 0 or 1 of 2 lamports with a cap of half of the pool, computed
  at each crank, so that two targets compete for a cap that a withdrawal can lower below
  what is already unstaked, and deposits and withdrawals cross the minimum delegation.
  The run has two parts, as all of it together is too large: `"amounts"`, with 2
  lamports and a pool that stays as it is, and `"seats"`, where validators join, leave and come back
  at every point, targets, none of them zero, are uploaded in the middle, and the pool has
  at most `SeatLamports` = 1 and at most `MaxAstray` = 1 index `astray` outside a removal.
  `MaxTargets` and `MaxLamports` bound uploads and deposits. The
  product of the cap saturates at `MaxProduct`, which the run does not reach; the
  proof covers it.
* In `rebalance` stakes are small enough that a cap (50 %) allows less than what is to
  be unstaked, the ceiling (13) binds, and the reserve covers the rent of one phase but not
  every increase. One validator has 9 lamports of directed stake, if there are so many, and
  a target of 6, so directed stake is decreased, increased, withdrawn and credited to
  deposits. `Moves` holds two or three kinds of moves per behaviour: users with
  stake, users with SOL, and the admin.
* `rebalance_order` sets `StakeRent` to 0: a validator that needs no movement leaves
  its rent to those cranked later, which the code intends, and which would otherwise
  count as a difference.
* The part of `directed` about tickets has two stakers, so that balances are read one
  after the other, two places on a ticket, so that a shorter list follows a longer one,
  and room for one staker of each kind on the whitelist, so that it can be full.
* `history` explores eleven `Setups`, each a set of writers with its own bound on epochs
  and time; five of them score. `CreditHistory` stands for the 64 epochs a vote account
  remembers; a gap longer than that is noted in `missed`. Words of 2 slots in epochs of 3
  make words overlap epochs, and a slot history of 2 epochs wraps within a behaviour.
* `crank`: a pool of one, and a second validator that joins, leaves and may join again;
  transactions hold two instructions, so that one fails with its neighbour. One failed
  request may hit any step. Four epochs are needed: a mark for immediate removal that the
  change of epoch overtakes leads to a panic only two changes later. One validator never
  leaves: in a pool that everybody has left the keeper finds nothing to score, sends
  nothing, and the epoch is not completed.
* `StewardStateMachine`, `StewardScoring` and `DirectedStake` start from a pool that names
  nobody twice, which the stake pool sees to when it adds a validator.
* `Rebalance` keeps the targets of directed stake fixed, takes their two records to agree,
  and lets `rebalance_directed` move any amount toward a target that the reserve has: the
  amounts, the records and their changes are in `DirectedStake`.
* `keeper`: `ThirdRunIsLate` has two premises, each enough: all accounts exist from the
  start, or no request has failed. Without both, an account that was left out is created
  later and asks for a rerun that counts as one of the three.
  An epoch has 40 slots of which five instants around the marks of the code
  (start, half, nine tenths) are looked at. `Flags` splits the operations into groups
  that share state; operations of different groups share only the clock and the entries of
  the history. A node answers from the bank of the clock, or in the first slot of an epoch
  also from the last of the epoch before; that a vote account of that first slot last voted
  in the epoch before is what `LastVoted` says. The entries that a copy of a vote account
  inserts for past epochs are in `ValidatorHistory` and not in `KeeperLoop`, so a feed
  whose epoch the history has skipped counts as one without `Room`. That the stake is recorded once is
  said of keepers without a failed request, a restart or somebody else's copy: a transaction
  given up on may land late.
* `transactions`: three blockhashes let the first and a fresh one expire.
* `block_metadata`: a row limit of 2 with three epochs to fill; one slot is skipped, one
  identity is known from the start, and one of its entries is missing until something
  else is uploaded for that epoch: no update is sent for it before.

### Fairness

`crank` and `keeper` assume that the keeper's loop goes on (`main.rs` has no way out of
it) and that slots and epochs pass; nothing else: validators need not close, other
keepers need not help, transactions that failed need not land. `transactions` assumes
that the loop goes on and that blockhashes are produced and expire, not that anything
lands. `block_metadata` adds strong fairness of one choice: whether the schedule of an
epoch is there is decided by a slot drawn at random, so one that has no row is drawn in
the end. All of this is weaker than the fairness of `FairSpec` in `StewardStateMachine`,
where every crank is tried again and again by anybody; `StewardLive.cfg` checks with it
that the machine completes an epoch (`EpochCompletes`).

The clock of a bounded model stops at the last instant of its last epoch, and the keeper
then has unlimited time. `KeeperCompletesEpoch`, `EventuallyFinal`, `EveryFeedRecorded` and
`StewardUnblocked` therefore say that nothing keeps the keeper from what is to be done for as
long as the epoch lasts, and not that an epoch is always long enough; in the epochs before
the last the clock may move on at any step.

### Statements the code makes that do not hold

`rebalance_index` is a run and a finding in `PROJECT.json`. TLC refutes these too; the
configuration named shows the trace. Those with several properties are run with
`-continue`.

| Statement | Where | Configuration |
|-----------|-------|---------------|
| "All state machine instructions must check for pause flag before running" | `pause_steward.rs:15`; cranks try their transition first (`compute_instant_unstake.rs:46`) | `StewardPaused` (`PausedMakesNoProgress`) |
| a validator added during scoring is not considered | `steward_state.rs:709`: it can be scored and push out a pool validator | `StewardLateScore` (`AdditionsNotConsidered`) |
| "Both mirrors ... the accounting invariant" (`migrate_directed_to_algorithmic.rs:25`): the two records of directed stake agree | `steward_state.rs:561`: the directed arrays are shifted only up to `num_pool_validators` ("For state that can be valid past num_pool_validators, we still need to shift the values"); `copy_directed_stake_targets.rs:82`, `rebalance_directed.rs:250`: targets are written by list index while a removal is half done; `copy_directed_stake_targets.rs:65`: a validator that left and came back has a target and no index | `DirectedRejoined` (`AllMirrorsAgree`); run with `-continue` for the different ways |
| the list and the state stay 1-1 when the admin removes a validator by passthrough while another removal is half done | `spl_passthrough.rs:251` | `StewardPassthrough` (`OneToOne`) |
| fewer validators than `num_delegation_validators` are all selected | `steward_state.rs:1267`: with no zero score the slice goes past its end | `StewardSmallPool` (`SelectionDefined`) |
| `is_initialized` is read where it is | `directed_stake.rs:55`: a byte of the first target's vote account is read, and targets are erased when it is zero | `DirectedRejoined` with `ZeroByteVotes <- MCTwoVotes` and `TargetsCounted` |
| a directed increase is a share of the reserve | `directed_delegation.rs:147`: not for a target without stake that is rebalanced twice | `DirectedRejoined` with `MaxLamports = 3`, `SeatLamports = 3`, `Goals = {0, 1, 2}` and `IncreaseWithinReserve` |
| "Computes `total_target_lamports` as the Coinbase balance plus any existing target" | `sdk/src/utils/instructions.rs:254`: the balance alone replaces what tickets direct | `DirectedRefuted` (`CoinbaseAdds`) |
| the targets of a run direct no more than the JitoSOL there is | `sdk/src/utils/instructions.rs:139`: balances are read one by one, and a transfer in between counts twice | `DirectedRefuted` (`PlanWithinSupply`) |
| rebalancing can run in any order | `steward_state.rs:1085`: a deposit to an instantly unstaked validator that lacks stake is counted in two ways | `RebalanceHidden` (`OrderDoesNotMatter`) |
| "This ensures total undirected stake never exceeds the configured ceiling" | `rebalance.rs:163`: a withdrawal from a validator with directed stake leaves the directed total too high, and the undirected stake is taken for less than it is | `RebalanceCeiling` (`CeilingNeverExceeded`) |
| deposits are unstaked first | `delegation.rs:282`: a net amount is compared with a gross balance | `RebalanceHidden` with `StakeRent = 1` and `DepositsComeFirst` |
| the age counts every completed epoch | `upload_validator_age.rs:46`: not the epoch of a backfill | `HistoryRefuted` (`BackfillCountsCredits`) |
| the slot history "contains the last 1,048,576 slots" | `copy_cluster_info.rs:124`: words of slots skipped just before hold older bits | `HistoryRefuted` (`AlwaysCounted`) |
| "we retroactively fill credits for last 64 epochs" | `score.rs:530`: not before the first entry of a new account | `HistoryRefuted` (`RetroactivelyFilled`) |
| "Validation will throw an error if any of the parameters are invalid" | `parameters.rs:443`: a credits range of 0 is accepted, and nobody can be scored with it | `HistoryRefuted` (`AdmissibleIsScorable`) |
| the keeper's index to remove is there when it is unwrapped | `crank_steward.rs:336`: not after a failed request, nor when the epoch changes between the cleanup of the list and the instant removal, whose mark no transaction then takes away | `CrankPanics` (`KeeperNeverPanics`), also with `MaxEpoch = 3` and `MaxFaults = 0` |
| the keeper always completes the epoch | `crank_steward.rs:655`: a mark past the number of validators it reads keeps it in epoch maintenance | `CrankPanics` with `Closable <- V1AndV2`, `MayGoDelinquent <- None` and `KeeperAlwaysCompletes` |
| the same when nobody has a directed target | `helpers.rs:111`: without targets the keeper sends nothing that would end the directed phase | `CrankPanics` with `Targets <- None` and `KeeperCompletesEpoch` |
| targets are copied when "the epoch is more than 50% complete" | `keeper_state.rs:337`: the epoch of the tick and the slot of now | `KeeperRefuted` (`TargetsAreLate`) |
| "the response contains update stake amounts for the current epoch" when the last vote is of it | `stake_upload.rs:132`: in the first slot of an epoch they have its stake and no vote in it, and pass the check for the epoch before | `KeeperRefuted` with `StakeIsFresh` |
| stake that was recorded is not uploaded again | `stake_upload.rs:200`: only the latest entry is looked at, and somebody else's copy may have made one of the new epoch | `KeeperRefuted` with `StakeStaysRight` |
| `ExceededRetries` means that retries were exceeded; a transaction is signed again only when its signature is dead | `transactions.rs:630`, `transactions.rs:656` | `TransactionsExceeded` (`ExceededMeansExceeded`, `ResignedOnlyDead`) |

One more needs no run: the comment of `aggregate_validator_targets` (`helpers.rs:292`)
says that targets no ticket names any more are set to 0; the function does not do so,
and `compute_directed_stake_meta` documents that they are left as they are.

## 4. The proofs

TLAPS proves the following for every value of the constants that the named assumptions
of the modules allow: any set of vote accounts, any sizes, thresholds, caps, epochs. A
statement in bold is one that a run checks on its instance.

| Module | Theorem | Statement |
|--------|---------|-----------|
| steward | `TypeCorrect` | `AdminSpec => []`**`TypeOK`** |
| | `MachineConsistent`, `MachineConsistentWithoutAdmin` | `AdminSpec =>`, `Spec => []`**`MachineInv`** |
| | `DelegationsKept` | `Spec =>` **`DelegationsLastTheCycle`** |
| | `StateMatchesList` | `Spec => []`**`OneToOne`** |
| | `ProgressKept` | `Spec =>` **`ProgressFollowsValidators`** |
| the crank | `SpecPanicNeedsFault` | `CrankSpec => []`**`PanicNeedsFault`** |
| scoring | `ScoringKept` | `KeeperSpec => []ScoringInv` |
| | `SpecSortedDescending` | `KeeperSpec => []`**`SortedDescending`** |
| | `SpecImplementsCycle` | `KeeperSpec =>` **`ImplementsCycle`**: the refinement of `DelegationCycle` |
| rebalancing | `SpecCapsHold`, `SpecCeilingHolds` | `Spec =>` **`CapsHold`**, **`CeilingHolds`** |
| | `SpecNotOverAllocated`, `SpecAllFunded` | `Spec => []`**`NotOverAllocated`**, `[]`**`AllFunded`** |
| directed stake | `SpecWithinCap` | `Spec =>` **`WithinCap`** |
| | `SpecMirrorsAgree`, `SpecSimulationAgrees` | `Spec => []`**`MirrorsAgree`**, `[]`**`SimulationAgrees`** |
| | `SpecTicketsWithinHoldings` | `DirectedSpec => []`**`TicketsWithinHoldings`** |
| history | `HistoryKept` | `ScoredSpec => []HistoryInv` |
| | `SpecSortedByEpoch`, `SpecGossipFresh` | `ScoredSpec => []`**`SortedByEpoch`**, `[]`**`GossipFresh`** |
| | `SpecImplementsLog` | `ScoredSpec =>` **`ImplementsLog`**: the refinement of `EpochLog` |
| | `SpecScoringDefined`, `SpecScoredThenKept` | `ScoredSpec => []`**`ScoringDefined`**, `[]`**`ScoredThenKept`** |
| | `CreditsKept` | `ScoredSpec => []CreditsInv` |
| | `SpecAgeCountsCredits`, `SpecActiveNotDelinquent` | `ScoredSpec => []`**`AgeCountsCredits`**, `[]`**`ActiveNotDelinquent`** |
| | `BlocksKept`, `SpecBlocksCounted` | `ScoredSpec => []BlocksInv`, `[]`**`BlocksCounted`** |
| | `ScoresCompareByTier` | the encoded score of one validator is greater exactly when it is better tier by tier |
| transactions | `SpecOneLiveSignature` | `ExecSpec => []`**`OneLiveSignature`** |
| | `SpecCleanRunExecutedAll` | `ExecSpec => []`**`CleanRunExecutedAll`** |
| | `SpecImplementsSubmission` | `ExecSpec =>` **`ImplementsSubmission`**: the refinement of `Submission` |
| keeper | `SpecThirdRunIsLate`, `SpecStakeOfItsEpoch` | `Spec =>` **`ThirdRunIsLate`**, `[]`**`StakeOfItsEpoch`** |
| block metadata | `SpecNoBlockWrittenOff`, `SpecFinalIsExact` | `Spec => []`**`NoBlockWrittenOff`**, `[]`**`FinalIsExact`** |
| | `SpecCountsNeverShrink` | `Spec =>` **`CountsNeverShrink`** |

### Assumptions

The assumptions are the named `ASSUME`s of the modules, which TLC evaluates in every run:
sizes are natural numbers, functions are defined where they are used, the initial pool
names nobody twice and fits. Two are worth knowing:

* `HistoryAssumption`: the mark of a field that was not set is not a number. The code
  uses the greatest value of the field's type, which no upload carries.
* `EncodingAssumption`: mev commissions fit their tier.

Three statements carry a condition of their own, because without it they are not true:
`MachineInv` says of two of its parts `ScoresFirst` (above), `CeilingHolds` allows for what
the books of directed stake overstate, and the mirrors agree where they are not `astray`. No
guard reads `astray`: it is a history variable that collects where the three ways of
section 3 have struck, and the theorem says that there are no others.

### The arguments

**Steward, the machine.** `TypeOK /\ MachineInv` is inductive. Its interesting parts
alone are not: that the loop has delegations (if scoring comes first) needs to know where the flags of an old
cycle are given up (`NeverPastCycleEnd`), which needs that scoring in progress belongs to
a cycle that is not over (`ScoringInCycle`), which needs that the account does not run
ahead of the clock (`NotAheadOfClock`). An instruction builds the next record out of pure
operators (`LeaveIdle`, `ForgetCycle`, `RemoveValidator`, `StartEpoch`, ...), so the proof
says the invariant of a record and a clock (`Sound`) and has a lemma for each operator.
Instructions compose the lemmas, and `NextSound` has one case per group of instructions.

**Steward, membership.** `OneToOne` compares lengths and marks, and is not inductive. What
is (`MembershipInv`): the two sequences have no duplicates (`Distinct`), those in both
stand in the same order (`SameOrder`), exactly those that have left the list or are
leaving it are marked (`Marks`), and a mark for the end of the epoch was set in this one,
while one for immediate removal is of a validator without active stake (`Leaving`). The hard step is the instant removal, which knows only numbers: its
guard compares the lengths of the list and of the state minus the marks, and a count
shows that the mark it takes is that of a validator no longer in the list.

**The crank.** Every step of the keeper and of its world is a move of the state machine, or
a transaction of several cranks that leaves the books alone (`StepMoves`), so the chain keeps
the invariants above. What the keeper knows is `CrankInv`: a request has failed, or a mark
for immediate removal has outlived its epoch and no move takes it away again (`Stranded`),
or `Fine` holds: wherever a snapshot is taken the list is as long as the state (`Settled`),
and in between, from the update of the pool on, nothing waits for cleanup that the instant
removals would not find. The heart is that these cannot be refused (`InstantRemovalPasses`):
after the cleanup the marks for immediate removal are exactly what the list lacks, and the
entries that are not active exactly the other marks, which is what the instruction counts.
If it could be refused, a tick might end between the cleanup of the list and the removal of
its validator from the state, and the next one would panic without a fault. What else the
chain refuses is an `ENABLED` in the model, of which the proof uses nothing.

**Scoring.** The first sorted indices are a listing of the scored validators, each once and
best first (`Lists`), as many as are scored; what earlier cycles left behind them in the
array is never looked at, and that is all the invariant `ScoringInv` says of it. An
insertion lists one more (`InsertLists`). A removal closes up the place of the index, if it
is listed, and lowers the indices above it (`RemoveLists`); it renames the bits of
progress, the scores and the delegations in the same way, and because the leftovers may
name the removed index a second time, the argument needs that the first place found is
the listed one. That the listing is as long as the pool when delegations
are due is a count (`ListsCount`). For the refinement scores and shares are read by vote
account instead of by index (`Named`): a removal then takes out one name and leaves
the others what they have (`NamedWithout`), which is `Leave` of `DelegationCycle`, and the
names at the first places of the listing are a best choice (`FrontIsBest`,
`SelectedFirst`), which is its `Delegate`. Both theorems are about
`KeeperSpec`, as the run is: if anybody scores a validator that joined in the middle of the
cycle, the listing does get too long (`StewardLateScore`, section 3).

**Rebalancing.** `RebalanceInv` adds to the types that shares do not add up to more than
the whole and that, in a phase that began with enough of a reserve, the
rent of all validators still to come is there (`RentCovered`): each crank takes out at
most one rent of its own. The caps are action properties: a rebalance that adds to a
total adds at most what the cap of the step leaves. For the ceiling, the reserve
that the handler lends an increase is capped so that the pool minus the books of directed
stake stays below it. Summed over the validators, the undirected stake is at most what they
hold minus those books plus `Overstated` (`UndirectedFacts`), whatever the books say.

**Directed stake.** A decrease is at most what the cap, computed from the pool at that crank,
leaves of the total; that a total already above it adds nothing, and that a product which
saturates gives a smaller cap, is all the arithmetic. For the mirrors the proof speaks of
*seats*: the validators as the state counts them, which is the list with a half removed
validator put back. `MirrorInv`: no seat and no target twice (`Distinct`), the targets are
the first slots (`Counted`), and each seat that is not astray leads to its validator's target
with the same lamports, or has none, and every index past the seats is as set up
(`Mirrored`). A removal has four cases: an index before it, one that is shifted, the last of
the shifted, and one behind it that is not shifted although its validator moves. In the simulated adjustment both sides then
start from the same numbers.

**Tickets.** No ticket gives away more than the whole (`TicketInv`): an instruction checks
its own offer, but a ticket is padded to its slots, and what is summed is the ticket. A
staker's allocations are rounded down twice, so they do not exceed the balance
(`AllocationBelow`, `RowBelow`). The keeper adds the same amounts up by validator; a sum
by one key is the sum by the other (`SumByKey`), so the targets do not exceed
what the stakers hold.

**History.** From the ring outwards. A binary search over the ring's rotation ends at the
only place an epoch can have (`SearchPlace`: the interval halves, hence within the
iterations the model gives it). So `insert` shifts exactly the entries behind that place,
whether the ring is full or not, and the result is again a ring: filled up to its
newest entry, epochs rising (`InsertKeepsRing`). So does every setter, and
the filling of gaps (`MissingKeeps`, a fold over the missing epochs). On a ring,
`epoch_range` returns what is held at every epoch asked for (`RangeIsWhatIsHeld`). On top
of it the invariant of the accounts (`HistoryInv`): entries hold facts about their
own epochs, contact data in them is not newer than the account's stamps, the cluster's
entry of the epoch before its latest is there with its total, and windows that were
validated once stay valid as epochs rise. Scoring is then defined because every list it
folds has a value: the entry that made the vote account recent, and that cluster entry.
`ScoredThenKept` compares the windows the two functions look at.

The refinement of `EpochLog` is about what a write leaves behind (`Survives`): every entry is
still there with the facts it had, or older than all of a buffer that is full, and nothing
was put in front of the entries. The relation is transitive, so it is proved of one push,
one insert and one rewrite and holds of the whole of copy_vote_account, which does all
three. That the log then has exactly the latest epochs of those it could have is a matter of
counting: a ring has as many epochs as used places (`EpochsCount`, `LatestLeft`).

The credits need a second invariant, `CreditsInv`, that relates the account to the votes the
model remembers. It says where the history begins (`Dated`: nothing older than `since`, which
is held unless a full buffer has moved on), that a copy of the vote account in this epoch has
left the credits of all epochs the vote account remembers (`Filled`), that only epochs with
votes have credits, and that the age is the number of those from `since` to `age_epoch`
(`Aged`). None of the parts is inductive alone: the age is right because the epochs counted
now were all filled by the copy before the count, and they are held because insert finds
a place for every epoch that is not older than all of a full buffer (`InsertHolds`), which is
where the begin of the history and `CreditHistory <= MaxItems` are used. Counting epochs by
entries is right because a ring has one entry per epoch (`CountsVotes`). Two premises of
`ActiveNotDelinquent` came out of the proof: a history that a backfill of the age has cut
loose from its first entry may begin after the window, and a window longer than a vote
account's memory need not be filled by one late copy.

The blocks need `BlocksInv`. The function that counts them walks over the words of a bit
vector that is used in a circle, so a word holds bits of the present and of slots a whole
vector older. Within a window that is not longer than the vector every word belongs to one
run of slots (`SameWord`), hence the sum of the set bits of the words, of which the first and
the last are counted in part, is the number of blocks in the window (`BlocksOfRange`). The two
windows a copy counts together are the last two epochs: this is where
`MaxEntries >= 2 * SlotsPerEpoch` is used, which the constants of the code satisfy. What is
counted once stays right because the slots counted are over (`Tallied`), whatever
is produced and filled in later.

`ScoresCompareByTier`: a
tier is a product and a remainder, so a difference above it outweighs whatever is in it
(`TierStep`); every part fits its tier (`PartsFit`).

**Transactions.** `ExecutorInv`: a success that is reported has a landed signature
(`OkLanded`, all the refinement needs), and until a third signing every signature carries
the first blockhash or the current one, the first being replaced only when it is
dead or disowned (`SignedOnce`).
No errors in the report then means that every transaction has landed. That the transactions
hold every instruction (`Packed`) is a fact about the start of a call, by an induction
for each step of packing: an instruction is pushed to the group of its size
(`GroupHolds`), the chunks of a group cover it, the last and shorter one too
(`ChunksHold`), the order in which the map yields its groups leaves none out
(`OrderHolds`), and flattening keeps all (`FlattenHolds`).

**Keeper.** One counted run of this epoch has copied every account in it, so a rerun
asked for later is one of the last tenth (`RunInv`). The argument needs that the
snapshot names all accounts, for which each premise of `ThirdRunIsLate` has its own
invariant (`KnownInv`, `FaultFreeInv`). Where stake is from follows from the comparison of
the last vote with the epoch of the tick, which only a bank of that epoch or of the first
slot of the next can pass. That it is recorded once needs what an undisturbed keeper knows
(`KeeperKnows`): nothing is recorded for an epoch later than the one it works in, so the latest entry it fetched
is the one its answer would go to, and stake of the epoch is in its snapshot or has just been
recorded from the same bank.

**Block metadata.** Whatever fails, what a record counts is in the table and will
be counted again (`TableInv`), hence counts only grow. Without faults an epoch is inserted
as a whole and filled in order, so nothing is missing when it is final (`CleanInv`).

**WellOrder.** The library's induction rules take an operator, which the provers
cannot instantiate. Its statement that strict inclusion on finite sets is well-founded
does not; from it the module derives least elements, that functions defined by recursion
over subsets exist and obey their equation, and what sums over finite sets do.

### Only model-checked

* Liveness and what needs `ENABLED`: `KeeperCompletesEpoch`, `EpochCompletes`,
  `EveryFeedRecorded`, `StewardUnblocked`, `EventuallyFinal`, the end of the loop
  of `Transactions`. The prover has neither.
* `OrderMattersOnlyToHiddenDeposits`: compares two executions of a phase.

## 5. What is not modelled

* Authorities: except for the ticket override, an instruction that needs an authority is
  sent by it. Changing a key is one assignment behind a signature.
* The parameters of the state machine and of delegation change only between behaviours:
  they are constants of `StewardStateMachine`, `StewardScoring` and `Rebalance`.
* Account layout: growing, migrating and closing accounts, serialisation, gossip
  parsing and signatures.
* Arithmetic overflow of lamports: amounts are below 2^64 by the supply of SOL.
* Two keepers of the same operator at once: `StewardCrank` has one keeper, and others act
  only where a module says so (`OthersCopy`, the permissionless cranks).
* Command line tools and metrics: they send the same instructions, or none.

## 6. Plan

Done: `StewardStateMachine`, `StewardScoring` over `DelegationCycle`, `Rebalance`,
`DirectedStake` with `DirectedTickets`, `ValidatorHistory` over `EpochLog` with
`ClusterHistory` and `ValidatorScore`, `ScoreEncoding`, `Transactions` over `Submission`,
`StewardCrank` over `StewardStateMachine`, `KeeperLoop`, `BlockMetadata`; proofs about all
of them.

Next:

1. In `Rebalance`, uploads of targets and records of directed stake that have parted, for
   the checked subtraction of directed lamports from the pool (`steward_state.rs:1060`).
2. A liveness property of directed unstaking, for a total that a missed epoch carries
   into the next cycle (`epoch_maintenance.rs:115`).
