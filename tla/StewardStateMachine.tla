------------------------- MODULE StewardStateMachine -------------------------
(***************************************************************************)
(* The steward program's state machine: the StewardState account           *)
(* (state_tag, status_flags, bitmasks, pool bookkeeping), the instructions *)
(* that crank it, the instructions that add and remove validators, and the *)
(* admin instructions, against a Solana clock that moves on its own and    *)
(* the SPL stake pool's validator list.                                    *)
(*                                                                         *)
(* Every instruction is atomic (a failing Solana transaction leaves no     *)
(* trace), so an instruction that returns an error is no step at all; what *)
(* interleaves is whole instructions, sent by anybody in any order, with   *)
(* the clock and with the stake pool's own instructions.                   *)
(*                                                                         *)
(* Abstractions:                                                           *)
(*  - scores, delegations and lamports are left out; they do not influence *)
(*    which state the machine goes to (see StewardScoring, Rebalance);     *)
(*  - the result of the instant-unstake checks and "every directed target  *)
(*    is rebalanced" are inputs;                                           *)
(*  - an epoch is SlotsPerEpoch slots and an epoch progress in [0,1] is a  *)
(*    slot index;                                                          *)
(*  - a stale validator or cluster history makes an instruction fail, so   *)
(*    it only delays a crank.                                              *)
(***************************************************************************)
EXTENDS Integers, Sequences, FiniteSets

CONSTANTS
  Votes,                    \* vote accounts that can be in the pool
  Closable,                 \* the ones whose owner may close them
  MaxValidators,            \* MAX_VALIDATORS
  MaxAdded,                 \* u16::MAX, the limit of validators_added
  InitialPool,              \* the validator list when the steward is set up
  SlotsPerEpoch,            \* epoch_schedule.slots_per_epoch
  ComputeScoreProgress,     \* compute_score_epoch_progress, as a slot index
  InstantUnstakeProgress,   \* instant_unstake_epoch_progress, as a slot index
  ComputeScoreSlotRange,    \* compute_score_slot_range
  NumEpochsBetweenScoring,  \* num_epochs_between_scoring
  MaxEpoch                  \* bound on the clock

\* Parameters::get_valid_updated_parameters keeps each parameter in its range.
ASSUME ParametersAssumption ==
  /\ MaxValidators \in Nat \ {0}
  /\ MaxAdded \in Nat
  /\ Closable \subseteq Votes
  /\ InitialPool \in Seq(Votes)
  /\ Len(InitialPool) <= MaxValidators
  /\ \A k, m \in 1 .. Len(InitialPool) : InitialPool[k] = InitialPool[m] => k = m
  /\ SlotsPerEpoch \in Nat \ {0}
  /\ ComputeScoreProgress \in Nat
  /\ InstantUnstakeProgress \in Nat
  /\ InstantUnstakeProgress < SlotsPerEpoch
  /\ ComputeScoreSlotRange \in Nat
  /\ NumEpochsBetweenScoring \in Nat \ {0}
  /\ MaxEpoch \in Nat

\* Nothing relates the two thresholds.  Where scoring comes first, an epoch that
\* has no delegations scores before it looks for instant unstakes.
ScoresFirst == ComputeScoreProgress <= InstantUnstakeProgress

VARIABLES
  state,              \* the StewardState account
  paused,             \* config.paused
  clock,              \* the Clock sysvar: epoch, absolute slot, slot in epoch
  list,               \* the stake pool's validator list
  last_update_epoch,  \* stake_pool.last_update_epoch
  closed,             \* vote accounts that have been closed
  owners              \* auxiliary: the vote account each index of state is for

vars == <<state, paused, clock, list, last_update_epoch, closed, owners>>
-----------------------------------------------------------------------------
(* Types *)

Tags == {"ComputeScores", "ComputeDelegations", "Idle",
         "ComputeInstantUnstake", "Rebalance", "RebalanceDirected"}

Flags == {"COMPUTE_SCORE", "COMPUTE_DELEGATIONS", "EPOCH_MAINTENANCE",
          "PRE_LOOP_IDLE", "COMPUTE_INSTANT_UNSTAKES", "REBALANCE",
          "POST_LOOP_IDLE", "REBALANCE_DIRECTED_COMPLETE", "RESET_TO_IDLE"}

\* Positions in the validator list and in the state's arrays and bitmasks.
Indices == 0 .. MaxValidators - 1

\* A bitmask is the set of its indices that are 1.
StewardState ==
  [state_tag                        : Tags,
   status_flags                     : SUBSET Flags,
   progress                         : SUBSET Indices,
   instant_unstake                  : SUBSET Indices,
   validators_to_remove             : SUBSET Indices,
   validators_for_immediate_removal : SUBSET Indices,
   num_pool_validators              : Nat,
   validators_added                 : Nat,
   current_epoch                    : Nat,
   next_cycle_epoch                 : Nat,
   start_computing_scores_slot      : Nat]

\* Deactivating: DeactivatingAll, or DeactivatingValidator whose stake is still
\* cooling down.  Inactive: DeactivatingValidator whose stake is inactive.
StakeStatus == {"Active", "Deactivating", "Inactive", "ReadyForRemoval"}

ValidatorStakeInfo == [vote : Votes, status : StakeStatus]

Clock == [epoch : Nat, slot : Nat, index : Nat]
-----------------------------------------------------------------------------
(* Transitions: StewardStateV2::transition and what it calls *)

\* BitMask::is_complete looks at the first n bits only.
IsComplete(bits, n) == \A i \in Indices : i < n => i \in bits

TransitionComputeScores(s) ==
  IF IsComplete(s.progress, s.num_pool_validators)
  THEN [s EXCEPT !.state_tag = "ComputeDelegations",
                 !.progress = {},
                 !.status_flags = @ \cup {"COMPUTE_SCORE"}]
  ELSE s

TransitionComputeDelegations(s) ==
  IF "COMPUTE_DELEGATIONS" \in s.status_flags
  THEN [s EXCEPT !.state_tag = "Idle"]
  ELSE s

\* Mutant: the cycle is only forgotten one epoch late.
ForgetCycleLate(s, c) ==
  IF c.epoch > s.next_cycle_epoch
  THEN [s EXCEPT !.status_flags = @ \ {"COMPUTE_SCORE", "COMPUTE_DELEGATIONS"},
                 !.instant_unstake = {},
                 !.progress = {}]
  ELSE s

\* At the end of a cycle Idle first forgets the cycle's scores and delegations.
ForgetCycle(s, c) ==
  IF c.epoch >= s.next_cycle_epoch
  THEN [s EXCEPT !.status_flags = @ \ {"COMPUTE_SCORE", "COMPUTE_DELEGATIONS"},
                 !.instant_unstake = {},
                 !.progress = {}]
  ELSE s

LeaveIdle(s, c) ==
  IF /\ "REBALANCE_DIRECTED_COMPLETE" \in s.status_flags
     /\ "COMPUTE_DELEGATIONS" \notin s.status_flags
     /\ c.index >= ComputeScoreProgress
  THEN [s EXCEPT !.state_tag = "ComputeScores",
                 !.progress = {},
                 !.instant_unstake = {}]
  ELSE IF "REBALANCE" \in s.status_flags
  THEN [s EXCEPT !.status_flags = @ \cup {"POST_LOOP_IDLE"}]
  ELSE IF c.index >= InstantUnstakeProgress
  THEN [s EXCEPT !.status_flags = (@ \ {"RESET_TO_IDLE"}) \cup {"PRE_LOOP_IDLE"},
                 !.state_tag = "ComputeInstantUnstake",
                 !.instant_unstake = {},
                 !.progress = {}]
  ELSE [s EXCEPT !.status_flags = (@ \ {"RESET_TO_IDLE"}) \cup {"PRE_LOOP_IDLE"}]

TransitionIdle(s, c) == LeaveIdle(ForgetCycle(s, c), c)

TransitionComputeInstantUnstake(s) ==
  IF IsComplete(s.progress, s.num_pool_validators)
  THEN [s EXCEPT !.state_tag = "Rebalance",
                 !.progress = {},
                 !.status_flags = @ \cup {"COMPUTE_INSTANT_UNSTAKES"}]
  ELSE s

TransitionRebalance(s) ==
  IF "RESET_TO_IDLE" \in s.status_flags
  THEN [s EXCEPT !.state_tag = "Idle", !.progress = {}]
  ELSE IF IsComplete(s.progress, s.num_pool_validators)
  THEN [s EXCEPT !.state_tag = "Idle",
                 !.status_flags = @ \cup {"REBALANCE"}]
  ELSE s

TransitionRebalanceDirected(s, c) ==
  IF \/ "REBALANCE_DIRECTED_COMPLETE" \in s.status_flags
     \/ c.index >= ComputeScoreProgress
  THEN [s EXCEPT !.state_tag = "Idle",
                 !.status_flags = @ \cup {"REBALANCE_DIRECTED_COMPLETE"}]
  ELSE s

Transition(s, c) ==
  CASE s.state_tag = "ComputeScores"         -> TransitionComputeScores(s)
    [] s.state_tag = "ComputeDelegations"    -> TransitionComputeDelegations(s)
    [] s.state_tag = "Idle"                  -> TransitionIdle(s, c)
    [] s.state_tag = "ComputeInstantUnstake" -> TransitionComputeInstantUnstake(s)
    [] s.state_tag = "Rebalance"             -> TransitionRebalance(s)
    [] s.state_tag = "RebalanceDirected"     -> TransitionRebalanceDirected(s, c)

\* maybe_transition reports whether the tag has changed.
Transitions(s, c) == Transition(s, c).state_tag # s.state_tag
-----------------------------------------------------------------------------
(* Pure parts of the instructions *)

ResetStateForNewCycle(s, c) ==
  [s EXCEPT !.progress = {},
            !.next_cycle_epoch = c.epoch + NumEpochsBetweenScoring,
            !.start_computing_scores_slot = c.slot,
            !.instant_unstake = {},
            !.status_flags =
                @ \cap {"EPOCH_MAINTENANCE", "REBALANCE_DIRECTED_COMPLETE"}]

StateLength(s) == s.num_pool_validators + s.validators_added

MarkedForRemoval(s) ==
  s.validators_to_remove \cup s.validators_for_immediate_removal

\* The loop "for i in index..n { set(i, get(i + 1)) }" followed by set(n, 0).
ShiftBits(bits, index, n) ==
  {i \in Indices : /\ i # n
                   /\ IF index <= i /\ i < n THEN i + 1 \in bits
                                            ELSE i \in bits}

\* Mutant: every removal is counted against validators_added.
RemoveAsAdded(s, index) ==
  [s EXCEPT !.validators_added = @ - 1,
            !.validators_to_remove = ShiftBits(@, index, StateLength(s) - 1),
            !.validators_for_immediate_removal =
               ShiftBits(@, index, StateLength(s) - 1)]

\* Mutant: the marks are shifted like the per-pool bitmasks.
RemoveShiftingToPool(s, index) ==
  LET inPool == index < s.num_pool_validators
      num    == IF inPool THEN s.num_pool_validators - 1
                          ELSE s.num_pool_validators
      added  == IF inPool THEN s.validators_added ELSE s.validators_added - 1
  IN  [s EXCEPT
        !.num_pool_validators = num,
        !.validators_added = added,
        !.instant_unstake = ShiftBits(@, index, num),
        !.progress = ShiftBits(@, index, num),
        !.validators_to_remove = ShiftBits(@, index, num),
        !.validators_for_immediate_removal = ShiftBits(@, index, num)]

\* Mutant: progress is left where it is.
RemoveKeepingProgress(s, index) ==
  LET inPool == index < s.num_pool_validators
      num    == IF inPool THEN s.num_pool_validators - 1
                          ELSE s.num_pool_validators
      added  == IF inPool THEN s.validators_added ELSE s.validators_added - 1
  IN  [s EXCEPT
        !.num_pool_validators = num,
        !.validators_added = added,
        !.instant_unstake = ShiftBits(@, index, num),
        !.validators_to_remove = ShiftBits(@, index, num + added),
        !.validators_for_immediate_removal = ShiftBits(@, index, num + added)]

RemoveValidator(s, index) ==
  LET inPool == index < s.num_pool_validators
      num    == IF inPool THEN s.num_pool_validators - 1
                          ELSE s.num_pool_validators
      added  == IF inPool THEN s.validators_added ELSE s.validators_added - 1
  IN  [s EXCEPT
        !.num_pool_validators = num,
        !.validators_added = added,
        !.instant_unstake = ShiftBits(@, index, num),
        !.progress = ShiftBits(@, index, num),
        !.validators_to_remove = ShiftBits(@, index, num + added),
        !.validators_for_immediate_removal = ShiftBits(@, index, num + added)]

\* The two require!s of remove_validator.
CanRemoveValidator(s, index) ==
  /\ index \in MarkedForRemoval(s)
  /\ index < StateLength(s)

RemoveIndex(seq, index) ==
  [k \in 1 .. Len(seq) - 1 |-> IF k <= index THEN seq[k] ELSE seq[k + 1]]
-----------------------------------------------------------------------------
(* Checks shared by the instructions *)

\* remove_validator_check
RemoveValidatorCheck ==
  /\ ~paused
  /\ clock.epoch = state.current_epoch
  /\ StateLength(state) = Len(list)

\* add_validator_check, and state_checks without its expected state
StateChecks ==
  /\ RemoveValidatorCheck
  /\ state.validators_for_immediate_removal = {}
-----------------------------------------------------------------------------
(* Cranks *)

PoolUnchanged == UNCHANGED <<paused, clock, list, last_update_epoch, closed, owners>>

\* compute_score may be sent in any state: it first forces a transition.
ComputeScoreForcesTransition ==
  /\ StateChecks
  /\ Len(list) > 0
  /\ state.state_tag # "ComputeScores"
  /\ Transitions(state, clock)
  /\ state' = Transition(state, clock)
  /\ PoolUnchanged

\* Scoring starts over when nothing is scored yet and when it took too long.
StartOfScoring(s, c) ==
  IF \/ s.progress = {}
     \/ c.epoch > s.current_epoch
     \/ c.slot - s.start_computing_scores_slot > ComputeScoreSlotRange
  THEN [ResetStateForNewCycle(s, c) EXCEPT
          !.num_pool_validators = Len(list), !.validators_added = 0]
  ELSE s

ComputeScore(i) ==
  /\ StateChecks
  /\ i < Len(list)
  /\ state.state_tag = "ComputeScores"
  /\ state' = LET s == StartOfScoring(state, clock)
              IN  Transition([s EXCEPT !.progress = @ \cup {i}], clock)
  /\ PoolUnchanged

ComputeDelegations ==
  /\ StateChecks
  /\ state.state_tag = "ComputeDelegations"
  /\ clock.epoch < state.next_cycle_epoch
  /\ state' = Transition([state EXCEPT
                            !.status_flags = @ \cup {"COMPUTE_DELEGATIONS"}], clock)
  /\ PoolUnchanged

Idle ==
  /\ StateChecks
  /\ state.state_tag = "Idle"
  /\ state' = Transition(state, clock)
  /\ PoolUnchanged

\* compute_instant_unstake and rebalance transition before any check.
UncheckedTransition ==
  /\ Transitions(state, clock)
  /\ state' = Transition(state, clock)
  /\ PoolUnchanged

\* A validator that is done or leaving keeps its instant_unstake bit.
ComputeInstantUnstake(i, unstake) ==
  /\ ~Transitions(state, clock)
  /\ StateChecks
  /\ state.state_tag = "ComputeInstantUnstake"
  /\ i < Len(list)
  /\ clock.epoch < state.next_cycle_epoch
  /\ clock.index >= InstantUnstakeProgress
  /\ state' =
       IF i \in state.progress THEN state
       ELSE Transition(
              [state EXCEPT
                 !.instant_unstake =
                    IF i \in MarkedForRemoval(state) THEN @
                    ELSE IF unstake THEN @ \cup {i} ELSE @ \ {i},
                 !.progress = @ \cup {i}], clock)
  /\ PoolUnchanged

\* What rebalance demands before it looks at any amount: a validator whose vote
\* account is closed has to be marked for removal first.
CanRebalance(i) ==
  /\ ~Transitions(state, clock)
  /\ StateChecks
  /\ state.state_tag = "Rebalance"
  /\ i < Len(list)
  /\ list[i + 1].vote \in closed => i \in state.validators_to_remove

Rebalance(i) ==
  /\ CanRebalance(i)
  /\ clock.epoch < state.next_cycle_epoch
  /\ state' = Transition([state EXCEPT !.progress = @ \cup {i}], clock)
  /\ PoolUnchanged

\* Stake already in flight: the validator counts as rebalanced, and the
\* instruction returns before its closing transition.
RebalanceTransient(i) ==
  /\ CanRebalance(i)
  /\ state' = [state EXCEPT !.progress = @ \cup {i}]
  /\ PoolUnchanged

SetDirectedComplete(s, all) ==
  IF all THEN [s EXCEPT !.status_flags = @ \cup {"REBALANCE_DIRECTED_COMPLETE"}]
  ELSE s

\* rebalance_directed for a target that is not in the validator list: no check
\* of the pause flag, the tag or the epoch.
RebalanceDirectedMissing(all) ==
  /\ state' = Transition(SetDirectedComplete(state, all), clock)
  /\ PoolUnchanged

\* rebalance_directed for a target in the list.  before and after say whether
\* all targets are rebalanced when the instruction starts and when it ends.
RebalanceDirected(before, after) ==
  /\ state.state_tag = "RebalanceDirected"
  /\ Len(list) > 0
  /\ LET s == SetDirectedComplete(state, before)
     IN  \/ /\ Transitions(s, clock)
            /\ state' = Transition(s, clock)
         \/ /\ ~Transitions(s, clock)
            /\ StateChecks
            /\ state' = Transition(SetDirectedComplete(s, after), clock)
  /\ PoolUnchanged
-----------------------------------------------------------------------------
(* Epoch maintenance and the removal of validators *)

AllActive == \A k \in 1 .. Len(list) : list[k].status = "Active"

\* Mutant: instant_unstake survives into the next epoch.
StartEpochKeepingUnstake(s, c) ==
  [s EXCEPT !.current_epoch = c.epoch,
            !.status_flags =
               (@ \ {"PRE_LOOP_IDLE", "COMPUTE_INSTANT_UNSTAKES", "REBALANCE",
                     "POST_LOOP_IDLE", "REBALANCE_DIRECTED_COMPLETE"})
               \cup {"EPOCH_MAINTENANCE"},
            !.progress = {},
            !.state_tag = "RebalanceDirected"]

\* Mutant: every epoch forgets the delegations.
StartEpochForgettingDelegations(s, c) ==
  [s EXCEPT !.current_epoch = c.epoch,
            !.status_flags = {"EPOCH_MAINTENANCE"},
            !.progress = {},
            !.instant_unstake = {},
            !.state_tag = "RebalanceDirected"]

StartEpoch(s, c) ==
  [s EXCEPT !.current_epoch = c.epoch,
            !.status_flags =
               (@ \ {"PRE_LOOP_IDLE", "COMPUTE_INSTANT_UNSTAKES", "REBALANCE",
                     "POST_LOOP_IDLE", "REBALANCE_DIRECTED_COMPLETE"})
               \cup {"EPOCH_MAINTENANCE"},
            !.progress = {},
            !.instant_unstake = {},
            !.state_tag = "RebalanceDirected"]

EpochMaintenanceCheck ==
  /\ clock.epoch = last_update_epoch
  /\ state.current_epoch < clock.epoch
  /\ AllActive
  /\ StateLength(state) - Cardinality(state.validators_to_remove)
       - Cardinality(state.validators_for_immediate_removal) = Len(list)

\* The closing part of the instruction: the epoch starts once no mark is left.
EndMaintenance(s) ==
  IF MarkedForRemoval(s) = {} THEN StartEpoch(s, clock) ELSE s

ClearMaintenance(s) == [s EXCEPT !.status_flags = @ \ {"EPOCH_MAINTENANCE"}]

EpochMaintenance ==
  /\ EpochMaintenanceCheck
  /\ state' = EndMaintenance(ClearMaintenance(state))
  /\ PoolUnchanged

EpochMaintenanceRemove(i) ==
  /\ EpochMaintenanceCheck
  /\ CanRemoveValidator(state, i)
  /\ state' = EndMaintenance(RemoveValidator(ClearMaintenance(state), i))
  /\ owners' = RemoveIndex(owners, i)
  /\ UNCHANGED <<paused, clock, list, last_update_epoch, closed>>

InstantRemovalCheck(i) ==
  /\ state.current_epoch = clock.epoch
  /\ clock.epoch = last_update_epoch
  /\ i \in state.validators_for_immediate_removal
  /\ Cardinality({k \in 1 .. Len(list) : list[k].status # "Active"})
       = Cardinality(state.validators_to_remove)
  /\ \A k \in 1 .. Len(list) : list[k].status # "ReadyForRemoval"
  /\ StateLength(state) - Cardinality(state.validators_for_immediate_removal)
       = Len(list)
  /\ CanRemoveValidator(state, i)

InstantRemoveValidator(i) ==
  /\ InstantRemovalCheck(i)
  /\ state' = RemoveValidator(state, i)
  /\ owners' = RemoveIndex(owners, i)
  /\ UNCHANGED <<paused, clock, list, last_update_epoch, closed>>
-----------------------------------------------------------------------------
(* Adding validators and marking them for removal *)

\* add_validator_to_pool of the stake pool, with the steward's own counter.
AddToPool(v) ==
  /\ Len(list) + 1 <= MaxValidators
  /\ state.validators_added < MaxAdded
  /\ \A k \in 1 .. Len(list) : list[k].vote # v
  /\ v \notin closed
  /\ state' = [state EXCEPT !.validators_added = @ + 1]
  /\ list' = Append(list, [vote |-> v, status |-> "Active"])
  /\ owners' = Append(owners, v)
  /\ UNCHANGED <<paused, clock, last_update_epoch, closed>>

\* remove_validator_from_pool of the stake pool, then the mark the new stake
\* status calls for.
RemoveFromPool(i, immediate) ==
  /\ i < Len(list)
  /\ list[i + 1].status = "Active"
  /\ list' = [list EXCEPT ![i + 1].status =
                            IF immediate THEN "Inactive" ELSE "Deactivating"]
  /\ state' = IF immediate
              THEN [state EXCEPT !.validators_for_immediate_removal = @ \cup {i}]
              ELSE [state EXCEPT !.validators_to_remove = @ \cup {i}]
  /\ UNCHANGED <<paused, clock, last_update_epoch, closed, owners>>

AutoAddValidatorToPool(v) ==
  /\ StateChecks
  /\ AddToPool(v)

\* The validator's vote account is closed, or its stake has been deactivated
\* as delinquent; the latter is an input, and only then may its stake already
\* be inactive.
AutoRemoveValidatorFromPool(i, deactivated, immediate) ==
  /\ RemoveValidatorCheck
  /\ i < Len(list)
  /\ deactivated \/ list[i + 1].vote \in closed
  /\ immediate => deactivated
  /\ RemoveFromPool(i, immediate)
-----------------------------------------------------------------------------
(* Admin instructions *)

AddValidatorToPool(v) ==
  /\ clock.epoch = state.current_epoch
  /\ AddToPool(v)

\* The index is compared with the stake account the admin passes only below
\* num_pool_validators; the admin is taken to pass the account of the entry.
RemoveValidatorFromPool(i, immediate) ==
  /\ clock.epoch = state.current_epoch
  /\ RemoveFromPool(i, immediate)

PauseSteward ==
  /\ ~paused
  /\ paused' = TRUE
  /\ UNCHANGED <<state, clock, list, last_update_epoch, closed, owners>>

ResumeSteward ==
  /\ paused
  /\ paused' = FALSE
  /\ UNCHANGED <<state, clock, list, last_update_epoch, closed, owners>>

AdminMarkForRemoval(i, mark, immediate) ==
  /\ state' =
       IF immediate
       THEN [state EXCEPT !.validators_for_immediate_removal =
                             IF mark THEN @ \cup {i} ELSE @ \ {i}]
       ELSE [state EXCEPT !.validators_to_remove =
                             IF mark THEN @ \cup {i} ELSE @ \ {i}]
  /\ PoolUnchanged

FreshState(c, n) ==
  [state_tag |-> "RebalanceDirected", status_flags |-> {},
   progress |-> {}, instant_unstake |-> {},
   validators_to_remove |-> {}, validators_for_immediate_removal |-> {},
   num_pool_validators |-> n, validators_added |-> 0,
   current_epoch |-> c.epoch,
   next_cycle_epoch |-> c.epoch + NumEpochsBetweenScoring,
   start_computing_scores_slot |-> c.slot]

ResetStewardState ==
  /\ state' = FreshState(clock, Len(list))
  /\ owners' = [k \in 1 .. Len(list) |-> list[k].vote]
  /\ UNCHANGED <<paused, clock, list, last_update_epoch, closed>>
-----------------------------------------------------------------------------
(* The environment: the clock, the stake pool, the validators *)

NextSlot ==
  /\ clock.index + 1 < SlotsPerEpoch
  /\ clock' = [epoch |-> clock.epoch, slot |-> clock.slot + 1,
               index |-> clock.index + 1]
  /\ UNCHANGED <<state, paused, list, last_update_epoch, closed, owners>>

\* Deactivating stake is inactive in the next epoch.
NextEpoch ==
  /\ clock.index + 1 = SlotsPerEpoch
  /\ clock.epoch < MaxEpoch
  /\ clock' = [epoch |-> clock.epoch + 1, slot |-> clock.slot + 1, index |-> 0]
  /\ list' = [k \in 1 .. Len(list) |->
                IF list[k].status = "Deactivating"
                THEN [list[k] EXCEPT !.status = "Inactive"] ELSE list[k]]
  /\ UNCHANGED <<state, paused, last_update_epoch, closed, owners>>

\* update_validator_list_balance and update_stake_pool_balance: stake accounts
\* that have become inactive are merged into the reserve.
UpdateStakePool ==
  /\ list' = [k \in 1 .. Len(list) |->
                IF list[k].status = "Inactive"
                THEN [list[k] EXCEPT !.status = "ReadyForRemoval"] ELSE list[k]]
  /\ last_update_epoch' = clock.epoch
  /\ UNCHANGED <<state, paused, clock, closed, owners>>

\* cleanup_removed_validator_entries: the entries that are kept close ranks, in
\* the order they had; the one at n was at from[n].
CleanupRemovedValidatorEntries ==
  LET kept  == {k \in 1 .. Len(list) : list[k].status # "ReadyForRemoval"}
      ranks == 1 .. Cardinality(kept)
  IN  /\ kept # 1 .. Len(list)
      /\ \E from \in [ranks -> kept] :
           /\ \A m, n \in ranks : m < n => from[m] < from[n]
           /\ \A k \in kept : \E n \in ranks : from[n] = k
           /\ list' = [n \in ranks |-> list[from[n]]]
      /\ UNCHANGED <<state, paused, clock, last_update_epoch, closed, owners>>

CloseVoteAccount(v) ==
  /\ v \notin closed
  /\ closed' = closed \cup {v}
  /\ UNCHANGED <<state, paused, clock, list, last_update_epoch, owners>>
-----------------------------------------------------------------------------
(* The specification *)

Init ==
  /\ clock = [epoch |-> 0, slot |-> 0, index |-> 0]
  /\ list = [k \in 1 .. Len(InitialPool) |->
               [vote |-> InitialPool[k], status |-> "Active"]]
  /\ owners = InitialPool
  /\ state = FreshState(clock, Len(InitialPool))
  /\ paused = FALSE
  /\ last_update_epoch = 0
  /\ closed = {}

Crank ==
  \/ ComputeScoreForcesTransition
  \/ \E i \in Indices : ComputeScore(i)
  \/ ComputeDelegations
  \/ Idle
  \/ UncheckedTransition
  \/ \E i \in Indices, unstake \in BOOLEAN : ComputeInstantUnstake(i, unstake)
  \/ \E i \in Indices : Rebalance(i)
  \/ \E i \in Indices : RebalanceTransient(i)
  \/ \E all \in BOOLEAN : RebalanceDirectedMissing(all)
  \/ \E before, after \in BOOLEAN : RebalanceDirected(before, after)

Maintenance ==
  \/ EpochMaintenance
  \/ \E i \in Indices : EpochMaintenanceRemove(i)
  \/ \E i \in Indices : InstantRemoveValidator(i)

Membership ==
  \/ \E v \in Votes : AutoAddValidatorToPool(v)
  \/ \E i \in Indices, deactivated, immediate \in BOOLEAN :
        AutoRemoveValidatorFromPool(i, deactivated, immediate)

Environment ==
  \/ NextSlot
  \/ NextEpoch
  \/ UpdateStakePool
  \/ CleanupRemovedValidatorEntries
  \/ \E v \in Closable : CloseVoteAccount(v)

Pausing == PauseSteward \/ ResumeSteward

\* Everything but the admin's own changes to the pool and to the state.
Next == Crank \/ Maintenance \/ Membership \/ Environment \/ Pausing

Spec == Init /\ [][Next]_vars

\* The admin instructions that reach past the steward's bookkeeping.
Admin ==
  \/ \E v \in Votes : AddValidatorToPool(v)
  \/ \E i \in Indices, immediate \in BOOLEAN : RemoveValidatorFromPool(i, immediate)
  \/ \E i \in Indices, mark, immediate \in BOOLEAN :
        AdminMarkForRemoval(i, mark, immediate)
  \/ ResetStewardState

AdminNext == Next \/ Admin

AdminSpec == Init /\ [][AdminNext]_vars
\* The admin's passthrough of remove_validator_from_pool on top of Next.
PassthroughNext ==
  \/ Next
  \/ \E i \in Indices, immediate \in BOOLEAN : RemoveValidatorFromPool(i, immediate)

PassthroughSpec == Init /\ [][PassthroughNext]_vars

\* Cranking is permissionless, and keepers send every instruction again and
\* again: an instruction that stays possible is eventually sent.  For liveness
\* the machine is not paused and validators leave only by closing their vote
\* account, so that the pool cannot change forever.
LiveNext ==
  \/ Crank
  \/ Maintenance
  \/ \E v \in Votes : AutoAddValidatorToPool(v)
  \/ \E i \in Indices, deactivated, immediate \in BOOLEAN :
        /\ i < Len(list)
        /\ list[i + 1].vote \in closed
        /\ AutoRemoveValidatorFromPool(i, deactivated, immediate)
  \/ Environment

Fairness ==
  /\ WF_vars(NextSlot) /\ WF_vars(NextEpoch)
  /\ WF_vars(UpdateStakePool) /\ WF_vars(CleanupRemovedValidatorEntries)
  /\ WF_vars(EpochMaintenance)
  /\ WF_vars(ComputeDelegations) /\ WF_vars(Idle)
  /\ WF_vars(UncheckedTransition)
  /\ WF_vars(\E all \in BOOLEAN : RebalanceDirected(all, all))
  /\ \A i \in Indices :
       /\ WF_vars(EpochMaintenanceRemove(i))
       /\ WF_vars(InstantRemoveValidator(i))
       /\ WF_vars(ComputeScore(i))
       /\ WF_vars(\E unstake \in BOOLEAN : ComputeInstantUnstake(i, unstake))
       /\ WF_vars(Rebalance(i) \/ RebalanceTransient(i))
       /\ WF_vars(/\ i < Len(list)
                  /\ list[i + 1].vote \in closed
                  /\ AutoRemoveValidatorFromPool(i, FALSE, FALSE))

FairSpec == Init /\ [][LiveNext]_vars /\ Fairness
-----------------------------------------------------------------------------
(* Type invariant *)

\* Every field of the state account, of the clock and of the pool has its type.
TypeOK ==
  /\ state \in StewardState
  /\ paused \in BOOLEAN
  /\ clock \in Clock
  /\ list \in Seq(ValidatorStakeInfo)
  /\ last_update_epoch \in Nat
  /\ closed \in SUBSET Votes
  /\ owners \in Seq(Votes)
-----------------------------------------------------------------------------
(* Safety *)

\* Undirected work is only reached through the directed phase of the epoch,
\* completed or timed out: no tag but RebalanceDirected without its flag.  A
\* machine in Idle without the flag would never score again.
DirectedFirst ==
  state.state_tag # "RebalanceDirected"
    => "REBALANCE_DIRECTED_COMPLETE" \in state.status_flags

\* The instant-unstake and rebalance phases work on delegations computed from
\* completed scores where scoring comes first in the epoch, and delegations are
\* only computed once per scoring.
DelegationsBeforeLoop ==
  /\ ScoresFirst /\ state.state_tag \in {"ComputeInstantUnstake", "Rebalance"}
       => "COMPUTE_DELEGATIONS" \in state.status_flags
  /\ state.state_tag \in {"ComputeScores", "ComputeDelegations"}
       => "COMPUTE_DELEGATIONS" \notin state.status_flags
  /\ "COMPUTE_SCORE" \notin state.status_flags
       => /\ "COMPUTE_DELEGATIONS" \notin state.status_flags
          /\ state.state_tag # "ComputeDelegations"

\* Once per epoch: while validators are checked or rebalanced the loop is not
\* marked as done, and rebalancing follows a completed instant-unstake check.
OneLoopPerEpoch ==
  /\ state.state_tag \in {"ComputeInstantUnstake", "Rebalance"}
       => "REBALANCE" \notin state.status_flags
  /\ "COMPUTE_INSTANT_UNSTAKES" \notin state.status_flags
       => /\ "REBALANCE" \notin state.status_flags
          /\ state.state_tag # "Rebalance"

\* An instant-unstake verdict never outlives the loop that computed it: it is
\* gone when the next epoch's or the next cycle's work begins.
InstantUnstakeFresh ==
  state.instant_unstake # {} =>
    \/ state.state_tag \in {"ComputeInstantUnstake", "Rebalance"}
    \/ state.state_tag = "Idle" /\ "REBALANCE" \in state.status_flags

\* compute_instant_unstake and rebalance refuse to run when the cycle is over
\* (clock.epoch >= next_cycle_epoch), and so does compute_delegations; a machine
\* in those states would be stuck for the epoch.  Where scoring comes first in the
\* epoch it never is; for compute_delegations this needs no order of the
\* thresholds, except that an empty pool can pass through ComputeScores without
\* starting a cycle.
NeverPastCycleEnd ==
  state.current_epoch >= state.next_cycle_epoch =>
    /\ ScoresFirst => state.state_tag \notin {"ComputeInstantUnstake", "Rebalance"}
    /\ state.state_tag = "ComputeDelegations" => state.num_pool_validators = 0

\* The state account does not run ahead of the clock; otherwise the checked
\* subtraction in compute_score fails and epoch maintenance never runs again.
NotAheadOfClock ==
  /\ state.current_epoch <= clock.epoch
  /\ state.start_computing_scores_slot <= clock.slot

\* Scoring that has begun belongs to a cycle that is not over.
ScoringInCycle ==
  state.state_tag = "ComputeScores" /\ state.progress # {}
    => state.current_epoch < state.next_cycle_epoch

\* No instruction sets RESET_TO_IDLE any more.
NeverResetToIdle == "RESET_TO_IDLE" \notin state.status_flags

\* The inductive invariant of the machine: tag, flags, bitmasks and epochs stay
\* consistent under every instruction, the admin's included.
MachineInv ==
  /\ DirectedFirst
  /\ DelegationsBeforeLoop
  /\ OneLoopPerEpoch
  /\ InstantUnstakeFresh
  /\ NeverPastCycleEnd
  /\ NotAheadOfClock
  /\ ScoringInCycle
  /\ NeverResetToIdle

\* Index i of the state stands for the validator at place k of the list.
Stands(i, k) == owners[i + 1] = list[k].vote

\* The indices in use, and the places of the list.
Used == 0 .. Len(owners) - 1
Places == 1 .. Len(list)

InList(v) == \E k \in Places : list[k].vote = v

\* Every place of the list has its index, and the indices of two places are in
\* the order of the places: without the indices whose entry has left the list the
\* state is the list.
SameOrder ==
  /\ \A k \in Places : \E i \in Used : Stands(i, k)
  /\ \A i, j \in Used, k, m \in Places : Stands(i, k) /\ Stands(j, m) => (i < j <=> k < m)

\* The 1-1 mapping between the validator list and the steward state: the state
\* has the list's validators in the list's order, and beside them only ones that
\* have left it; and exactly those that left or are leaving are marked.
OneToOne ==
  /\ Len(owners) = StateLength(state)
  /\ SameOrder
  /\ \A i \in Indices :
       i \in MarkedForRemoval(state) <=>
         /\ i \in Used
         /\ \A k \in Places : Stands(i, k) => list[k].status # "Active"
-----------------------------------------------------------------------------
(* Action properties *)

\* Computed delegations are kept for the whole cycle: they are only given up
\* once the clock has reached next_cycle_epoch.
DelegationsLastTheCycle ==
  [][ /\ "COMPUTE_DELEGATIONS" \in state.status_flags
      /\ "COMPUTE_DELEGATIONS" \notin state'.status_flags
      => clock.epoch >= state.next_cycle_epoch ]_vars

\* The pool validators processed in the current phase.
Done(s, o) == {o[i + 1] : i \in {j \in s.progress : j < s.num_pool_validators}}

InPool(s, o) == {o[k] : k \in 1 .. s.num_pool_validators}

\* Removing a validator in the middle of a phase neither loses nor invents the
\* progress of another pool validator: as long as the phase goes on and scoring
\* is not restarted, the processed validators stay processed, and a removal
\* leaves the unprocessed ones unprocessed.
ProgressFollowsValidators ==
  [][ /\ state.state_tag \in {"ComputeScores", "ComputeInstantUnstake", "Rebalance"}
      /\ state'.state_tag = state.state_tag
      /\ state'.current_epoch = state.current_epoch
      /\ state'.start_computing_scores_slot = state.start_computing_scores_slot
      /\ state.progress # {}
      => /\ Done(state, owners) \cap InPool(state', owners')
              \subseteq Done(state', owners')
         /\ owners' # owners =>
              Done(state', owners') \subseteq Done(state, owners) ]_vars

\* Liveness: once the clock stands still long enough in an epoch (here in the
\* last one, after InstantUnstakeProgress), fair cranking takes the machine
\* through maintenance, scoring if it is due, and one full loop, whatever
\* validators were added or closed on the way and however many epochs were
\* missed.
EpochCompletes ==
  <>[](/\ state.current_epoch = MaxEpoch
       /\ state.state_tag = "Idle"
       /\ "REBALANCE" \in state.status_flags)

\* What pausing promises: while the machine is paused its state does not move.
PausedMakesNoProgress ==
  [][paused => state'.state_tag = state.state_tag]_vars
=============================================================================
