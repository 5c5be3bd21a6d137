--------------------------- MODULE StewardScoring ---------------------------
(***************************************************************************)
(* The arrays behind a scoring cycle: scores, sorted_score_indices and     *)
(* delegations of the StewardState account, as compute_score,              *)
(* compute_delegations and remove_validator keep them while validators are *)
(* added to and removed from the pool in the middle of the cycle.          *)
(*                                                                         *)
(* Abstractions:                                                           *)
(*  - the score of a validator is an input in 0 .. MaxScore, and the slot  *)
(*    range of scoring an input (late);                                    *)
(*  - every tag but ComputeScores and ComputeDelegations is "Other", and   *)
(*    the bits of progress outside of scoring are left out: they are       *)
(*    cleared when scoring is entered;                                     *)
(*  - the clock is left out: the end of an epoch and of a cycle may come   *)
(*    at any time (StewardStateMachine has the clock);                     *)
(*  - raw_scores and sorted_raw_score_indices, kept by the same calls with *)
(*    other scores, are left out;                                          *)
(*  - the validator list is owners, the vote account each index stands for *)
(*    (StewardStateMachine!OneToOne): while an entry has left the list and *)
(*    not the state, every crank is refused.                               *)
(***************************************************************************)
EXTENDS Integers, Sequences, FiniteSets, FiniteSetsExt

CONSTANTS
  Votes,                     \* vote accounts that can be in the pool
  MaxValidators,             \* MAX_VALIDATORS
  MaxScore,                  \* bound on scores
  NumDelegationValidators,   \* num_delegation_validators
  InitialPool                \* the validator list when the steward is set up

ASSUME ScoringAssumption ==
  /\ MaxValidators \in Nat \ {0}
  /\ MaxScore \in Nat
  /\ NumDelegationValidators \in Nat \ {0}
  /\ InitialPool \in Seq(Votes)
  /\ Len(InitialPool) <= MaxValidators
  /\ \A j, k \in 1 .. Len(InitialPool) : InitialPool[j] = InitialPool[k] => j = k

VARIABLES
  tag,                               \* state_tag
  computed,                          \* the flag COMPUTE_DELEGATIONS
  progress,
  num_pool_validators,
  validators_added,
  validators_to_remove,
  validators_for_immediate_removal,
  scores,
  sorted_score_indices,
  delegations,                       \* 0: none, n: the fraction 1/n
  maintained,                        \* current_epoch = clock.epoch
  owners                             \* auxiliary: vote account of each index

vars == <<tag, computed, progress, num_pool_validators, validators_added,
          validators_to_remove, validators_for_immediate_removal, scores,
          sorted_score_indices, delegations, maintained, owners>>

marks == <<validators_to_remove, validators_for_immediate_removal>>
counts == <<num_pool_validators, validators_added>>
arrays == <<scores, sorted_score_indices, delegations>>

Indices == 0 .. MaxValidators - 1

\* SORTED_INDEX_DEFAULT: far above every index, even after the decrements that
\* remove_validator applies to it.
NoIndex == 3 * MaxValidators

MarkedForRemoval == validators_to_remove \cup validators_for_immediate_removal

StateLength == num_pool_validators + validators_added
-----------------------------------------------------------------------------
(* Sorting and selecting *)

\* Mutant: scores in ascending order.
InsertAscending(sorted, scs, index, score, len) ==
  LET above == {p \in 0 .. len - 1 : scs[sorted[p]] > score}
      at    == IF above = {} THEN len ELSE Min(above)
  IN  [p \in Indices |-> IF p < at \/ p > len THEN sorted[p]
                         ELSE IF p = at THEN index ELSE sorted[p - 1]]

\* insert_sorted_index: before the first entry with a lower score.
InsertSortedIndex(sorted, scs, index, score, len) ==
  LET below == {p \in 0 .. len - 1 : scs[sorted[p]] < score}
      at    == IF below = {} THEN len ELSE Min(below)
  IN  [p \in Indices |-> IF p < at \/ p > len THEN sorted[p]
                         ELSE IF p = at THEN index ELSE sorted[p - 1]]

\* The positions before the first zero score; num_delegation_validators if there
\* is none.
LastValidIndex ==
  LET zeros == {p \in 0 .. num_pool_validators - 1 : scores[sorted_score_indices[p]] = 0}
  IN  IF zeros = {} THEN NumDelegationValidators ELSE Min(zeros)

\* The slices of select_validators_to_delegate are in range; the program panics
\* otherwise.
InRange ==
  \A p \in 0 .. num_pool_validators - 1 : sorted_score_indices[p] < num_pool_validators

NumSelected ==
  IF LastValidIndex < NumDelegationValidators THEN LastValidIndex
                                              ELSE NumDelegationValidators

\* select_validators_to_delegate
Selected == {sorted_score_indices[p] : p \in 0 .. NumSelected - 1}
-----------------------------------------------------------------------------
(* Instructions *)

\* What state_checks asks of the state, and no validator may be half removed.
StateChecks == maintained /\ validators_for_immediate_removal = {}

IsComplete(bits, n) == \A i \in 0 .. n - 1 : i \in bits

NoDelegations == [i \in Indices |-> 0]

\* The transition out of ComputeScores, with bits of progress and delegations d.
EndScoring(bits, n, d) ==
  IF IsComplete(bits, n)
  THEN tag' = "ComputeDelegations" /\ progress' = {} /\ delegations' = NoDelegations
  ELSE UNCHANGED tag /\ progress' = bits /\ delegations' = d

\* The validators added in the cycle before join the pool that is scored.
CountPool ==
  /\ num_pool_validators' = Len(owners)
  /\ validators_added' = 0

\* reset_state_for_new_cycle and compute_score; the sorted indices are not reset.
ScoreAfterReset(i, score) ==
  /\ scores' = [j \in Indices |-> IF j = i THEN score ELSE 0]
  /\ sorted_score_indices' =
       InsertSortedIndex(sorted_score_indices, scores', i, score, 0)
  /\ computed' = FALSE
  /\ CountPool
  /\ EndScoring({i}, Len(owners), NoDelegations)

ScoreInProgress(i, score) ==
  /\ IF i \in progress THEN UNCHANGED <<scores, sorted_score_indices>>
     ELSE /\ scores' = [scores EXCEPT ![i] = score]
          /\ sorted_score_indices' =
               InsertSortedIndex(sorted_score_indices, scores', i, score,
                                 Cardinality(progress))
  /\ UNCHANGED <<computed, counts>>
  /\ EndScoring(progress \cup {i}, num_pool_validators, delegations)

\* A validator marked for removal scores zero.
ComputeScore(i, score, late) ==
  /\ StateChecks
  /\ tag = "ComputeScores"
  /\ i < Len(owners)
  /\ i \in MarkedForRemoval => score = 0
  /\ IF progress = {} \/ late THEN ScoreAfterReset(i, score)
                              ELSE ScoreInProgress(i, score)
  /\ UNCHANGED <<marks, maintained, owners>>

\* Nothing is left to score after a removal: any crank takes the transition.
TransitionComputeScores ==
  /\ tag = "ComputeScores"
  /\ IsComplete(progress, num_pool_validators)
  /\ EndScoring(progress, num_pool_validators, delegations)
  /\ UNCHANGED <<computed, counts, marks, scores, sorted_score_indices, maintained,
                 owners>>

ComputeDelegations ==
  /\ StateChecks
  /\ tag = "ComputeDelegations"
  /\ InRange
  /\ NumSelected <= num_pool_validators
  /\ delegations' = [i \in Indices |-> IF i \in Selected THEN NumSelected
                                                         ELSE delegations[i]]
  /\ computed' = TRUE
  /\ tag' = "Other"
  /\ UNCHANGED <<progress, counts, marks, scores, sorted_score_indices, maintained,
                 owners>>

\* The part of transition_idle that is about the cycle: at its end, the scores
\* and delegations count as not computed, and scoring is entered.
TransitionIdle ==
  /\ tag = "Other"
  /\ \/ computed' = FALSE /\ tag' = "ComputeScores"
     \/ computed' = FALSE /\ UNCHANGED tag
  /\ progress' = {}
  /\ UNCHANGED <<counts, marks, arrays, maintained, owners>>
-----------------------------------------------------------------------------
(* Membership *)

AddValidator(v) ==
  /\ StateChecks
  /\ Len(owners) < MaxValidators
  /\ \A k \in 1 .. Len(owners) : owners[k] # v
  /\ validators_added' = validators_added + 1
  /\ owners' = Append(owners, v)
  /\ UNCHANGED <<tag, computed, progress, num_pool_validators, marks, arrays,
                 maintained>>

MarkForRemoval(i, immediate) ==
  /\ maintained
  /\ i < Len(owners)
  /\ i \notin MarkedForRemoval
  /\ IF immediate
     THEN /\ validators_for_immediate_removal' = validators_for_immediate_removal \cup {i}
          /\ UNCHANGED validators_to_remove
     ELSE /\ validators_to_remove' = validators_to_remove \cup {i}
          /\ UNCHANGED validators_for_immediate_removal
  /\ UNCHANGED <<tag, computed, progress, counts, arrays, maintained, owners>>

\* The loop "for i in index..n { a[i] = a[i + 1] }" followed by a[n] = default.
ShiftArray(a, index, n, default) ==
  [i \in Indices |-> IF i = n THEN default
                     ELSE IF index <= i /\ i < n THEN a[i + 1] ELSE a[i]]

ShiftBits(bits, index, n) ==
  {i \in Indices : /\ i # n
                   /\ IF index <= i /\ i < n THEN i + 1 \in bits ELSE i \in bits}

\* Mutant: the indices above the removed one keep their value.
ShiftWithoutDecrement(sorted, index, n) ==
  LET found == {p \in Indices : sorted[p] = index}
      from  == IF found = {} THEN n ELSE Min(found)
  IN  ShiftArray(sorted, from, n, NoIndex)

\* The sorted indices without index: its position is closed up, and the indices
\* above it move down by one.
ShiftSorted(sorted, index, n) ==
  LET found   == {p \in Indices : sorted[p] = index}
      closed  == IF found = {} THEN sorted
                 ELSE [p \in Indices |-> IF Min(found) <= p /\ p < n THEN sorted[p + 1]
                                                                     ELSE sorted[p]]
      lowered == [p \in Indices |-> IF p < n /\ closed[p] > index THEN closed[p] - 1
                                                                  ELSE closed[p]]
  IN  [lowered EXCEPT ![n] = NoIndex]

RemoveValidator(index) ==
  LET inPool == index < num_pool_validators
      num    == IF inPool THEN num_pool_validators - 1 ELSE num_pool_validators
      added  == IF inPool THEN validators_added ELSE validators_added - 1
  IN  /\ index \in MarkedForRemoval
      /\ index < StateLength
      /\ num_pool_validators' = num
      /\ validators_added' = added
      /\ scores' = ShiftArray(scores, index, num, 0)
      /\ delegations' = ShiftArray(delegations, index, num, 0)
      /\ progress' = ShiftBits(progress, index, num)
      /\ sorted_score_indices' = ShiftSorted(sorted_score_indices, index, num)
      /\ validators_to_remove' = ShiftBits(validators_to_remove, index, num + added)
      /\ validators_for_immediate_removal' =
           ShiftBits(validators_for_immediate_removal, index, num + added)
      /\ owners' = [k \in 1 .. Len(owners) - 1 |->
                      IF k <= index THEN owners[k] ELSE owners[k + 1]]
      /\ UNCHANGED <<tag, computed>>

InstantRemoveValidator(i) ==
  /\ maintained
  /\ i \in validators_for_immediate_removal
  /\ RemoveValidator(i)
  /\ UNCHANGED maintained

EpochMaintenanceRemove(i) ==
  /\ ~maintained
  /\ RemoveValidator(i)
  /\ UNCHANGED maintained

\* The end of epoch maintenance: whatever the machine was doing is dropped.
StartEpoch ==
  /\ ~maintained
  /\ MarkedForRemoval = {}
  /\ maintained' = TRUE
  /\ tag' = "Other"
  /\ progress' = {}
  /\ UNCHANGED <<computed, counts, marks, arrays, owners>>

NextEpoch ==
  /\ maintained
  /\ maintained' = FALSE
  /\ UNCHANGED <<tag, computed, progress, counts, marks, arrays, owners>>
-----------------------------------------------------------------------------
(* The specification *)

Init ==
  /\ tag = "Other"
  /\ computed = FALSE
  /\ progress = {}
  /\ num_pool_validators = Len(InitialPool)
  /\ validators_added = 0
  /\ validators_to_remove = {}
  /\ validators_for_immediate_removal = {}
  /\ scores = [i \in Indices |-> 0]
  /\ sorted_score_indices = [i \in Indices |-> NoIndex]
  /\ delegations = NoDelegations
  /\ maintained = TRUE
  /\ owners = InitialPool

Others ==
  \/ TransitionComputeScores
  \/ ComputeDelegations
  \/ TransitionIdle
  \/ \E v \in Votes : AddValidator(v)
  \/ \E i \in Indices, immediate \in BOOLEAN : MarkForRemoval(i, immediate)
  \/ \E i \in Indices : InstantRemoveValidator(i) \/ EpochMaintenanceRemove(i)
  \/ StartEpoch
  \/ NextEpoch

\* The keeper scores the validators below num_pool_validators
\* (get_unprogressed_validators); a validator added later waits for the cycle
\* after.
KeeperNext ==
  \/ \E i \in Indices, score \in 0 .. MaxScore, late \in BOOLEAN :
        i < num_pool_validators /\ ComputeScore(i, score, late)
  \/ Others

KeeperSpec == Init /\ [][KeeperNext]_vars

\* Anybody may score any validator of the list.
Next ==
  \/ \E i \in Indices, score \in 0 .. MaxScore, late \in BOOLEAN :
        ComputeScore(i, score, late)
  \/ Others

Spec == Init /\ [][Next]_vars
-----------------------------------------------------------------------------
(* Properties *)

\* Every variable has its type, and the two counters add up to the length of the
\* validator list.
TypeOK ==
  /\ tag \in {"ComputeScores", "ComputeDelegations", "Other"}
  /\ computed \in BOOLEAN
  /\ maintained \in BOOLEAN
  /\ progress \subseteq Indices
  /\ num_pool_validators \in 0 .. MaxValidators
  /\ validators_added \in 0 .. MaxValidators
  /\ MarkedForRemoval \subseteq Indices
  /\ scores \in [Indices -> 0 .. MaxScore]
  /\ sorted_score_indices \in [Indices -> 0 .. NoIndex]
  /\ delegations \in [Indices -> 0 .. NumDelegationValidators]
  /\ owners \in Seq(Votes)
  /\ Len(owners) = StateLength

\* The indices whose score counts: the ones done while scoring, the whole pool
\* once it is complete.
Scored ==
  CASE tag = "ComputeScores"      -> progress
    [] tag = "ComputeDelegations" -> 0 .. num_pool_validators - 1
    [] OTHER                      -> {}

\* While a cycle is being scored, the sorted indices list exactly the scored
\* validators, best first, whoever left in the meantime.
SortedDescending ==
  LET n == Cardinality(Scored)
  IN  /\ {sorted_score_indices[p] : p \in 0 .. n - 1} = Scored
      /\ \A p, q \in 0 .. n - 1 :
           p <= q => scores[sorted_score_indices[p]] >= scores[sorted_score_indices[q]]

Owner(i) == owners[i + 1]

IndexOf(v) == CHOOSE i \in 0 .. Len(owners) - 1 : Owner(i) = v

Cycle == INSTANCE DelegationCycle WITH
  scored <- [v \in {Owner(i) : i \in Scored} |-> scores[IndexOf(v)]],
  shares <- [v \in {Owner(i) : i \in {j \in 0 .. Len(owners) - 1 : delegations[j] > 0}}
               |-> delegations[IndexOf(v)]]

\* The arrays implement the cycle: the delegations made are an equal share to
\* each of the best validators scored in this cycle, they follow the validators
\* when indices shift, and they only go away with the next cycle or with their
\* validator.
ImplementsCycle == Cycle!Spec

\* "Updates num_pool_validators at the start of the cycle so validator additions
\* later won't be considered": the sorted indices that delegations are made from
\* are those of the validators in the pool when scoring began.
AdditionsNotConsidered == tag = "ComputeDelegations" => InRange

\* "If there are fewer than num_delegation_validators validators with non-zero
\* scores, all non-zero scores are selected": the selection is defined whenever
\* delegations are due.
SelectionDefined ==
  tag = "ComputeDelegations" /\ InRange => NumSelected <= num_pool_validators
=============================================================================
