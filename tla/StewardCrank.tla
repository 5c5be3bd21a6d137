---------------------------- MODULE StewardCrank ----------------------------
(***************************************************************************)
(* One keeper cranking the steward: crank_steward works through a fixed     *)
(* order of steps from ONE snapshot of the accounts, while the clock, the   *)
(* validators and its own transactions change them.                         *)
(*                                                                          *)
(* The chain is StewardStateMachine.  A transaction is an action of that    *)
(* module, or several instructions applied together, and keeps the contract *)
(* of Submission: it is reported as a success only if it landed; a failed   *)
(* request (a fault, MaxFaults in all) reports an error whether or not the  *)
(* transaction landed, or ends the tick.                                    *)
(***************************************************************************)
EXTENDS StewardStateMachine

CONSTANTS
  MayGoDelinquent,   \* votes that may stop voting
  Targets,           \* vote accounts with a directed stake target
  ScoreChunk,        \* instructions in a compute_score transaction: 5
  RebalanceChunk,    \* in a rebalance transaction: 2, a deposit counts as one
  MaxFaults,         \* bound on failed requests
  MaxTroubles        \* bound on failed requests, closures and delinquencies

ASSUME CrankAssumption ==
  /\ MayGoDelinquent \subseteq Votes /\ Targets \subseteq Votes
  /\ ScoreChunk \in Nat \ {0} /\ RebalanceChunk \in Nat \ {0}
  /\ MaxFaults \in Nat /\ MaxTroubles \in Nat

VARIABLES
  delinquent,    \* votes that have not voted for five epochs
  deactivation,  \* deactivation_epoch of the pool's stake with each vote
  rebalanced,    \* targets with staked_last_updated_epoch = clock.epoch
  list_updated,  \* the epoch the entries of the list were last updated in
  pc,            \* where crank_steward is
  snap,          \* the accounts fetched for this tick
  loop,          \* the variables of the two loops that fetch the state again
  todo,          \* transactions of the current step that are not submitted yet
  won,           \* the current step has had a success
  faults         \* failed requests so far

chain  == <<vars, delinquent, deactivation, rebalanced, list_updated>>
keeper == <<pc, snap, loop, todo, won>>
crankVars == <<chain, keeper, faults>>

NeverDeactivated == MaxEpoch + 1      \* u64::MAX

\* An action of the state machine leaves the stake accounts alone.
On(A) == A /\ UNCHANGED <<delinquent, deactivation, rebalanced, list_updated>>

\* Room for one more of what may go wrong.
Room == faults + Cardinality(closed) + Cardinality(delinquent) < MaxTroubles

Deactivated(d, v, epoch) == d[v] < epoch
-----------------------------------------------------------------------------
(* A tick and its requests *)

NoSnap == [state |-> FreshState([epoch |-> 0, slot |-> 0], 0), list |-> <<>>,
           stale |-> FALSE, closed |-> {}, delinquent |-> {},
           deactivation |-> <<>>, epoch |-> 0]
NoLoop == [num |-> 0, marks |-> {}, state_epoch |-> 0, epoch |-> 0]

EndTick ==
  /\ pc' = "fetch"
  /\ snap' = NoSnap
  /\ loop' = NoLoop
  /\ todo' = {}
  /\ won' = FALSE

\* One request: A is what the transaction does when it lands, refused that it
\* cannot.  A fault may end the tick: by an error, or by the panic of an
\* unwrapped fetch and a restart.
Submit(A, refused, onOk, onErr) ==
  \/ A /\ onOk /\ UNCHANGED faults
  \/ refused /\ UNCHANGED chain /\ onErr /\ UNCHANGED faults
  \/ /\ faults < MaxFaults /\ Room
     /\ faults' = faults + 1
     /\ A \/ UNCHANGED chain
     /\ onErr \/ EndTick

\* go on with the next step
Goto(label) ==
  /\ pc' = label
  /\ UNCHANGED <<snap, loop, todo, won>>

\* get_all_steward_accounts and the validators' accounts.  The supervisor
\* starts a keeper that has panicked again.
Fetch ==
  /\ pc \in {"fetch", "panic"}
  /\ pc' = "update"
  /\ snap' = [state |-> state, list |-> list, stale |-> list_updated < clock.epoch,
              closed |-> closed, delinquent |-> delinquent,
              deactivation |-> deactivation, epoch |-> clock.epoch]
  /\ UNCHANGED <<chain, loop, todo, won, faults>>

\* update_validator_list_balance: stake accounts that have become inactive are
\* merged into the reserve.
UpdateValidatorList ==
  /\ list' = [k \in 1 .. Len(list) |->
                IF list[k].status = "Inactive"
                THEN [list[k] EXCEPT !.status = "ReadyForRemoval"] ELSE list[k]]
  /\ list_updated' = clock.epoch
  /\ UNCHANGED <<state, paused, clock, last_update_epoch, closed, owners>>
  /\ UNCHANGED <<delinquent, deactivation, rebalanced>>

HasStatus(status) == \E k \in 1 .. Len(snap.list) : snap.list[k].status = status

\* An entry is not of this epoch, or is DeactivatingValidator.
ShouldUpdate == snap.stale \/ HasStatus("Inactive")

\* _update_pool: three submissions one after the other.  The first updates the
\* list; Deactivating stands for DeactivatingAll too, which does not ask for it.
Update ==
  /\ pc = "update"
  /\ \/ /\ ShouldUpdate \/ HasStatus("Deactivating")
        /\ Submit(UpdateValidatorList, FALSE, Goto("deactivate"), Goto("deactivate"))
     \/ /\ ~ShouldUpdate
        /\ Goto("deactivate")
        /\ UNCHANGED <<chain, faults>>

ShouldDeactivate ==
  {snap.list[k].vote : k \in 1 .. Len(snap.list)} \cap
  {v \in Votes : /\ snap.deactivation[v] = NeverDeactivated
                 /\ v \in snap.delinquent \cup snap.closed}

\* deactivate_delinquent_stake for each; needs a validator that does vote, and
\* the stake program reads the vote account, so a closed one fails
DeactivateDelinquent ==
  /\ deactivation' = [v \in Votes |-> IF /\ v \in ShouldDeactivate \ closed
                                         /\ deactivation[v] = NeverDeactivated
                                      THEN clock.epoch ELSE deactivation[v]]
  /\ UNCHANGED <<vars, delinquent, rebalanced, list_updated>>

Reference == {snap.list[k].vote : k \in 1 .. Len(snap.list)}
               \ (snap.closed \cup snap.delinquent)

\* The third submission is of two transactions that land in either order.
GotoFinal == Goto("balance") \/ Goto("cleanup")

Deactivate ==
  /\ pc = "deactivate"
  /\ IF Reference = {} \/ ShouldDeactivate = {}
       THEN GotoFinal /\ UNCHANGED <<chain, faults>>
       ELSE Submit(DeactivateDelinquent, FALSE, GotoFinal, GotoFinal)

\* The loops start from the snapshot, the second one also when maintenance has
\* changed the state since.
StartLoop(label, marks) ==
  /\ pc' = label
  /\ loop' = [num |-> snap.state.num_pool_validators, marks |-> marks,
              state_epoch |-> snap.state.current_epoch, epoch |-> snap.epoch]
  /\ UNCHANGED <<snap, todo, won>>

\* Mutant: the comparison is the wrong way round.
MaintenanceIsAhead == snap.state.current_epoch > snap.epoch

ShouldRunEpochMaintenance == snap.state.current_epoch # snap.epoch

AfterUpdate ==
  IF ShouldRunEpochMaintenance
    THEN StartLoop("maintain", snap.state.validators_to_remove)
    ELSE StartLoop("instant", snap.state.validators_for_immediate_removal)

\* update_stake_pool_balance; refused while the list is of an earlier epoch
UpdateStakePoolBalance ==
  /\ list_updated = clock.epoch
  /\ last_update_epoch' = clock.epoch
  /\ On(UNCHANGED <<state, paused, clock, list, closed, owners>>)

AfterBalance == IF pc = "balance" THEN Goto("cleanup_last") ELSE AfterUpdate

Balance ==
  /\ pc \in {"balance", "balance_last"}
  /\ Submit(UpdateStakePoolBalance, list_updated # clock.epoch,
            AfterBalance, AfterBalance)

\* The instruction is always sent, and does nothing when nobody has left.
CleanupTx ==
  On(\/ CleanupRemovedValidatorEntries
     \/ /\ \A k \in 1 .. Len(list) : list[k].status # "ReadyForRemoval"
        /\ UNCHANGED vars)

AfterCleanup == IF pc = "cleanup" THEN Goto("balance_last") ELSE AfterUpdate

Cleanup ==
  /\ pc \in {"cleanup", "cleanup_last"}
  /\ Submit(CleanupTx, FALSE, AfterCleanup, AfterCleanup)
-----------------------------------------------------------------------------
(* The two loops *)

StartInstant == StartLoop("instant", snap.state.validators_for_immediate_removal)

\* get_steward_state_account and get_epoch_info after a success
Refetch(marks) ==
  /\ loop' = [num |-> state'.num_pool_validators, marks |-> marks,
              state_epoch |-> state'.current_epoch, epoch |-> clock.epoch]
  /\ UNCHANGED <<pc, snap, todo, won>>

LowestBelow(marks, n) == {i \in marks : i < n /\ \A j \in marks : i <= j}

\* the mark to pass to epoch_maintenance, if the scan of the pool's validators
\* finds one
IndexToRemove == LowestBelow(loop.marks, loop.num)

MaintainTx ==
  IF IndexToRemove = {} THEN EpochMaintenance
  ELSE \E i \in IndexToRemove : EpochMaintenanceRemove(i)

MaintainRefused == ~ENABLED On(MaintainTx)

Maintain ==
  /\ pc = "maintain"
  /\ IF loop.state_epoch = loop.epoch
       THEN StartInstant /\ UNCHANGED <<chain, faults>>
       ELSE Submit(On(MaintainTx), MaintainRefused,
                   Refetch(state'.validators_to_remove), StartInstant)

Bad ==
  {k \in 1 .. Len(snap.list) :
     LET e == snap.list[k] IN
     /\ \/ e.vote \in snap.closed
        \/ Deactivated(snap.deactivation, e.vote, snap.epoch)
        \/ e.status = "ReadyForRemoval"               \* no stake account
     /\ k - 1 \notin snap.state.validators_to_remove}

Entry(k) == [index |-> k - 1, vote |-> snap.list[k].vote]

StartRemovals ==
  /\ pc' = "remove"
  /\ loop' = NoLoop
  /\ todo' = {<<Entry(k)>> : k \in Bad}
  /\ UNCHANGED <<snap, won>>

Panic ==
  /\ pc' = "panic"
  /\ snap' = NoSnap /\ loop' = NoLoop /\ todo' = {} /\ won' = FALSE
  /\ UNCHANGED <<chain, faults>>

\* Mutant: the scan is of the pool's validators.
InstantIndexInPool == LowestBelow(loop.marks, loop.num)

\* the scan is of the entries of the list that was fetched; its result is
\* unwrapped
InstantIndex == LowestBelow(loop.marks, Len(snap.list))

InstantRemoval ==
  /\ pc = "instant"
  /\ \/ /\ loop.marks = {}
        /\ StartRemovals
        /\ UNCHANGED <<chain, faults>>
     \/ /\ loop.marks # {}
        /\ InstantIndex = {}
        /\ Panic
     \/ \E i \in InstantIndex :
          Submit(On(InstantRemoveValidator(i)), ~InstantRemovalCheck(i),
                 Refetch(state'.validators_for_immediate_removal),
                 StartRemovals)
-----------------------------------------------------------------------------
(* Removing and adding validators *)

\* The program compares the vote account with the list's entry at the index.
Matches(e) == e.index \in 0 .. Len(list) - 1 /\ list[e.index + 1].vote = e.vote

\* A deactivated stake is removed at once, unless transient stake of the validator
\* has to cool down first.
AutoRemove(e) ==
  LET gone == Deactivated(deactivation, e.vote, clock.epoch) IN
  /\ Matches(e)
  /\ \E immediate \in BOOLEAN : AutoRemoveValidatorFromPool(e.index, gone, immediate)

RemoveRefused(e) == ~ENABLED On(AutoRemove(e))

Finished(tx) == todo' = todo \ {tx} /\ UNCHANGED <<pc, snap, loop>>

\* the successes of this step end the tick
RemoveDelinquent ==
  /\ pc = "remove"
  /\ todo # {}
  /\ \E tx \in todo :
       Submit(On(AutoRemove(tx[1])), RemoveRefused(tx[1]),
              Finished(tx) /\ won' = TRUE, Finished(tx) /\ UNCHANGED won)

Candidates ==
  {v \in Votes : /\ \A k \in 1 .. Len(snap.list) : snap.list[k].vote # v
                 /\ v \notin snap.closed \cup snap.delinquent}

StartAdding ==
  /\ pc = "remove"
  /\ todo = {}
  /\ IF won THEN EndTick
     ELSE /\ pc' = "add"
          /\ todo' = {<<[index |-> 0, vote |-> v]>> : v \in Candidates}
          /\ UNCHANGED <<snap, loop, won>>
  /\ UNCHANGED <<chain, faults>>

\* the new stake account is not deactivated
AutoAdd(v) ==
  /\ AutoAddValidatorToPool(v)
  /\ deactivation' = [deactivation EXCEPT ![v] = NeverDeactivated]
  /\ UNCHANGED <<delinquent, rebalanced, list_updated>>

AddRefused(v) == ~ENABLED AutoAdd(v)

AddValidators ==
  /\ pc = "add"
  /\ \E tx \in todo :
       Submit(AutoAdd(tx[1].vote), AddRefused(tx[1].vote),
              Finished(tx) /\ UNCHANGED won, Finished(tx) /\ UNCHANGED won)
-----------------------------------------------------------------------------
(* Cranking the state the snapshot shows *)

Pending ==
  {k \in 1 .. snap.state.num_pool_validators : k - 1 \notin snap.state.progress}

\* get_unprogressed_validators: the pending ones, the lowest first
Unprogressed ==
  [n \in 1 .. Cardinality(Pending) |->
     CHOOSE k \in Pending : Cardinality({j \in Pending : j <= k}) = n]

\* it indexes the list with the state's indices
OutOfList == \E k \in Pending : k > Len(snap.list)

ChunksOf(s, n) ==
  {[j \in 1 .. (IF first + n - 1 <= Len(s) THEN n ELSE Len(s) - first + 1) |->
      Entry(s[first + j - 1])] :
     first \in {f \in 1 .. Len(s) : (f - 1) % n = 0}}

NoEntry == <<[index |-> 0, vote |-> CHOOSE v \in Votes : TRUE]>>

\* One transaction per chunk; a directed target is taken by its vote account.
\* When the reserve lacks rent every rebalance is paired with a deposit, and
\* then it is alone in its transaction.
TxsToRun(perRebalanceTx) ==
  CASE snap.state.state_tag = "ComputeScores" -> ChunksOf(Unprogressed, ScoreChunk)
    [] snap.state.state_tag = "ComputeInstantUnstake" -> ChunksOf(Unprogressed, 1)
    [] snap.state.state_tag = "Rebalance" -> ChunksOf(Unprogressed, perRebalanceTx)
    [] snap.state.state_tag = "RebalanceDirected" ->
         {<<[index |-> 0, vote |-> v]>> : v \in Targets}
    [] OTHER -> {NoEntry}

UsesProgress ==
  snap.state.state_tag \in {"ComputeScores", "ComputeInstantUnstake", "Rebalance"}

StartState ==
  /\ pc = "add"
  /\ todo = {}
  /\ \/ /\ ShouldRunEpochMaintenance
        /\ EndTick /\ UNCHANGED <<chain, faults>>
     \/ /\ ~ShouldRunEpochMaintenance
        /\ UsesProgress /\ OutOfList
        /\ Panic
     \/ /\ ~ShouldRunEpochMaintenance
        /\ ~(UsesProgress /\ OutOfList)
        /\ pc' = "crank"
        /\ \E n \in {1, RebalanceChunk} : todo' = TxsToRun(n)
        /\ UNCHANGED <<snap, loop, won, chain, faults>>

\* Instructions of one transaction are applied one after the other, and one
\* that fails undoes the others.
ChecksOf(s) ==
  /\ ~paused
  /\ clock.epoch = s.current_epoch
  /\ StateLength(s) = Len(list)
  /\ s.validators_for_immediate_removal = {}

\* compute_score of e after s: the resulting states, none if it fails
ScoreOne(s, e) ==
  IF ~ChecksOf(s) \/ ~Matches(e) THEN {}
  ELSE IF s.state_tag = "ComputeScores"
  THEN {LET t == StartOfScoring(s, clock)
        IN  Transition([t EXCEPT !.progress = @ \cup {e.index}], clock)}
  ELSE IF Transitions(s, clock) THEN {Transition(s, clock)} ELSE {}

\* rebalance of e after s; transient: its stake is in flight already
RebalanceOne(s, e) ==
  IF Transitions(s, clock) THEN {Transition(s, clock)}
  ELSE IF \/ ~ChecksOf(s) \/ ~Matches(e) \/ s.state_tag # "Rebalance"
          \/ e.vote \in closed /\ e.index \notin s.validators_to_remove
  THEN {}
  ELSE LET t == [s EXCEPT !.progress = @ \cup {e.index}]
       IN  {t} \cup (IF clock.epoch < s.next_cycle_epoch
                     THEN {Transition(t, clock)} ELSE {})

Applied(One(_, _), tx) ==
  LET after[n \in 0 .. Len(tx)] ==
        IF n = 0 THEN {state} ELSE UNION {One(s, tx[n]) : s \in after[n - 1]}
  IN  after[Len(tx)]

AllDone(r) == Targets \subseteq r

HandleComputeScore(tx) == state' \in Applied(ScoreOne, tx) /\ On(PoolUnchanged)

HandleRebalance(tx) == state' \in Applied(RebalanceOne, tx) /\ On(PoolUnchanged)

HandleComputeInstantUnstake(e) ==
  On(\/ UncheckedTransition
     \/ /\ Matches(e)
        /\ \E unstake \in BOOLEAN : ComputeInstantUnstake(e.index, unstake))

\* a transition that is due comes first, and the target is left for later
HandleDirectedRebalance(v) ==
  LET done == rebalanced \cup {v}
      due  == Transitions(SetDirectedComplete(state, AllDone(rebalanced)), clock)
  IN  /\ IF InList(v)
         THEN RebalanceDirected(AllDone(rebalanced), AllDone(done))
         ELSE RebalanceDirectedMissing(AllDone(done))
      /\ rebalanced' = IF InList(v) /\ due THEN rebalanced ELSE done
      /\ UNCHANGED <<delinquent, deactivation, list_updated>>

HandleComputeDelegations == On(ComputeDelegations)

HandleIdle == On(Idle)

\* the handler is chosen by the tag of the snapshot
CrankTx(tx) ==
  LET tag == snap.state.state_tag IN
  \/ tag = "ComputeScores" /\ HandleComputeScore(tx)
  \/ tag = "Rebalance" /\ HandleRebalance(tx)
  \/ tag = "ComputeInstantUnstake" /\ HandleComputeInstantUnstake(tx[1])
  \/ tag = "RebalanceDirected" /\ HandleDirectedRebalance(tx[1].vote)
  \/ tag = "ComputeDelegations" /\ HandleComputeDelegations
  \/ tag = "Idle" /\ HandleIdle

CrankRefused(tx) == ~ENABLED CrankTx(tx)

CrankState ==
  /\ pc = "crank"
  /\ \E tx \in todo :
       Submit(CrankTx(tx), CrankRefused(tx),
              Finished(tx) /\ UNCHANGED won, Finished(tx) /\ UNCHANGED won)

EndOfTick ==
  /\ pc = "crank"
  /\ todo = {}
  /\ EndTick
  /\ UNCHANGED <<chain, faults>>
-----------------------------------------------------------------------------
(* The specification *)

CrankInit ==
  /\ Init
  /\ delinquent = {}
  /\ deactivation = [v \in Votes |-> NeverDeactivated]
  /\ rebalanced = {}
  /\ list_updated = 0
  /\ pc = "fetch" /\ snap = NoSnap /\ loop = NoLoop /\ todo = {} /\ won = FALSE
  /\ faults = 0

\* The clock, and the validators that stop voting or close their account.
World ==
  /\ \/ On(NextSlot)
     \/ /\ NextEpoch
        /\ rebalanced' = {}
        /\ UNCHANGED <<delinquent, deactivation, list_updated>>
     \/ \E v \in Closable : Room /\ On(CloseVoteAccount(v))
     \/ \E v \in MayGoDelinquent :
          /\ Room /\ v \notin delinquent
          /\ delinquent' = delinquent \cup {v}
          /\ UNCHANGED <<vars, deactivation, rebalanced, list_updated>>
  /\ UNCHANGED <<keeper, faults>>

Keeper ==
  \/ Fetch \/ Update \/ Deactivate \/ Balance \/ Cleanup \/ Maintain \/ InstantRemoval
  \/ RemoveDelinquent \/ StartAdding \/ AddValidators \/ StartState
  \/ CrankState \/ EndOfTick

CrankNext == World \/ Keeper

\* The keeper's loop never stops and time goes on; validators need not change.
CrankSpec ==
  /\ CrankInit /\ [][CrankNext]_crankVars
  /\ WF_crankVars(Keeper)
  /\ WF_crankVars(On(NextSlot) /\ UNCHANGED <<keeper, faults>>)
  /\ WF_crankVars(NextEpoch /\ rebalanced' = {} /\ UNCHANGED <<delinquent, deactivation, list_updated, keeper, faults>>)
-----------------------------------------------------------------------------
(* Properties *)

\* A mark that the keeper's maintenance loop never passes on: an index at or
\* above num_pool_validators (a validator added in this cycle), or one for
\* immediate removal.  The loop then submits maintenance without an index, which
\* succeeds and changes nothing, for ever.
Unseen ==
  /\ state.current_epoch # clock.epoch
  /\ MarkedForRemoval(state) # {}
  /\ \/ state.validators_for_immediate_removal # {}
     \/ \E i \in state.validators_to_remove : i >= state.num_pool_validators

\* The loop of the last epoch has been done.  rebalance returns early for stake
\* in flight without leaving the state, and the keeper has nothing more to send.
LoopDone ==
  /\ state.current_epoch = MaxEpoch
  /\ \/ state.state_tag = "Idle" /\ "REBALANCE" \in state.status_flags
     \/ /\ state.state_tag = "Rebalance"
        /\ IsComplete(state.progress, state.num_pool_validators)

\* The keeper alone, whatever leaves the pool, however its requests fail and
\* the clock overtakes it, takes the machine through maintenance, scoring and
\* one loop, unless it meets a mark it does not see or panics.
KeeperCompletesEpoch == [](~Unseen /\ pc # "panic") => <>[]LoopDone

\* The same without the two exceptions.
KeeperAlwaysCompletes == <>[]LoopDone

\* validator_index_to_remove.unwrap() and the index into the list hold unless a
\* request has failed or the machine holds a mark that no transaction of the
\* keeper takes away any more: until then the list is never shorter than the
\* fetched state says.
PanicNeedsFault == pc = "panic" => faults > 0 \/ Unseen

\* The same, failed requests or not.
KeeperNeverPanics == pc # "panic"
=============================================================================
