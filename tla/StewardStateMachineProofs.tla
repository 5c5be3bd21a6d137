---------------------- MODULE StewardStateMachineProofs ----------------------
(***************************************************************************)
(* Proofs about StewardStateMachine, for every set of vote accounts, pool  *)
(* size, epoch length and parameter setting: the type invariant and the    *)
(* consistency of tag, flags, bitmasks and epochs (MachineInv) under every *)
(* instruction, the admin's included; and, without the admin's changes,    *)
(* that state and list name the same validators (OneToOne) and that        *)
(* progress follows them; and about StewardCrank, that a keeper whose      *)
(* requests succeed panics only over a mark it cannot take away.           *)
(*                                                                         *)
(* MachineInv is inductive.  The instructions build the next state record  *)
(* out of pure operators, so the argument goes through Sound, which says   *)
(* of a record s and a clock c what TypeOK and MachineInv say of state and *)
(* clock, and through one lemma per operator that shows that it keeps      *)
(* Sound.  OneToOne is not inductive; MembershipInv is, and with CrankInv  *)
(* it is the inductive invariant of the keeper on the chain.               *)
(***************************************************************************)
EXTENDS StewardCrank, WellOrder, TLAPS

\* The flags a record s has to have, or not to have, for its tag.
FlagsFit(s) ==
  /\ s.state_tag # "RebalanceDirected"
       => "REBALANCE_DIRECTED_COMPLETE" \in s.status_flags
  /\ s.state_tag \in {"ComputeInstantUnstake", "Rebalance"}
       => /\ ScoresFirst => "COMPUTE_DELEGATIONS" \in s.status_flags
          /\ "REBALANCE" \notin s.status_flags
  /\ s.state_tag \in {"ComputeScores", "ComputeDelegations"}
       => "COMPUTE_DELEGATIONS" \notin s.status_flags
  /\ "COMPUTE_SCORE" \notin s.status_flags
       => /\ "COMPUTE_DELEGATIONS" \notin s.status_flags
          /\ s.state_tag # "ComputeDelegations"
  /\ "COMPUTE_INSTANT_UNSTAKES" \notin s.status_flags
       => /\ "REBALANCE" \notin s.status_flags
          /\ s.state_tag # "Rebalance"
  /\ "RESET_TO_IDLE" \notin s.status_flags

\* Where instant-unstake verdicts may be found.
VerdictsFit(s) ==
  s.instant_unstake # {} =>
    \/ s.state_tag \in {"ComputeInstantUnstake", "Rebalance"}
    \/ s.state_tag = "Idle" /\ "REBALANCE" \in s.status_flags

\* Where a machine may be whose cycle is over.
CycleFits(s) ==
  s.current_epoch >= s.next_cycle_epoch =>
    /\ ScoresFirst => s.state_tag \notin {"ComputeInstantUnstake", "Rebalance"}
    /\ s.state_tag = "ComputeDelegations" => s.num_pool_validators = 0
    /\ s.state_tag = "ComputeScores" => s.progress = {}

NotAhead(s, c) ==
  /\ s.current_epoch <= c.epoch
  /\ s.start_computing_scores_slot <= c.slot

Sound(s, c) ==
  /\ s \in StewardState
  /\ FlagsFit(s)
  /\ VerdictsFit(s)
  /\ CycleFits(s)
  /\ NotAhead(s, c)
-----------------------------------------------------------------------------
\* TypeOK and MachineInv say of the state that it is Sound.
LEMMA InvIsSound ==
  ASSUME state \in StewardState
  PROVE  MachineInv <=> Sound(state, clock)
<1>1. state.current_epoch \in Nat /\ state.next_cycle_epoch \in Nat
  BY DEF StewardState
<1>2. /\ DirectedFirst /\ DelegationsBeforeLoop /\ OneLoopPerEpoch
      /\ NeverResetToIdle
      <=> FlagsFit(state)
  BY DEF DirectedFirst, DelegationsBeforeLoop, OneLoopPerEpoch,
         NeverResetToIdle, FlagsFit
<1>3. InstantUnstakeFresh <=> VerdictsFit(state)
  BY DEF InstantUnstakeFresh, VerdictsFit
<1>4. NeverPastCycleEnd /\ ScoringInCycle <=> CycleFits(state)
  BY <1>1 DEF NeverPastCycleEnd, ScoringInCycle, CycleFits
<1>5. NotAheadOfClock <=> NotAhead(state, clock)
  BY DEF NotAheadOfClock, NotAhead
<1> QED BY <1>2, <1>3, <1>4, <1>5 DEF MachineInv, Sound

\* The transition out of ComputeScores keeps a record sound: scoring that has
\* marked every pool validator has begun, so its cycle is not over.
LEMMA TransitionComputeScoresSound ==
  ASSUME NEW s, NEW c \in Clock, Sound(s, c), s.state_tag = "ComputeScores"
  PROVE  Sound(TransitionComputeScores(s), c)
<1>1. CASE ~IsComplete(s.progress, s.num_pool_validators)
  BY <1>1 DEF TransitionComputeScores
<1>2. CASE IsComplete(s.progress, s.num_pool_validators)
  <2> DEFINE t == TransitionComputeScores(s)
  <2>1. t = [s EXCEPT !.state_tag = "ComputeDelegations", !.progress = {},
                      !.status_flags = @ \cup {"COMPUTE_SCORE"}]
    BY <1>2 DEF TransitionComputeScores
  <2>2. t \in StewardState
    BY <2>1 DEF Sound, StewardState, Tags, Flags
  <2>3. FlagsFit(t) /\ VerdictsFit(t) /\ NotAhead(t, c)
    BY <2>1 DEF Sound, StewardState, FlagsFit, VerdictsFit, NotAhead
  <2>4. s.num_pool_validators > 0 => 0 \in s.progress
    BY <1>2, ParametersAssumption DEF IsComplete, Indices
  <2>5. CycleFits(t)
    BY <2>1, <2>4 DEF Sound, StewardState, CycleFits
  <2> QED BY <2>2, <2>3, <2>5 DEF Sound
<1> QED BY <1>1, <1>2

\* The transition out of ComputeDelegations does nothing in a sound record: the
\* flag is only set by the instruction that takes the transition at once.
LEMMA TransitionComputeDelegationsSound ==
  ASSUME NEW s, NEW c, Sound(s, c), s.state_tag = "ComputeDelegations"
  PROVE  Sound(TransitionComputeDelegations(s), c)
BY DEF TransitionComputeDelegations, Sound, FlagsFit

\* Forgetting a cycle that is over keeps an idle record sound, and leaves it
\* without delegations.
LEMMA ForgetCycleSound ==
  ASSUME NEW s, NEW c \in Clock, Sound(s, c), s.state_tag = "Idle"
  PROVE  /\ Sound(ForgetCycle(s, c), c)
         /\ ForgetCycle(s, c).state_tag = "Idle"
         /\ \/ c.epoch < ForgetCycle(s, c).next_cycle_epoch
            \/ "COMPUTE_DELEGATIONS" \notin ForgetCycle(s, c).status_flags
<1>0. c.epoch \in Nat /\ s.next_cycle_epoch \in Nat
  BY DEF Clock, Sound, StewardState
<1>1. CASE c.epoch < s.next_cycle_epoch
  BY <1>0, <1>1 DEF ForgetCycle
<1>2. CASE c.epoch >= s.next_cycle_epoch
  <2> DEFINE t == ForgetCycle(s, c)
  <2>1. t = [s EXCEPT !.status_flags = @ \ {"COMPUTE_SCORE", "COMPUTE_DELEGATIONS"},
                      !.instant_unstake = {}, !.progress = {}]
    BY <1>2 DEF ForgetCycle
  <2>2. t \in StewardState
    BY <2>1 DEF Sound, StewardState
  <2>3. /\ t.state_tag = "Idle"
        /\ "COMPUTE_DELEGATIONS" \notin t.status_flags
    BY <2>1 DEF Sound, StewardState
  <2>4. FlagsFit(t)
    BY <2>1 DEF Sound, StewardState, FlagsFit
  <2>5. VerdictsFit(t) /\ CycleFits(t) /\ NotAhead(t, c)
    BY <2>1 DEF Sound, StewardState, VerdictsFit, CycleFits, NotAhead
  <2> QED BY <2>2, <2>3, <2>4, <2>5 DEF Sound
<1> QED BY <1>0, <1>1, <1>2

\* Leaving Idle keeps a record sound.  Where scoring comes first the loop is only
\* entered with delegations of a cycle that is not over: without them the scoring
\* branch, whose epoch progress comes no later, is taken.
LEMMA LeaveIdleSound ==
  ASSUME NEW s, NEW c \in Clock, Sound(s, c), s.state_tag = "Idle",
         c.epoch < s.next_cycle_epoch \/ "COMPUTE_DELEGATIONS" \notin s.status_flags
  PROVE  Sound(LeaveIdle(s, c), c)
<1> DEFINE t == LeaveIdle(s, c)
<1>0. /\ c.epoch \in Nat /\ c.index \in Nat
      /\ s.current_epoch \in Nat /\ s.next_cycle_epoch \in Nat
      /\ s.current_epoch <= c.epoch
      /\ "REBALANCE_DIRECTED_COMPLETE" \in s.status_flags
  BY DEF Clock, Sound, StewardState, NotAhead, FlagsFit
<1>1. CASE "COMPUTE_DELEGATIONS" \notin s.status_flags /\ c.index >= ComputeScoreProgress
  <2>1. t = [s EXCEPT !.state_tag = "ComputeScores", !.progress = {},
                      !.instant_unstake = {}]
    BY <1>0, <1>1 DEF LeaveIdle
  <2>2. t \in StewardState
    BY <2>1 DEF Sound, StewardState, Tags
  <2>3. FlagsFit(t)
    BY <1>1, <2>1 DEF Sound, StewardState, FlagsFit
  <2>4. VerdictsFit(t) /\ CycleFits(t) /\ NotAhead(t, c)
    BY <2>1 DEF Sound, StewardState, VerdictsFit, CycleFits, NotAhead
  <2> QED BY <2>2, <2>3, <2>4 DEF Sound
<1>2. CASE /\ ~("COMPUTE_DELEGATIONS" \notin s.status_flags /\ c.index >= ComputeScoreProgress)
           /\ "REBALANCE" \in s.status_flags
  <2>1. t = [s EXCEPT !.status_flags = @ \cup {"POST_LOOP_IDLE"}]
    BY <1>2 DEF LeaveIdle
  <2>2. t \in StewardState
    BY <2>1 DEF Sound, StewardState, Flags
  <2>3. FlagsFit(t)
    BY <2>1 DEF Sound, StewardState, FlagsFit
  <2>4. VerdictsFit(t) /\ CycleFits(t) /\ NotAhead(t, c)
    BY <2>1 DEF Sound, StewardState, VerdictsFit, CycleFits, NotAhead
  <2> QED BY <2>2, <2>3, <2>4 DEF Sound
<1>3. CASE /\ ~("COMPUTE_DELEGATIONS" \notin s.status_flags /\ c.index >= ComputeScoreProgress)
           /\ "REBALANCE" \notin s.status_flags
           /\ c.index >= InstantUnstakeProgress
  <2>1. t = [s EXCEPT !.status_flags = (@ \ {"RESET_TO_IDLE"}) \cup {"PRE_LOOP_IDLE"},
                      !.state_tag = "ComputeInstantUnstake",
                      !.instant_unstake = {}, !.progress = {}]
    BY <1>3 DEF LeaveIdle
  <2>2. ScoresFirst => "COMPUTE_DELEGATIONS" \in s.status_flags
    BY <1>0, <1>3, ParametersAssumption DEF ScoresFirst
  <2>3. t \in StewardState
    <3>1. (s.status_flags \ {"RESET_TO_IDLE"}) \cup {"PRE_LOOP_IDLE"} \in SUBSET Flags
      BY DEF Sound, StewardState, Flags
    <3>2. "ComputeInstantUnstake" \in Tags
      BY DEF Tags
    <3> QED BY <2>1, <3>1, <3>2 DEF Sound, StewardState
  <2>4. FlagsFit(t)
    BY <1>3, <2>1, <2>2 DEF Sound, StewardState, FlagsFit
  <2>5. t.current_epoch = s.current_epoch /\ t.next_cycle_epoch = s.next_cycle_epoch
    BY <2>1 DEF Sound, StewardState
  <2>6. CycleFits(t)
    <3>1. ScoresFirst => ~(s.current_epoch >= s.next_cycle_epoch)
      BY <1>0, <2>2
    <3>2. t.state_tag = "ComputeInstantUnstake"
      BY <2>1 DEF Sound, StewardState
    <3> QED BY <2>5, <3>1, <3>2 DEF CycleFits
  <2>7. VerdictsFit(t) /\ NotAhead(t, c)
    BY <2>1 DEF Sound, StewardState, VerdictsFit, NotAhead
  <2> QED BY <2>3, <2>4, <2>6, <2>7 DEF Sound
<1>4. CASE /\ ~("COMPUTE_DELEGATIONS" \notin s.status_flags /\ c.index >= ComputeScoreProgress)
           /\ "REBALANCE" \notin s.status_flags
           /\ ~(c.index >= InstantUnstakeProgress)
  <2>1. t = [s EXCEPT !.status_flags = (@ \ {"RESET_TO_IDLE"}) \cup {"PRE_LOOP_IDLE"}]
    BY <1>4 DEF LeaveIdle
  <2>2. t \in StewardState
    BY <2>1 DEF Sound, StewardState, Flags
  <2>3. FlagsFit(t)
    BY <2>1 DEF Sound, StewardState, FlagsFit
  <2>4. VerdictsFit(t) /\ CycleFits(t) /\ NotAhead(t, c)
    BY <2>1 DEF Sound, StewardState, VerdictsFit, CycleFits, NotAhead
  <2> QED BY <2>2, <2>3, <2>4 DEF Sound
<1> QED BY <1>1, <1>2, <1>3, <1>4

\* The transition out of ComputeInstantUnstake keeps a record sound.
LEMMA TransitionComputeInstantUnstakeSound ==
  ASSUME NEW s, NEW c \in Clock, Sound(s, c), s.state_tag = "ComputeInstantUnstake"
  PROVE  Sound(TransitionComputeInstantUnstake(s), c)
<1>1. CASE ~IsComplete(s.progress, s.num_pool_validators)
  BY <1>1 DEF TransitionComputeInstantUnstake
<1>2. CASE IsComplete(s.progress, s.num_pool_validators)
  <2> DEFINE t == TransitionComputeInstantUnstake(s)
  <2>1. t = [s EXCEPT !.state_tag = "Rebalance", !.progress = {},
                      !.status_flags = @ \cup {"COMPUTE_INSTANT_UNSTAKES"}]
    BY <1>2 DEF TransitionComputeInstantUnstake
  <2>2. t \in StewardState
    BY <2>1 DEF Sound, StewardState, Tags, Flags
  <2>3. FlagsFit(t)
    BY <2>1 DEF Sound, StewardState, FlagsFit
  <2>4. VerdictsFit(t) /\ CycleFits(t) /\ NotAhead(t, c)
    BY <2>1 DEF Sound, StewardState, VerdictsFit, CycleFits, NotAhead
  <2> QED BY <2>2, <2>3, <2>4 DEF Sound
<1> QED BY <1>1, <1>2

\* The transition out of Rebalance keeps a record sound: RESET_TO_IDLE is never
\* set, so Idle is only entered with the loop marked as done.
LEMMA TransitionRebalanceSound ==
  ASSUME NEW s, NEW c \in Clock, Sound(s, c), s.state_tag = "Rebalance"
  PROVE  Sound(TransitionRebalance(s), c)
<1>0. "RESET_TO_IDLE" \notin s.status_flags
  BY DEF Sound, FlagsFit
<1>1. CASE ~IsComplete(s.progress, s.num_pool_validators)
  BY <1>0, <1>1 DEF TransitionRebalance
<1>2. CASE IsComplete(s.progress, s.num_pool_validators)
  <2> DEFINE t == TransitionRebalance(s)
  <2>1. t = [s EXCEPT !.state_tag = "Idle", !.status_flags = @ \cup {"REBALANCE"}]
    BY <1>0, <1>2 DEF TransitionRebalance
  <2>2. t \in StewardState
    BY <2>1 DEF Sound, StewardState, Tags, Flags
  <2>3. FlagsFit(t)
    BY <2>1 DEF Sound, StewardState, FlagsFit
  <2>4. VerdictsFit(t) /\ CycleFits(t) /\ NotAhead(t, c)
    BY <2>1 DEF Sound, StewardState, VerdictsFit, CycleFits, NotAhead
  <2> QED BY <2>2, <2>3, <2>4 DEF Sound
<1> QED BY <1>1, <1>2

\* Marking the directed phase as complete keeps a record sound.
LEMMA SetDirectedCompleteSound ==
  ASSUME NEW s, NEW c \in Clock, Sound(s, c), NEW all \in BOOLEAN
  PROVE  Sound(SetDirectedComplete(s, all), c)
<1>1. CASE ~all
  BY <1>1 DEF SetDirectedComplete
<1>2. CASE all
  <2> DEFINE t == SetDirectedComplete(s, all)
  <2>1. t = [s EXCEPT !.status_flags = @ \cup {"REBALANCE_DIRECTED_COMPLETE"}]
    BY <1>2 DEF SetDirectedComplete
  <2>2. t \in StewardState
    BY <2>1 DEF Sound, StewardState, Flags
  <2>3. FlagsFit(t)
    BY <2>1 DEF Sound, StewardState, FlagsFit
  <2>4. VerdictsFit(t) /\ CycleFits(t) /\ NotAhead(t, c)
    BY <2>1 DEF Sound, StewardState, VerdictsFit, CycleFits, NotAhead
  <2> QED BY <2>2, <2>3, <2>4 DEF Sound
<1> QED BY <1>1, <1>2

\* The transition out of RebalanceDirected keeps a record sound.
LEMMA TransitionRebalanceDirectedSound ==
  ASSUME NEW s, NEW c \in Clock, Sound(s, c), s.state_tag = "RebalanceDirected"
  PROVE  Sound(TransitionRebalanceDirected(s, c), c)
<1> DEFINE t == TransitionRebalanceDirected(s, c)
<1>1. CASE t = s
  BY <1>1
<1>2. CASE t # s
  <2>1. t = [s EXCEPT !.state_tag = "Idle",
                      !.status_flags = @ \cup {"REBALANCE_DIRECTED_COMPLETE"}]
    BY <1>2 DEF TransitionRebalanceDirected
  <2>2. t \in StewardState
    BY <2>1 DEF Sound, StewardState, Tags, Flags
  <2>3. FlagsFit(t)
    BY <2>1 DEF Sound, StewardState, FlagsFit
  <2>4. VerdictsFit(t) /\ CycleFits(t) /\ NotAhead(t, c)
    BY <2>1 DEF Sound, StewardState, VerdictsFit, CycleFits, NotAhead
  <2> QED BY <2>2, <2>3, <2>4 DEF Sound
<1> QED BY <1>1, <1>2

\* Every transition keeps a record sound.
LEMMA TransitionSound ==
  ASSUME NEW s, NEW c \in Clock, Sound(s, c)
  PROVE  Sound(Transition(s, c), c)
<1>1. s.state_tag \in Tags
  BY DEF Sound, StewardState
<1>2. CASE s.state_tag = "ComputeScores"
  BY <1>2, TransitionComputeScoresSound DEF Transition
<1>3. CASE s.state_tag = "ComputeDelegations"
  BY <1>3, TransitionComputeDelegationsSound DEF Transition
<1>4. CASE s.state_tag = "Idle"
  BY <1>4, ForgetCycleSound, LeaveIdleSound DEF Transition, TransitionIdle
<1>5. CASE s.state_tag = "ComputeInstantUnstake"
  BY <1>5, TransitionComputeInstantUnstakeSound DEF Transition
<1>6. CASE s.state_tag = "Rebalance"
  BY <1>6, TransitionRebalanceSound DEF Transition
<1>7. CASE s.state_tag = "RebalanceDirected"
  BY <1>7, TransitionRebalanceDirectedSound DEF Transition
<1> QED BY <1>1, <1>2, <1>3, <1>4, <1>5, <1>6, <1>7 DEF Tags
-----------------------------------------------------------------------------
(* The other pure parts of the instructions *)

\* Starting a cycle while in ComputeScores keeps a record sound, and leaves it in
\* a cycle that is not over.
LEMMA StartOfScoringSound ==
  ASSUME NEW s, NEW c \in Clock, Sound(s, c), s.state_tag = "ComputeScores",
         c.epoch = s.current_epoch, Len(list) \in Nat
  PROVE  /\ Sound(StartOfScoring(s, c), c)
         /\ StartOfScoring(s, c).state_tag = "ComputeScores"
         /\ StartOfScoring(s, c).current_epoch < StartOfScoring(s, c).next_cycle_epoch
<1> DEFINE t == StartOfScoring(s, c)
<1>0. /\ c.epoch \in Nat /\ c.slot \in Nat
      /\ s.current_epoch \in Nat /\ s.next_cycle_epoch \in Nat
  BY DEF Clock, Sound, StewardState
<1>1. CASE t = s /\ s.progress # {}
  BY <1>0, <1>1 DEF Sound, CycleFits
<1>2. CASE ~(t = s /\ s.progress # {})
  <2> DEFINE f == s.status_flags \cap {"EPOCH_MAINTENANCE", "REBALANCE_DIRECTED_COMPLETE"}
             n == c.epoch + NumEpochsBetweenScoring
  <2>1. t = [s EXCEPT !.progress = {}, !.next_cycle_epoch = n,
                      !.start_computing_scores_slot = c.slot,
                      !.instant_unstake = {}, !.status_flags = f,
                      !.num_pool_validators = Len(list), !.validators_added = 0]
    BY <1>2 DEF StartOfScoring, ResetStateForNewCycle
  <2>2. f \in SUBSET Flags /\ n \in Nat /\ c.epoch < n
    BY <1>0, ParametersAssumption DEF Sound, StewardState
  <2> HIDE DEF f, n
  <2>3. t \in StewardState
    <3>1. s \in StewardState /\ {} \in SUBSET Indices /\ 0 \in Nat
      BY DEF Sound
    <3> QED BY <1>0, <2>1, <2>2, <3>1 DEF StewardState
  <2>4. /\ t.state_tag = "ComputeScores" /\ t.current_epoch = s.current_epoch
        /\ t.next_cycle_epoch = n /\ t.progress = {} /\ t.instant_unstake = {}
        /\ t.status_flags = f /\ t.start_computing_scores_slot = c.slot
    BY <2>1 DEF Sound, StewardState
  <2>5. FlagsFit(t)
    BY <2>4 DEF Sound, StewardState, FlagsFit, f
  <2>6. VerdictsFit(t) /\ CycleFits(t)
    BY <2>4 DEF VerdictsFit, CycleFits
  <2>7. NotAhead(t, c)
    BY <1>0, <2>4 DEF NotAhead
  <2> QED BY <2>2, <2>3, <2>4, <2>5, <2>6, <2>7 DEF Sound
<1> QED BY <1>1, <1>2

\* Marking a validator as processed in a cycle that is not over keeps a record
\* sound.
LEMMA ProgressSound ==
  ASSUME NEW s, NEW c \in Clock, Sound(s, c), NEW i \in Indices,
         s.current_epoch < s.next_cycle_epoch \/ s.state_tag # "ComputeScores"
  PROVE  Sound([s EXCEPT !.progress = @ \cup {i}], c)
<1> DEFINE t == [s EXCEPT !.progress = @ \cup {i}]
<1>1. t \in StewardState
  BY DEF Sound, StewardState
<1>2. FlagsFit(t) /\ VerdictsFit(t) /\ NotAhead(t, c)
  BY DEF Sound, StewardState, FlagsFit, VerdictsFit, NotAhead
<1>3. /\ t.state_tag = s.state_tag /\ t.current_epoch = s.current_epoch
      /\ t.next_cycle_epoch = s.next_cycle_epoch
      /\ t.num_pool_validators = s.num_pool_validators
      /\ s.current_epoch \in Nat /\ s.next_cycle_epoch \in Nat
  BY DEF Sound, StewardState
<1>4. CycleFits(t)
  BY <1>3 DEF Sound, CycleFits
<1> QED BY <1>1, <1>2, <1>4 DEF Sound

\* Shifting a bitmask gives a bitmask, and an empty one stays empty.
LEMMA ShiftBitsType ==
  ASSUME NEW bits \in SUBSET Indices, NEW index \in Nat, NEW n \in Nat
  PROVE  /\ ShiftBits(bits, index, n) \in SUBSET Indices
         /\ bits = {} => ShiftBits(bits, index, n) = {}
BY DEF ShiftBits

\* Removing a validator that the state knows keeps a record sound.
LEMMA RemoveValidatorSound ==
  ASSUME NEW s, NEW c \in Clock, Sound(s, c), NEW i \in Indices,
         CanRemoveValidator(s, i)
  PROVE  Sound(RemoveValidator(s, i), c)
<1> DEFINE t     == RemoveValidator(s, i)
           num   == IF i < s.num_pool_validators THEN s.num_pool_validators - 1
                                                 ELSE s.num_pool_validators
           added == IF i < s.num_pool_validators THEN s.validators_added
                                                 ELSE s.validators_added - 1
<1>0. i \in Nat
  BY ParametersAssumption DEF Indices
<1>1. /\ s.num_pool_validators \in Nat /\ s.validators_added \in Nat
      /\ s.progress \in SUBSET Indices /\ s.instant_unstake \in SUBSET Indices
      /\ s.validators_to_remove \in SUBSET Indices
      /\ s.validators_for_immediate_removal \in SUBSET Indices
      /\ s.current_epoch \in Nat /\ s.next_cycle_epoch \in Nat
  BY DEF Sound, StewardState
<1>2. /\ num \in Nat /\ added \in Nat /\ num + added \in Nat
      /\ s.num_pool_validators = 0 => num = 0
  BY <1>0, <1>1 DEF CanRemoveValidator, StateLength
<1>3. t = [s EXCEPT
             !.num_pool_validators = num,
             !.validators_added = added,
             !.instant_unstake = ShiftBits(@, i, num),
             !.progress = ShiftBits(@, i, num),
             !.validators_to_remove = ShiftBits(@, i, num + added),
             !.validators_for_immediate_removal = ShiftBits(@, i, num + added)]
  BY DEF RemoveValidator
<1> HIDE DEF t, num, added
<1>4. /\ ShiftBits(s.instant_unstake, i, num) \in SUBSET Indices
      /\ ShiftBits(s.progress, i, num) \in SUBSET Indices
      /\ ShiftBits(s.validators_to_remove, i, num + added) \in SUBSET Indices
      /\ ShiftBits(s.validators_for_immediate_removal, i, num + added) \in SUBSET Indices
      /\ s.instant_unstake = {} => ShiftBits(s.instant_unstake, i, num) = {}
      /\ s.progress = {} => ShiftBits(s.progress, i, num) = {}
  BY <1>0, <1>1, <1>2, ShiftBitsType
<1>5. t \in StewardState
  BY <1>2, <1>3, <1>4 DEF Sound, StewardState
<1>6. /\ t.state_tag = s.state_tag /\ t.status_flags = s.status_flags
      /\ t.current_epoch = s.current_epoch /\ t.next_cycle_epoch = s.next_cycle_epoch
      /\ t.start_computing_scores_slot = s.start_computing_scores_slot
      /\ t.num_pool_validators = num
      /\ t.instant_unstake = ShiftBits(s.instant_unstake, i, num)
      /\ t.progress = ShiftBits(s.progress, i, num)
  BY <1>3 DEF Sound, StewardState
<1>7. FlagsFit(t) /\ NotAhead(t, c)
  BY <1>6 DEF Sound, FlagsFit, NotAhead
<1>8. VerdictsFit(t)
  BY <1>4, <1>6 DEF Sound, VerdictsFit
<1>9. CycleFits(t)
  BY <1>2, <1>4, <1>6 DEF Sound, CycleFits
<1> QED BY <1>5, <1>7, <1>8, <1>9 DEF Sound, t

\* Starting an epoch keeps a record sound: whatever the last epoch left behind
\* is cleared, and the scores and delegations of the cycle are kept together.
LEMMA StartEpochSound ==
  ASSUME NEW s, NEW c \in Clock, Sound(s, c)
  PROVE  Sound(StartEpoch(s, c), c)
<1> DEFINE t == StartEpoch(s, c)
           f == (s.status_flags \ {"PRE_LOOP_IDLE", "COMPUTE_INSTANT_UNSTAKES",
                   "REBALANCE", "POST_LOOP_IDLE", "REBALANCE_DIRECTED_COMPLETE"})
                 \cup {"EPOCH_MAINTENANCE"}
<1>0. c.epoch \in Nat /\ c.slot \in Nat
  BY DEF Clock
<1>1. t = [s EXCEPT !.current_epoch = c.epoch, !.status_flags = f,
                    !.progress = {}, !.instant_unstake = {},
                    !.state_tag = "RebalanceDirected"]
  BY DEF StartEpoch
<1>2. f \in SUBSET Flags
  BY DEF Sound, StewardState, Flags
<1>3. t \in StewardState
  BY <1>0, <1>1, <1>2 DEF Sound, StewardState, Tags
<1>4. /\ t.state_tag = "RebalanceDirected" /\ t.status_flags = f
      /\ t.instant_unstake = {} /\ t.current_epoch = c.epoch
      /\ t.start_computing_scores_slot = s.start_computing_scores_slot
  BY <1>1 DEF Sound, StewardState
<1>5. FlagsFit(t)
  BY <1>4 DEF Sound, StewardState, FlagsFit
<1>6. VerdictsFit(t) /\ CycleFits(t)
  BY <1>4 DEF VerdictsFit, CycleFits
<1>7. NotAhead(t, c)
  BY <1>0, <1>4 DEF Sound, NotAhead
<1> QED BY <1>3, <1>5, <1>6, <1>7 DEF Sound

\* Clearing EPOCH_MAINTENANCE keeps a record sound.
LEMMA ClearMaintenanceSound ==
  ASSUME NEW s, NEW c \in Clock, Sound(s, c)
  PROVE  /\ Sound(ClearMaintenance(s), c)
         /\ \A i \in Indices :
              CanRemoveValidator(s, i) => CanRemoveValidator(ClearMaintenance(s), i)
<1> DEFINE t == ClearMaintenance(s)
<1>1. t \in StewardState
  BY DEF Sound, StewardState, ClearMaintenance
<1>2. FlagsFit(t)
  BY DEF Sound, StewardState, ClearMaintenance, FlagsFit
<1>3. VerdictsFit(t) /\ CycleFits(t) /\ NotAhead(t, c)
  BY DEF Sound, StewardState, ClearMaintenance, VerdictsFit, CycleFits, NotAhead
<1>4. \A i \in Indices : CanRemoveValidator(s, i) => CanRemoveValidator(t, i)
  BY DEF Sound, StewardState, ClearMaintenance, CanRemoveValidator, StateLength,
         MarkedForRemoval
<1> QED BY <1>1, <1>2, <1>3, <1>4 DEF Sound

\* A freshly initialised or reset state is sound.
LEMMA FreshStateSound ==
  ASSUME NEW c \in Clock, NEW n \in Nat
  PROVE  Sound(FreshState(c, n), c)
<1>0. c.epoch \in Nat /\ c.slot \in Nat /\ c.epoch + NumEpochsBetweenScoring \in Nat
  BY ParametersAssumption DEF Clock
<1>1. FreshState(c, n) \in StewardState
  BY <1>0 DEF FreshState, StewardState, Tags
<1>2. /\ FlagsFit(FreshState(c, n)) /\ VerdictsFit(FreshState(c, n))
      /\ CycleFits(FreshState(c, n)) /\ NotAhead(FreshState(c, n), c)
  BY <1>0 DEF FreshState, FlagsFit, VerdictsFit, CycleFits, NotAhead
<1> QED BY <1>1, <1>2 DEF Sound
-----------------------------------------------------------------------------
(* One lemma per group of actions *)

\* Dropping an entry of a sequence gives a sequence.
LEMMA RemoveIndexType ==
  ASSUME NEW S, NEW seq \in Seq(S), NEW i
  PROVE  RemoveIndex(seq, i) \in Seq(S)
<1>1. CASE Len(seq) = 0
  BY <1>1 DEF RemoveIndex
<1>2. CASE Len(seq) > 0
  <2>1. Len(seq) - 1 \in Nat
    BY <1>2
  <2>2. \A k \in 1 .. Len(seq) - 1 : seq[k] \in S /\ seq[k + 1] \in S
    BY <1>2
  <2> QED BY <2>1, <2>2 DEF RemoveIndex
<1> QED BY <1>1, <1>2

\* The cranks, permissionless and in any order, keep the state sound.
LEMMA CrankSound ==
  ASSUME TypeOK, Sound(state, clock), Crank
  PROVE  Sound(state', clock') /\ PoolUnchanged
<1>0. clock \in Clock /\ Len(list) \in Nat /\ state \in StewardState
  BY DEF TypeOK
<1>1. CASE ComputeScoreForcesTransition
  BY <1>0, <1>1, TransitionSound DEF ComputeScoreForcesTransition, PoolUnchanged
<1>2. ASSUME NEW i \in Indices, ComputeScore(i)
      PROVE  Sound(state', clock') /\ PoolUnchanged
  <2> DEFINE s == StartOfScoring(state, clock)
  <2>1. /\ state.state_tag = "ComputeScores" /\ clock.epoch = state.current_epoch
        /\ state' = Transition([s EXCEPT !.progress = @ \cup {i}], clock)
        /\ PoolUnchanged
    BY <1>2 DEF ComputeScore, StateChecks, RemoveValidatorCheck
  <2>2. Sound(s, clock) /\ s.current_epoch < s.next_cycle_epoch
    BY <1>0, <2>1, StartOfScoringSound
  <2> HIDE DEF s
  <2>3. Sound([s EXCEPT !.progress = @ \cup {i}], clock)
    BY <1>0, <2>2, ProgressSound
  <2> QED BY <1>0, <2>1, <2>3, TransitionSound DEF PoolUnchanged
<1>3. CASE ComputeDelegations
  <2> DEFINE s == [state EXCEPT !.status_flags = @ \cup {"COMPUTE_DELEGATIONS"}]
             t == [s EXCEPT !.state_tag = "Idle"]
  <2>1. state.state_tag = "ComputeDelegations" /\ state' = Transition(s, clock)
        /\ PoolUnchanged
    BY <1>3 DEF ComputeDelegations
  <2>2. s.state_tag = "ComputeDelegations" /\ "COMPUTE_DELEGATIONS" \in s.status_flags
    BY <1>0, <2>1 DEF StewardState
  <2>3. state' = t
    BY <2>1, <2>2 DEF Transition, TransitionComputeDelegations
  <2>4. t \in StewardState
    BY <1>0 DEF StewardState, Tags, Flags
  <2>5. FlagsFit(t)
    BY <1>0, <2>1 DEF Sound, StewardState, FlagsFit
  <2>6. VerdictsFit(t) /\ CycleFits(t) /\ NotAhead(t, clock)
    BY <1>0, <2>1 DEF Sound, StewardState, VerdictsFit, CycleFits, NotAhead
  <2> QED BY <2>1, <2>3, <2>4, <2>5, <2>6 DEF Sound, PoolUnchanged
<1>4. CASE Idle
  BY <1>0, <1>4, TransitionSound DEF Idle, PoolUnchanged
<1>5. CASE UncheckedTransition
  BY <1>0, <1>5, TransitionSound DEF UncheckedTransition, PoolUnchanged
<1>6. ASSUME NEW i \in Indices, NEW unstake \in BOOLEAN, ComputeInstantUnstake(i, unstake)
      PROVE  Sound(state', clock') /\ PoolUnchanged
  <2> DEFINE iu == IF i \in MarkedForRemoval(state) THEN state.instant_unstake
                   ELSE IF unstake THEN state.instant_unstake \cup {i}
                                   ELSE state.instant_unstake \ {i}
             s  == [state EXCEPT !.instant_unstake = iu, !.progress = @ \cup {i}]
  <2>1. /\ state.state_tag = "ComputeInstantUnstake"
        /\ state' = state \/ state' = Transition(s, clock)
        /\ PoolUnchanged
    BY <1>6 DEF ComputeInstantUnstake
  <2>2. iu \in SUBSET Indices
    BY <1>0 DEF StewardState
  <2> HIDE DEF iu
  <2>3. s \in StewardState
    BY <1>0, <2>2 DEF StewardState
  <2>4. FlagsFit(s)
    BY <1>0, <2>1 DEF Sound, StewardState, FlagsFit
  <2>5. VerdictsFit(s) /\ CycleFits(s) /\ NotAhead(s, clock)
    BY <1>0, <2>1 DEF Sound, StewardState, VerdictsFit, CycleFits, NotAhead
  <2>6. Sound(s, clock)
    BY <2>3, <2>4, <2>5 DEF Sound
  <2> HIDE DEF s
  <2> QED BY <1>0, <2>1, <2>6, TransitionSound DEF PoolUnchanged
<1>7. ASSUME NEW i \in Indices, Rebalance(i) \/ RebalanceTransient(i)
      PROVE  Sound(state', clock') /\ PoolUnchanged
  <2> DEFINE s == [state EXCEPT !.progress = @ \cup {i}]
  <2>1. /\ state.state_tag = "Rebalance"
        /\ state' = s \/ state' = Transition(s, clock)
        /\ PoolUnchanged
    BY <1>7 DEF Rebalance, RebalanceTransient, CanRebalance
  <2>2. Sound(s, clock)
    BY <1>0, <2>1, ProgressSound
  <2> QED BY <1>0, <2>1, <2>2, TransitionSound DEF PoolUnchanged
<1>8. ASSUME NEW all \in BOOLEAN, RebalanceDirectedMissing(all)
      PROVE  Sound(state', clock') /\ PoolUnchanged
  BY <1>0, <1>8, SetDirectedCompleteSound, TransitionSound
     DEF RebalanceDirectedMissing, PoolUnchanged
<1>9. ASSUME NEW before \in BOOLEAN, NEW after \in BOOLEAN,
             RebalanceDirected(before, after)
      PROVE  Sound(state', clock') /\ PoolUnchanged
  <2> DEFINE s == SetDirectedComplete(state, before)
  <2>1. /\ \/ state' = Transition(s, clock)
           \/ state' = Transition(SetDirectedComplete(s, after), clock)
        /\ PoolUnchanged
    BY <1>9 DEF RebalanceDirected
  <2>2. Sound(s, clock) /\ Sound(SetDirectedComplete(s, after), clock)
    BY <1>0, SetDirectedCompleteSound
  <2> HIDE DEF s
  <2> QED BY <1>0, <2>1, <2>2, TransitionSound DEF PoolUnchanged
<1> QED BY <1>1, <1>2, <1>3, <1>4, <1>5, <1>6, <1>7, <1>8, <1>9 DEF Crank

\* Epoch maintenance and removals keep the state sound and the owners typed.
LEMMA MaintenanceSound ==
  ASSUME TypeOK, Sound(state, clock), Maintenance
  PROVE  /\ Sound(state', clock') /\ owners' \in Seq(Votes)
         /\ UNCHANGED <<paused, clock, list, last_update_epoch, closed>>
<1>0. clock \in Clock /\ owners \in Seq(Votes)
  BY DEF TypeOK
<1>1. ASSUME NEW s, Sound(s, clock)
      PROVE  Sound(EndMaintenance(s), clock)
  BY <1>0, <1>1, StartEpochSound DEF EndMaintenance
<1>2. CASE EpochMaintenance
  BY <1>0, <1>1, <1>2, ClearMaintenanceSound DEF EpochMaintenance, PoolUnchanged
<1>3. ASSUME NEW i \in Indices, EpochMaintenanceRemove(i)
      PROVE  /\ Sound(state', clock') /\ owners' \in Seq(Votes)
             /\ UNCHANGED <<paused, clock, list, last_update_epoch, closed>>
  <2>1. Sound(RemoveValidator(ClearMaintenance(state), i), clock)
    BY <1>0, <1>3, ClearMaintenanceSound, RemoveValidatorSound
       DEF EpochMaintenanceRemove
  <2>2. Sound(EndMaintenance(RemoveValidator(ClearMaintenance(state), i)), clock)
    BY <1>1, <2>1
  <2> QED BY <1>0, <1>3, <2>2, RemoveIndexType DEF EpochMaintenanceRemove
<1>4. ASSUME NEW i \in Indices, InstantRemoveValidator(i)
      PROVE  /\ Sound(state', clock') /\ owners' \in Seq(Votes)
             /\ UNCHANGED <<paused, clock, list, last_update_epoch, closed>>
  BY <1>0, <1>4, RemoveValidatorSound, RemoveIndexType DEF InstantRemoveValidator,
     InstantRemovalCheck
<1> QED BY <1>2, <1>3, <1>4 DEF Maintenance

\* Changing a mark keeps a record sound: no other part depends on the marks.
LEMMA MarkSound ==
  ASSUME NEW s, NEW c \in Clock, Sound(s, c), NEW m \in SUBSET Indices
  PROVE  /\ Sound([s EXCEPT !.validators_to_remove = m], c)
         /\ Sound([s EXCEPT !.validators_for_immediate_removal = m], c)
<1> DEFINE t == [s EXCEPT !.validators_to_remove = m]
           u == [s EXCEPT !.validators_for_immediate_removal = m]
<1>1. t \in StewardState /\ u \in StewardState
  BY DEF Sound, StewardState
<1>2. FlagsFit(t) /\ VerdictsFit(t) /\ CycleFits(t) /\ NotAhead(t, c)
  BY DEF Sound, StewardState, FlagsFit, VerdictsFit, CycleFits, NotAhead
<1>3. FlagsFit(u) /\ VerdictsFit(u) /\ CycleFits(u) /\ NotAhead(u, c)
  BY DEF Sound, StewardState, FlagsFit, VerdictsFit, CycleFits, NotAhead
<1> QED BY <1>1, <1>2, <1>3 DEF Sound

\* Adding a validator keeps the state sound and the pool typed.
LEMMA AddToPoolSound ==
  ASSUME TypeOK, Sound(state, clock), NEW v \in Votes, AddToPool(v)
  PROVE  /\ Sound(state', clock')
         /\ list' \in Seq(ValidatorStakeInfo) /\ owners' \in Seq(Votes)
         /\ UNCHANGED <<paused, clock, last_update_epoch, closed>>
<1> DEFINE t == [state EXCEPT !.validators_added = @ + 1]
<1>0. state \in StewardState
  BY DEF Sound
<1>1. t \in StewardState
  BY <1>0 DEF StewardState
<1>2. FlagsFit(t) /\ VerdictsFit(t) /\ CycleFits(t) /\ NotAhead(t, clock)
  BY <1>0 DEF Sound, StewardState, FlagsFit, VerdictsFit, CycleFits, NotAhead
<1>3. [vote |-> v, status |-> "Active"] \in ValidatorStakeInfo
  BY DEF ValidatorStakeInfo, StakeStatus
<1> QED BY <1>1, <1>2, <1>3 DEF Sound, AddToPool, TypeOK

\* Taking a validator out of the stake pool keeps the state sound and the pool
\* typed.
LEMMA RemoveFromPoolSound ==
  ASSUME TypeOK, Sound(state, clock), NEW i \in Indices, NEW immediate \in BOOLEAN,
         RemoveFromPool(i, immediate)
  PROVE  /\ Sound(state', clock') /\ list' \in Seq(ValidatorStakeInfo)
         /\ UNCHANGED <<paused, clock, last_update_epoch, closed, owners>>
<1>0. clock \in Clock /\ state \in StewardState /\ list \in Seq(ValidatorStakeInfo)
  BY DEF TypeOK
<1>1. /\ state.validators_to_remove \cup {i} \in SUBSET Indices
      /\ state.validators_for_immediate_removal \cup {i} \in SUBSET Indices
  BY <1>0 DEF StewardState
<1>2. \/ state' = [state EXCEPT !.validators_for_immediate_removal = @ \cup {i}]
      \/ state' = [state EXCEPT !.validators_to_remove = @ \cup {i}]
  <2>1. CASE immediate
    BY <2>1, Zenon DEF RemoveFromPool
  <2>2. CASE ~immediate
    BY <2>2, Zenon DEF RemoveFromPool
  <2> QED BY <2>1, <2>2
<1>3. Sound(state', clock)
  <2>1. /\ Sound([state EXCEPT !.validators_for_immediate_removal =
                      state.validators_for_immediate_removal \cup {i}], clock)
        /\ Sound([state EXCEPT !.validators_to_remove =
                      state.validators_to_remove \cup {i}], clock)
    BY <1>0, <1>1, MarkSound
  <2> QED BY <1>2, <2>1
<1>4. list' \in Seq(ValidatorStakeInfo)
  <2> DEFINE st == IF immediate THEN "Inactive" ELSE "Deactivating"
  <2>1. st \in StakeStatus
    BY DEF StakeStatus
  <2>2. list' = [list EXCEPT ![i + 1] = [@ EXCEPT !.status = st]]
    BY Zenon DEF RemoveFromPool
  <2>3. i + 1 \in 1 .. Len(list)
    BY <1>0, ParametersAssumption DEF RemoveFromPool, Indices
  <2> HIDE DEF st
  <2>4. [list[i + 1] EXCEPT !.status = st] \in ValidatorStakeInfo
    <3>1. list[i + 1] \in ValidatorStakeInfo
      BY <1>0, <2>3
    <3> QED BY <2>1, <3>1 DEF ValidatorStakeInfo
  <2> QED BY <1>0, <2>2, <2>3, <2>4
<1> QED BY <1>3, <1>4 DEF RemoveFromPool

\* A list whose entries only change their status is still a list.
LEMMA RestatusType ==
  ASSUME NEW l \in Seq(ValidatorStakeInfo), NEW from, NEW to \in StakeStatus
  PROVE  [k \in 1 .. Len(l) |->
            IF l[k].status = from THEN [l[k] EXCEPT !.status = to] ELSE l[k]]
           \in Seq(ValidatorStakeInfo)
<1>1. ASSUME NEW k \in 1 .. Len(l)
      PROVE  /\ l[k] \in ValidatorStakeInfo
             /\ [l[k] EXCEPT !.status = to] \in ValidatorStakeInfo
  <2>1. l[k] \in ValidatorStakeInfo
    OBVIOUS
  <2> QED BY <2>1 DEF ValidatorStakeInfo
<1> DEFINE e(k) == IF l[k].status = from THEN [l[k] EXCEPT !.status = to] ELSE l[k]
<1>2. \A k \in 1 .. Len(l) : e(k) \in ValidatorStakeInfo
  BY <1>1
<1>3. Len(l) \in Nat
  OBVIOUS
<1> HIDE DEF e
<1>4. [k \in 1 .. Len(l) |-> e(k)] \in Seq(ValidatorStakeInfo)
  BY <1>2, <1>3
<1> QED BY <1>4 DEF e

\* What a cleanup leaves behind: entries of the list, in the order they had.
LEMMA CleanupKeeps ==
  ASSUME list \in Seq(ValidatorStakeInfo), CleanupRemovedValidatorEntries
  PROVE  \E from \in [1 .. Len(list') -> {k \in 1 .. Len(list) : list[k].status # "ReadyForRemoval"}] :
           /\ \A m, n \in 1 .. Len(list') : m < n => from[m] < from[n]
           /\ \A k \in 1 .. Len(list) : list[k].status # "ReadyForRemoval" =>
                 \E n \in 1 .. Len(list') : from[n] = k
           /\ \A n \in 1 .. Len(list') : list'[n] = list[from[n]]
           /\ list' \in Seq(ValidatorStakeInfo)
<1> DEFINE kept == {k \in 1 .. Len(list) : list[k].status # "ReadyForRemoval"}
           size == Cardinality(kept)
<1>1. size \in Nat
  <2>1. IsFiniteSet(1 .. Len(list))
    BY FS_Interval
  <2>2. IsFiniteSet(kept)
    BY <2>1, FS_Subset
  <2> QED BY <2>2, FS_CardinalityType
<1>2. PICK from \in [1 .. size -> kept] :
        /\ \A m, n \in 1 .. size : m < n => from[m] < from[n]
        /\ \A k \in kept : \E n \in 1 .. size : from[n] = k
        /\ list' = [n \in 1 .. size |-> list[from[n]]]
  BY DEF CleanupRemovedValidatorEntries
<1>3. \A k \in kept : list[k] \in ValidatorStakeInfo
  OBVIOUS
<1> HIDE DEF size
<1>4. Len(list') = size /\ list' \in Seq(ValidatorStakeInfo)
  <2> HIDE DEF kept
  <2> QED BY <1>1, <1>2, <1>3
<1> QED BY <1>2, <1>4

\* Time only moves forward, so a sound state stays sound when the clock moves;
\* the stake pool's own instructions do not touch it.
LEMMA EnvironmentSound ==
  ASSUME TypeOK, Sound(state, clock), Environment
  PROVE  Sound(state', clock') /\ TypeOK'
<1>0. /\ clock \in Clock /\ list \in Seq(ValidatorStakeInfo)
      /\ closed \in SUBSET Votes /\ Closable \subseteq Votes
      /\ "Inactive" \in StakeStatus /\ "ReadyForRemoval" \in StakeStatus
  BY ParametersAssumption DEF TypeOK, StakeStatus
<1>1. ASSUME UNCHANGED state, clock' \in Clock,
             clock'.epoch >= clock.epoch, clock'.slot >= clock.slot
      PROVE  Sound(state', clock')
  <2>1. NotAhead(state, clock')
    <3>1. /\ state.current_epoch \in Nat /\ state.start_computing_scores_slot \in Nat
          /\ state.current_epoch <= clock.epoch
          /\ state.start_computing_scores_slot <= clock.slot
      BY DEF Sound, StewardState, NotAhead
    <3>2. /\ clock.epoch \in Nat /\ clock.slot \in Nat
          /\ clock'.epoch \in Nat /\ clock'.slot \in Nat
      BY <1>0, <1>1 DEF Clock
    <3> QED BY <1>1, <3>1, <3>2 DEF NotAhead
  <2> QED BY <1>1, <2>1 DEF Sound
<1>2. CASE NextSlot
  <2>1. /\ clock' \in Clock /\ clock'.epoch >= clock.epoch
        /\ clock'.slot >= clock.slot
    BY <1>0, <1>2 DEF NextSlot, Clock
  <2> QED BY <1>1, <1>2, <2>1 DEF NextSlot, TypeOK
<1>3. CASE NextEpoch
  <2>1. /\ clock' \in Clock /\ clock'.epoch >= clock.epoch
        /\ clock'.slot >= clock.slot
    BY <1>0, <1>3 DEF NextEpoch, Clock
  <2>2. list' \in Seq(ValidatorStakeInfo)
    BY <1>0, <1>3, RestatusType DEF NextEpoch
  <2> QED BY <1>1, <1>3, <2>1, <2>2 DEF NextEpoch, TypeOK
<1>4. CASE UpdateStakePool
  <2>1. list' \in Seq(ValidatorStakeInfo)
    BY <1>0, <1>4, RestatusType DEF UpdateStakePool
  <2>2. last_update_epoch' \in Nat
    BY <1>0, <1>4 DEF UpdateStakePool, Clock
  <2> QED BY <1>4, <2>1, <2>2 DEF UpdateStakePool, TypeOK
<1>5. CASE CleanupRemovedValidatorEntries
  <2>1. list' \in Seq(ValidatorStakeInfo)
    BY <1>0, <1>5, CleanupKeeps
  <2> QED BY <1>5, <2>1 DEF CleanupRemovedValidatorEntries, TypeOK
<1>6. ASSUME NEW v \in Closable, CloseVoteAccount(v)
      PROVE  Sound(state', clock') /\ TypeOK'
  BY <1>0, <1>6 DEF CloseVoteAccount, TypeOK
<1> QED BY <1>2, <1>3, <1>4, <1>5, <1>6 DEF Environment

\* The admin's instructions keep the state sound, whatever index is passed.
LEMMA AdminSound ==
  ASSUME TypeOK, Sound(state, clock), Admin
  PROVE  Sound(state', clock') /\ TypeOK'
<1>0. /\ clock \in Clock /\ state \in StewardState
      /\ list \in Seq(ValidatorStakeInfo) /\ Len(list) \in Nat
  BY DEF TypeOK
<1>1. ASSUME NEW v \in Votes, AddValidatorToPool(v)
      PROVE  Sound(state', clock') /\ TypeOK'
  BY <1>1, AddToPoolSound DEF AddValidatorToPool, TypeOK, Sound
<1>2. ASSUME NEW i \in Indices, NEW immediate \in BOOLEAN,
             RemoveValidatorFromPool(i, immediate)
      PROVE  Sound(state', clock') /\ TypeOK'
  BY <1>2, RemoveFromPoolSound DEF RemoveValidatorFromPool, TypeOK, Sound
<1>3. ASSUME NEW i \in Indices, NEW mark \in BOOLEAN, NEW immediate \in BOOLEAN,
             AdminMarkForRemoval(i, mark, immediate)
      PROVE  Sound(state', clock') /\ TypeOK'
  <2> DEFINE a == IF mark THEN state.validators_for_immediate_removal \cup {i}
                          ELSE state.validators_for_immediate_removal \ {i}
             b == IF mark THEN state.validators_to_remove \cup {i}
                          ELSE state.validators_to_remove \ {i}
  <2>1. a \in SUBSET Indices /\ b \in SUBSET Indices
    BY <1>0 DEF StewardState
  <2>2. /\ state' = IF immediate
                    THEN [state EXCEPT !.validators_for_immediate_removal = a]
                    ELSE [state EXCEPT !.validators_to_remove = b]
        /\ PoolUnchanged
    BY <1>3, Zenon DEF AdminMarkForRemoval
  <2> HIDE DEF a, b
  <2>3. Sound(state', clock)
    BY <1>0, <2>1, <2>2, MarkSound
  <2> QED BY <2>2, <2>3 DEF PoolUnchanged, TypeOK, Sound
<1>4. CASE ResetStewardState
  <2>1. Sound(state', clock')
    BY <1>0, <1>4, FreshStateSound DEF ResetStewardState
  <2>2. owners' \in Seq(Votes)
    <3>1. \A k \in 1 .. Len(list) : list[k].vote \in Votes
      <4>1. \A k \in 1 .. Len(list) : list[k] \in ValidatorStakeInfo
        BY <1>0
      <4> QED BY <4>1 DEF ValidatorStakeInfo
    <3> QED BY <1>0, <1>4, <3>1 DEF ResetStewardState
  <2> QED BY <1>4, <2>1, <2>2 DEF ResetStewardState, TypeOK, Sound
<1> QED BY <1>1, <1>2, <1>3, <1>4 DEF Admin
-----------------------------------------------------------------------------
(* The theorems *)

\* The machine starts typed and sound.
LEMMA InitSound ==
  ASSUME Init
  PROVE  TypeOK /\ Sound(state, clock)
<1>1. clock \in Clock /\ Len(InitialPool) \in Nat
  BY ParametersAssumption DEF Init, Clock
<1>2. Sound(state, clock)
  BY <1>1, FreshStateSound DEF Init
<1>3. list \in Seq(ValidatorStakeInfo)
  <2>1. \A k \in 1 .. Len(InitialPool) :
          [vote |-> InitialPool[k], status |-> "Active"] \in ValidatorStakeInfo
    BY ParametersAssumption DEF ValidatorStakeInfo, StakeStatus
  <2> QED BY <1>1, <2>1 DEF Init
<1> QED BY <1>1, <1>2, <1>3, ParametersAssumption DEF Init, TypeOK, Sound

\* Every step, of any instruction and of the environment, keeps types and
\* soundness.
LEMMA NextSound ==
  ASSUME TypeOK, Sound(state, clock), [AdminNext]_vars
  PROVE  TypeOK' /\ Sound(state', clock')
<1>1. CASE Crank
  BY <1>1, CrankSound DEF PoolUnchanged, TypeOK, Sound
<1>2. CASE Maintenance
  BY <1>2, MaintenanceSound DEF TypeOK, Sound
<1>3. CASE Membership
  <2>1. ASSUME NEW v \in Votes, AutoAddValidatorToPool(v)
        PROVE  TypeOK' /\ Sound(state', clock')
    BY <2>1, AddToPoolSound DEF AutoAddValidatorToPool, TypeOK, Sound
  <2>2. ASSUME NEW i \in Indices, NEW deactivated \in BOOLEAN,
               NEW immediate \in BOOLEAN,
               AutoRemoveValidatorFromPool(i, deactivated, immediate)
        PROVE  TypeOK' /\ Sound(state', clock')
    BY <2>2, RemoveFromPoolSound DEF AutoRemoveValidatorFromPool, TypeOK, Sound
  <2> QED BY <1>3, <2>1, <2>2 DEF Membership
<1>4. CASE Environment
  BY <1>4, EnvironmentSound
<1>5. CASE Pausing
  BY <1>5 DEF Pausing, PauseSteward, ResumeSteward, TypeOK
<1>6. CASE Admin
  BY <1>6, AdminSound
<1>7. CASE UNCHANGED vars
  BY <1>7 DEF vars, TypeOK
<1> QED BY <1>1, <1>2, <1>3, <1>4, <1>5, <1>6, <1>7 DEF AdminNext, Next

\* Type correctness under every instruction, the admin's included: no counter
\* of the account goes below zero and no bit is set past MAX_VALIDATORS.
THEOREM TypeCorrect == AdminSpec => []TypeOK
<1>1. Init => TypeOK /\ Sound(state, clock)
  BY InitSound
<1>2. (TypeOK /\ Sound(state, clock)) /\ [AdminNext]_vars
        => (TypeOK /\ Sound(state, clock))'
  BY NextSound
<1> QED BY <1>1, <1>2, PTL DEF AdminSpec

\* The tag, the flags, the bitmasks and the epochs of the state account stay
\* consistent under every interleaving of every instruction, the admin's
\* included.
THEOREM MachineConsistent == AdminSpec => []MachineInv
<1>1. Init => TypeOK /\ Sound(state, clock)
  BY InitSound
<1>2. (TypeOK /\ Sound(state, clock)) /\ [AdminNext]_vars
        => (TypeOK /\ Sound(state, clock))'
  BY NextSound
<1>3. TypeOK /\ Sound(state, clock) => MachineInv
  BY InvIsSound DEF Sound
<1> QED BY <1>1, <1>2, <1>3, PTL DEF AdminSpec

\* Without the admin's instructions the machine is a fortiori consistent.
THEOREM MachineConsistentWithoutAdmin == Spec => []MachineInv
<1>1. Init => TypeOK /\ Sound(state, clock)
  BY InitSound
<1>2. (TypeOK /\ Sound(state, clock)) /\ [Next]_vars
        => (TypeOK /\ Sound(state, clock))'
  BY NextSound DEF AdminNext
<1>3. TypeOK /\ Sound(state, clock) => MachineInv
  BY InvIsSound DEF Sound
<1> QED BY <1>1, <1>2, <1>3, PTL DEF Spec

-----------------------------------------------------------------------------
(* Delegations last the cycle *)

\* The delegations of a cycle that is not over.
HasDelegations(s, c) ==
  "COMPUTE_DELEGATIONS" \in s.status_flags /\ c.epoch < s.next_cycle_epoch

\* No transition gives up the delegations of a cycle that is not over.
LEMMA TransitionKeepsDelegations ==
  ASSUME NEW s, NEW c \in Clock, Sound(s, c), HasDelegations(s, c)
  PROVE  HasDelegations(Transition(s, c), c)
<1>0. /\ s \in StewardState /\ s.state_tag \in Tags
      /\ c.epoch \in Nat /\ s.next_cycle_epoch \in Nat
      /\ "RESET_TO_IDLE" \notin s.status_flags
      /\ s.state_tag \notin {"ComputeScores", "ComputeDelegations"}
  BY DEF Clock, Sound, StewardState, FlagsFit, HasDelegations
<1>1. CASE s.state_tag = "Idle"
  <2>1. ForgetCycle(s, c) = s
    BY <1>0 DEF ForgetCycle, HasDelegations
  <2>2. HasDelegations(LeaveIdle(s, c), c)
    <3>1. CASE "REBALANCE" \in s.status_flags
      BY <1>0, <3>1 DEF LeaveIdle, HasDelegations, StewardState
    <3>2. CASE "REBALANCE" \notin s.status_flags /\ c.index >= InstantUnstakeProgress
      BY <1>0, <3>2 DEF LeaveIdle, HasDelegations, StewardState
    <3>3. CASE "REBALANCE" \notin s.status_flags /\ ~(c.index >= InstantUnstakeProgress)
      BY <1>0, <3>3 DEF LeaveIdle, HasDelegations, StewardState
    <3> QED BY <3>1, <3>2, <3>3
  <2> QED BY <1>1, <2>1, <2>2 DEF Transition, TransitionIdle
<1>2. CASE s.state_tag = "ComputeInstantUnstake"
  BY <1>0, <1>2 DEF Transition, TransitionComputeInstantUnstake, HasDelegations,
                    StewardState
<1>3. CASE s.state_tag = "Rebalance"
  BY <1>0, <1>3 DEF Transition, TransitionRebalance, HasDelegations, StewardState
<1>4. CASE s.state_tag = "RebalanceDirected"
  BY <1>0, <1>4 DEF Transition, TransitionRebalanceDirected, HasDelegations,
                    StewardState
<1> QED BY <1>0, <1>1, <1>2, <1>3, <1>4 DEF Tags

\* No crank gives them up: scoring cannot start over while they are there.
LEMMA CrankKeepsDelegations ==
  ASSUME TypeOK, Sound(state, clock), Crank, HasDelegations(state, clock)
  PROVE  HasDelegations(state', clock)
<1>0. /\ clock \in Clock /\ state \in StewardState
      /\ state.state_tag \notin {"ComputeScores", "ComputeDelegations"}
  BY DEF TypeOK, Sound, FlagsFit, HasDelegations
<1>1. CASE ComputeScoreForcesTransition
  BY <1>0, <1>1, TransitionKeepsDelegations DEF ComputeScoreForcesTransition
<1>2. ~(\E i \in Indices : ComputeScore(i)) /\ ~ComputeDelegations
  BY <1>0 DEF ComputeScore, ComputeDelegations
<1>3. CASE Idle
  BY <1>0, <1>3, TransitionKeepsDelegations DEF Idle
<1>4. CASE UncheckedTransition
  BY <1>0, <1>4, TransitionKeepsDelegations DEF UncheckedTransition
<1>5. ASSUME NEW i \in Indices, NEW unstake \in BOOLEAN, ComputeInstantUnstake(i, unstake)
      PROVE  HasDelegations(state', clock)
  <2> DEFINE iu == IF i \in MarkedForRemoval(state) THEN state.instant_unstake
                   ELSE IF unstake THEN state.instant_unstake \cup {i}
                                   ELSE state.instant_unstake \ {i}
             s  == [state EXCEPT !.instant_unstake = iu, !.progress = @ \cup {i}]
  <2>1. /\ state.state_tag = "ComputeInstantUnstake"
        /\ state' = state \/ state' = Transition(s, clock)
    BY <1>5 DEF ComputeInstantUnstake
  <2>2. iu \in SUBSET Indices
    BY <1>0 DEF StewardState
  <2> HIDE DEF iu
  <2>3. s \in StewardState
    BY <1>0, <2>2 DEF StewardState
  <2>4. FlagsFit(s)
    BY <1>0, <2>1 DEF Sound, StewardState, FlagsFit
  <2>5. VerdictsFit(s) /\ CycleFits(s) /\ NotAhead(s, clock)
    BY <1>0, <2>1 DEF Sound, StewardState, VerdictsFit, CycleFits, NotAhead
  <2>6. Sound(s, clock)
    BY <2>3, <2>4, <2>5 DEF Sound
  <2>7. HasDelegations(s, clock)
    BY <1>0 DEF HasDelegations, StewardState
  <2> HIDE DEF s
  <2> QED BY <1>0, <2>1, <2>6, <2>7, TransitionKeepsDelegations
<1>6. ASSUME NEW i \in Indices, Rebalance(i) \/ RebalanceTransient(i)
      PROVE  HasDelegations(state', clock)
  <2> DEFINE s == [state EXCEPT !.progress = @ \cup {i}]
  <2>1. state' = s \/ state' = Transition(s, clock)
    BY <1>6 DEF Rebalance, RebalanceTransient
  <2>2. Sound(s, clock)
    BY <1>0, ProgressSound
  <2>3. HasDelegations(s, clock)
    BY <1>0 DEF HasDelegations, StewardState
  <2> HIDE DEF s
  <2> QED BY <1>0, <2>1, <2>2, <2>3, TransitionKeepsDelegations
<1>7. ASSUME NEW s, Sound(s, clock), HasDelegations(s, clock), NEW all \in BOOLEAN
      PROVE  HasDelegations(SetDirectedComplete(s, all), clock)
  BY <1>7 DEF SetDirectedComplete, HasDelegations, Sound, StewardState
<1>8. ASSUME NEW all \in BOOLEAN, RebalanceDirectedMissing(all)
      PROVE  HasDelegations(state', clock)
  BY <1>0, <1>7, <1>8, SetDirectedCompleteSound, TransitionKeepsDelegations
     DEF RebalanceDirectedMissing
<1>9. ASSUME NEW before \in BOOLEAN, NEW after \in BOOLEAN,
             RebalanceDirected(before, after)
      PROVE  HasDelegations(state', clock)
  <2> DEFINE s == SetDirectedComplete(state, before)
  <2>1. \/ state' = Transition(s, clock)
        \/ state' = Transition(SetDirectedComplete(s, after), clock)
    BY <1>9 DEF RebalanceDirected
  <2>2. Sound(s, clock) /\ Sound(SetDirectedComplete(s, after), clock)
    BY <1>0, SetDirectedCompleteSound
  <2>3. HasDelegations(s, clock) /\ HasDelegations(SetDirectedComplete(s, after), clock)
    BY <1>7, <2>2
  <2> HIDE DEF s
  <2> QED BY <1>0, <2>1, <2>2, <2>3, TransitionKeepsDelegations
<1> QED BY <1>1, <1>2, <1>3, <1>4, <1>5, <1>6, <1>8, <1>9 DEF Crank

\* Neither does epoch maintenance or the removal of a validator.
LEMMA MaintenanceKeepsDelegations ==
  ASSUME TypeOK, Sound(state, clock), Maintenance,
         "COMPUTE_DELEGATIONS" \in state.status_flags
  PROVE  "COMPUTE_DELEGATIONS" \in state'.status_flags
<1>0. clock \in Clock /\ state \in StewardState
  BY DEF TypeOK
<1>1. ASSUME NEW s, s \in StewardState, "COMPUTE_DELEGATIONS" \in s.status_flags
      PROVE  "COMPUTE_DELEGATIONS" \in EndMaintenance(s).status_flags
  BY <1>1 DEF EndMaintenance, StartEpoch, StewardState
<1>2. /\ ClearMaintenance(state) \in StewardState
      /\ "COMPUTE_DELEGATIONS" \in ClearMaintenance(state).status_flags
  BY <1>0 DEF ClearMaintenance, StewardState
<1>3. ASSUME NEW s, NEW i \in Indices, s \in StewardState
      PROVE  RemoveValidator(s, i).status_flags = s.status_flags
  BY <1>3 DEF RemoveValidator, StewardState
<1>4. CASE EpochMaintenance
  BY <1>1, <1>2, <1>4 DEF EpochMaintenance
<1>5. ASSUME NEW i \in Indices, EpochMaintenanceRemove(i)
      PROVE  "COMPUTE_DELEGATIONS" \in state'.status_flags
  <2>1. RemoveValidator(ClearMaintenance(state), i) \in StewardState
    BY <1>0, <1>5, ClearMaintenanceSound, RemoveValidatorSound
       DEF EpochMaintenanceRemove, Sound
  <2> QED BY <1>1, <1>2, <1>3, <1>5, <2>1 DEF EpochMaintenanceRemove
<1>6. ASSUME NEW i \in Indices, InstantRemoveValidator(i)
      PROVE  "COMPUTE_DELEGATIONS" \in state'.status_flags
  BY <1>0, <1>3, <1>6 DEF InstantRemoveValidator
<1> QED BY <1>4, <1>5, <1>6 DEF Maintenance

\* Once computed, delegations are kept until the clock reaches next_cycle_epoch,
\* whatever is cranked, added, removed or missed in between.
THEOREM DelegationsKept == Spec => DelegationsLastTheCycle
<1>1. Init => TypeOK /\ Sound(state, clock)
  BY InitSound
<1>2. (TypeOK /\ Sound(state, clock)) /\ [Next]_vars
        => (TypeOK /\ Sound(state, clock))'
  BY NextSound DEF AdminNext
<1>3. ASSUME TypeOK, Sound(state, clock), [Next]_vars,
             "COMPUTE_DELEGATIONS" \in state.status_flags,
             "COMPUTE_DELEGATIONS" \notin state'.status_flags
      PROVE  clock.epoch >= state.next_cycle_epoch
  <2>0. /\ clock.epoch \in Nat /\ state.next_cycle_epoch \in Nat
        /\ state \in StewardState
    BY <1>3 DEF TypeOK, Clock, StewardState
  <2>1. CASE Crank
    BY <1>3, <2>0, <2>1, CrankKeepsDelegations DEF HasDelegations
  <2>2. CASE Maintenance
    BY <1>3, <2>2, MaintenanceKeepsDelegations
  <2>3. CASE Membership
    <3>1. ASSUME NEW v \in Votes, AddToPool(v)
          PROVE  state'.status_flags = state.status_flags
      BY <2>0, <3>1 DEF AddToPool, StewardState
    <3>2. ASSUME NEW i \in Indices, NEW immediate \in BOOLEAN,
                 RemoveFromPool(i, immediate)
          PROVE  state'.status_flags = state.status_flags
      <4>1. CASE immediate
        BY <2>0, <3>2, <4>1 DEF RemoveFromPool, StewardState
      <4>2. CASE ~immediate
        BY <2>0, <3>2, <4>2 DEF RemoveFromPool, StewardState
      <4> QED BY <4>1, <4>2
    <3>3. state'.status_flags = state.status_flags
      BY <2>3, <3>1, <3>2 DEF Membership, AutoAddValidatorToPool,
                              AutoRemoveValidatorFromPool
    <3> QED BY <1>3, <3>3
  <2>4. CASE Environment \/ Pausing \/ UNCHANGED vars
    BY <1>3, <2>4 DEF Environment, NextSlot, NextEpoch, UpdateStakePool,
         CleanupRemovedValidatorEntries, CloseVoteAccount, Pausing, PauseSteward,
         ResumeSteward, vars
  <2> QED BY <1>3, <2>1, <2>2, <2>3, <2>4 DEF Next
<1>4. (TypeOK /\ Sound(state, clock)) /\ [Next]_vars
        => [ /\ "COMPUTE_DELEGATIONS" \in state.status_flags
             /\ "COMPUTE_DELEGATIONS" \notin state'.status_flags
             => clock.epoch >= state.next_cycle_epoch ]_vars
  BY <1>3
<1> QED BY <1>1, <1>2, <1>4, PTL DEF Spec, DelegationsLastTheCycle
-----------------------------------------------------------------------------
(* State and list name the same validators *)

\* The state and the list have the same length unless removals are half done, and
\* name nobody twice.
Distinct ==
  /\ Len(owners) = StateLength(state) /\ Len(owners) <= MaxValidators
  /\ \A i, j \in Used : owners[i + 1] = owners[j + 1] => i = j
  /\ \A k, m \in Places : list[k].vote = list[m].vote => k = m

\* Marked are those that have left the list or are about to.
Marks ==
  \A i \in Indices :
    i \in MarkedForRemoval(state) <=>
      /\ i \in Used
      /\ \A k \in Places : Stands(i, k) => list[k].status # "Active"

\* A validator has one mark.  The one for the end of the epoch is set in an epoch
\* that began without marks, so its validator stays in the list until the clock
\* moves on.  The one for immediate removal is of a validator without active stake.
Leaving ==
  /\ state.validators_to_remove \cap state.validators_for_immediate_removal = {}
  /\ state.current_epoch = clock.epoch =>
       \A i \in state.validators_to_remove :
         \E k \in Places : Stands(i, k) /\ list[k].status = "Deactivating"
  /\ \A i \in state.validators_for_immediate_removal, k \in Places :
       Stands(i, k) => list[k].status \in {"Inactive", "ReadyForRemoval"}

MembershipInv == Distinct /\ SameOrder /\ Marks /\ Leaving

\* Parts of the state that only membership changes.
SameBooks(s, t) ==
  /\ t.validators_to_remove = s.validators_to_remove
  /\ t.validators_for_immediate_removal = s.validators_for_immediate_removal
  /\ StateLength(t) = StateLength(s)
  /\ t.current_epoch = s.current_epoch

\* An increasing map of 1 .. n to itself moves nothing.
LEMMA IncreasingIsIdentity ==
  ASSUME NEW n \in Nat, NEW f \in [1 .. n -> 1 .. n],
         \A a, b \in 1 .. n : a < b => f[a] < f[b]
  PROVE  \A k \in 1 .. n : f[k] = k
<1>1. \A k \in 1 .. n : f[k] >= k
  <2> DEFINE Low == {k \in 1 .. n : f[k] < k}
  <2>1. SUFFICES Low = {}
    OBVIOUS
  <2>2. SUFFICES ASSUME Low # {} PROVE FALSE
    OBVIOUS
  <2>3. Low \in SUBSET Nat
    OBVIOUS
  <2>4. PICK k \in Low : \A m \in Low : k <= m
    <3> HIDE DEF Low
    <3> QED BY <2>2, <2>3, LeastNatural
  <2>5. k \in 1 .. n /\ f[k] < k /\ f[k] \in 1 .. n
    OBVIOUS
  <2>6. k - 1 \in 1 .. n /\ f[k - 1] < f[k] /\ f[k - 1] \in 1 .. n
    BY <2>5
  <2>7. k - 1 \in Low
    BY <2>5, <2>6
  <2> QED BY <2>4, <2>5, <2>7
<1>2. \A k \in 1 .. n : f[k] <= k
  <2> DEFINE High == {d \in 0 .. n : n - d \in 1 .. n /\ f[n - d] > n - d}
  <2>1. SUFFICES High = {}
    <3>1. ASSUME NEW k \in 1 .. n, ~(f[k] <= k) PROVE n - k \in High
      <4>1. n - (n - k) = k /\ n - k \in 0 .. n
        OBVIOUS
      <4> QED BY <3>1, <4>1
    <3> QED BY <3>1
  <2>2. SUFFICES ASSUME High # {} PROVE FALSE
    OBVIOUS
  <2>3. High \in SUBSET Nat
    OBVIOUS
  <2>4. PICK d \in High : \A e \in High : d <= e
    <3> HIDE DEF High
    <3> QED BY <2>2, <2>3, LeastNatural
  <2>5. d \in 0 .. n /\ n - d \in 1 .. n /\ f[n - d] > n - d /\ f[n - d] \in 1 .. n
    OBVIOUS
  <2>6. n - d < n /\ d - 1 \in 0 .. n /\ n - (d - 1) = (n - d) + 1
    BY <2>5
  <2>7. (n - d) + 1 \in 1 .. n /\ f[(n - d) + 1] > f[n - d] /\ f[(n - d) + 1] \in 1 .. n
    BY <2>5, <2>6
  <2>8. d - 1 \in High
    BY <2>5, <2>6, <2>7
  <2>9. d <= d - 1
    <3> HIDE DEF High
    <3> QED BY <2>4, <2>8
  <2> QED BY <2>5, <2>9
<1> QED BY <1>1, <1>2

\* Without a removal that is half done the places of the list are the indices of
\* the state.
LEMMA InStep ==
  ASSUME TypeOK, Distinct, SameOrder, Len(list) = Len(owners)
  PROVE  \A k \in Places : owners[k] = list[k].vote
<1> DEFINE n == Len(list)
           at(k) == CHOOSE j \in 1 .. n : owners[j] = list[k].vote
           f == [k \in 1 .. n |-> at(k)]
<1>0. n \in Nat /\ Len(owners) = n
  BY DEF TypeOK
<1>1. \A k \in 1 .. n : \E j \in 1 .. n : owners[j] = list[k].vote
  <2> SUFFICES ASSUME NEW k \in 1 .. n PROVE \E j \in 1 .. n : owners[j] = list[k].vote
    OBVIOUS
  <2>1. PICK i \in Used : Stands(i, k)
    BY DEF SameOrder, Places
  <2>2. i + 1 \in 1 .. n
    BY <1>0 DEF Used
  <2> QED BY <2>1, <2>2 DEF Stands
<1>2. \A k \in 1 .. n : at(k) \in 1 .. n /\ owners[at(k)] = list[k].vote
  BY <1>1
<1> HIDE DEF at
<1>3. f \in [1 .. n -> 1 .. n]
  BY <1>2
<1>4. \A a, b \in 1 .. n : a < b => f[a] < f[b]
  <2> SUFFICES ASSUME NEW a \in 1 .. n, NEW b \in 1 .. n, a < b PROVE at(a) < at(b)
    OBVIOUS
  <2>1. at(a) - 1 \in Used /\ at(b) - 1 \in Used
    BY <1>0, <1>2 DEF Used
  <2>2. (at(a) - 1) + 1 = at(a) /\ (at(b) - 1) + 1 = at(b)
    BY <1>2
  <2>3. Stands(at(a) - 1, a) /\ Stands(at(b) - 1, b)
    BY <1>2, <2>2 DEF Stands
  <2>4. at(a) - 1 < at(b) - 1
    BY <2>1, <2>3 DEF SameOrder, Places
  <2> QED BY <1>2, <2>4
<1>5. \A k \in 1 .. n : f[k] = k
  <2> HIDE DEF f, n
  <2> QED BY <1>0, <1>3, <1>4, IncreasingIsIdentity
<1> QED BY <1>2, <1>5 DEF Places

\* What keeps the books and the two lists keeps the invariant, as long as an epoch
\* that begins has no marks.
LEMMA MembershipSame ==
  ASSUME MembershipInv, SameBooks(state, state'), UNCHANGED <<list, owners>>,
         state'.current_epoch = clock'.epoch =>
           state.current_epoch = clock.epoch \/ state'.validators_to_remove = {}
  PROVE  MembershipInv'
<1>1. Used' = Used /\ Places' = Places /\ MarkedForRemoval(state') = MarkedForRemoval(state)
  BY DEF Used, Places, MarkedForRemoval, SameBooks
<1>2. \A i, k : Stands(i, k)' <=> Stands(i, k)
  BY DEF Stands
<1>3. Distinct'
  BY <1>1 DEF MembershipInv, Distinct, SameBooks
<1>4. SameOrder'
  BY <1>1, <1>2 DEF MembershipInv, SameOrder
<1>5. Marks'
  BY <1>1, <1>2 DEF MembershipInv, Marks
<1>6. Leaving'
  BY <1>1, <1>2 DEF MembershipInv, Leaving, SameBooks
<1> QED BY <1>3, <1>4, <1>5, <1>6 DEF MembershipInv

\* No transition touches the books.
LEMMA TransitionKeepsBooks ==
  ASSUME NEW s \in StewardState, NEW c
  PROVE  SameBooks(s, Transition(s, c))
<1>0. s.state_tag \in Tags
  BY DEF StewardState
<1>1. CASE s.state_tag = "Idle"
  <2>1. ForgetCycle(s, c) \in StewardState /\ SameBooks(s, ForgetCycle(s, c))
    BY DEF ForgetCycle, SameBooks, StateLength, StewardState
  <2>2. ASSUME NEW t \in StewardState PROVE SameBooks(t, LeaveIdle(t, c))
    BY DEF LeaveIdle, SameBooks, StateLength, StewardState
  <2>3. SameBooks(ForgetCycle(s, c), LeaveIdle(ForgetCycle(s, c), c))
    BY <2>1, <2>2
  <2>4. SameBooks(s, LeaveIdle(ForgetCycle(s, c), c))
    BY <2>1, <2>3 DEF SameBooks
  <2> QED BY <1>1, <2>4 DEF Transition, TransitionIdle
<1>2. CASE s.state_tag = "ComputeScores"
  BY <1>2 DEF Transition, TransitionComputeScores, SameBooks, StateLength, StewardState
<1>3. CASE s.state_tag = "ComputeDelegations"
  BY <1>3 DEF Transition, TransitionComputeDelegations, SameBooks, StateLength, StewardState
<1>4. CASE s.state_tag = "ComputeInstantUnstake"
  BY <1>4 DEF Transition, TransitionComputeInstantUnstake, SameBooks, StateLength, StewardState
<1>5. CASE s.state_tag = "Rebalance"
  BY <1>5 DEF Transition, TransitionRebalance, SameBooks, StateLength, StewardState
<1>6. CASE s.state_tag = "RebalanceDirected"
  BY <1>6 DEF Transition, TransitionRebalanceDirected, SameBooks, StateLength, StewardState
<1> QED BY <1>0, <1>1, <1>2, <1>3, <1>4, <1>5, <1>6 DEF Tags

\* No crank touches the books: scoring that starts over counts the validators that
\* were added into the pool.
LEMMA CrankKeepsBooks ==
  ASSUME TypeOK, Crank
  PROVE  SameBooks(state, state') /\ PoolUnchanged
<1>0. state \in StewardState /\ Len(list) \in Nat /\ clock \in Clock
  BY DEF TypeOK
<1>1. ASSUME NEW s, NEW t, NEW u, SameBooks(s, t), SameBooks(t, u)
      PROVE  SameBooks(s, u)
  BY <1>1 DEF SameBooks
<1>2. ASSUME NEW s \in StewardState, SameBooks(state, s)
      PROVE  SameBooks(state, Transition(s, clock))
  BY <1>1, <1>2, TransitionKeepsBooks
<1>3. SameBooks(state, state)
  BY DEF SameBooks
<1>4. CASE ComputeScoreForcesTransition \/ Idle \/ UncheckedTransition
  BY <1>0, <1>2, <1>3, <1>4 DEF ComputeScoreForcesTransition, Idle, UncheckedTransition
<1>5. ASSUME NEW i \in Indices, ComputeScore(i)
      PROVE  SameBooks(state, state') /\ PoolUnchanged
  <2> DEFINE s == StartOfScoring(state, clock)
             t == [s EXCEPT !.progress = @ \cup {i}]
  <2>1. StateLength(state) = Len(list) /\ state' = Transition(t, clock) /\ PoolUnchanged
    BY <1>5 DEF ComputeScore, StateChecks, RemoveValidatorCheck
  <2>2. s \in StewardState /\ SameBooks(state, s)
    <3>1. CASE s = state
      BY <3>1, <1>0, <1>3
    <3>2. CASE s # state
      <4> DEFINE f == state.status_flags \cap {"EPOCH_MAINTENANCE", "REBALANCE_DIRECTED_COMPLETE"}
                 n == clock.epoch + NumEpochsBetweenScoring
      <4>1. s = [state EXCEPT !.progress = {}, !.next_cycle_epoch = n,
                              !.start_computing_scores_slot = clock.slot,
                              !.instant_unstake = {}, !.status_flags = f,
                              !.num_pool_validators = Len(list), !.validators_added = 0]
        BY <3>2 DEF StartOfScoring, ResetStateForNewCycle
      <4>2. f \in SUBSET Flags /\ n \in Nat /\ clock.slot \in Nat
        BY <1>0, ParametersAssumption DEF StewardState, Clock
      <4> HIDE DEF f, n, s
      <4>3. s \in StewardState
        BY <1>0, <4>1, <4>2 DEF StewardState
      <4>4. SameBooks(state, s)
        BY <1>0, <2>1, <4>1 DEF SameBooks, StateLength, StewardState
      <4> QED BY <4>3, <4>4
    <3> QED BY <3>1, <3>2
  <2> HIDE DEF s
  <2>3. t \in StewardState
    BY <2>2 DEF StewardState
  <2>4. SameBooks(s, t)
    BY <2>2 DEF SameBooks, StateLength, StewardState
  <2> HIDE DEF t
  <2> QED BY <1>1, <1>2, <2>1, <2>2, <2>3, <2>4
<1>6. CASE ComputeDelegations
  <2> DEFINE s == [state EXCEPT !.status_flags = @ \cup {"COMPUTE_DELEGATIONS"}]
  <2>1. s \in StewardState /\ SameBooks(state, s)
    BY <1>0 DEF SameBooks, StateLength, StewardState, Flags
  <2>2. state' = Transition(s, clock) /\ PoolUnchanged
    BY <1>6 DEF ComputeDelegations
  <2> HIDE DEF s
  <2> QED BY <1>2, <2>1, <2>2
<1>7. ASSUME NEW i \in Indices, NEW unstake \in BOOLEAN, ComputeInstantUnstake(i, unstake)
      PROVE  SameBooks(state, state') /\ PoolUnchanged
  <2> DEFINE iu == IF i \in MarkedForRemoval(state) THEN state.instant_unstake
                   ELSE IF unstake THEN state.instant_unstake \cup {i}
                                   ELSE state.instant_unstake \ {i}
             s  == [state EXCEPT !.instant_unstake = iu, !.progress = @ \cup {i}]
  <2>1. (state' = state \/ state' = Transition(s, clock)) /\ PoolUnchanged
    BY <1>7 DEF ComputeInstantUnstake
  <2>2. iu \in SUBSET Indices
    BY <1>0 DEF StewardState
  <2> HIDE DEF iu
  <2>3. s \in StewardState /\ SameBooks(state, s)
    BY <1>0, <2>2 DEF SameBooks, StateLength, StewardState
  <2> HIDE DEF s
  <2> QED BY <1>2, <1>3, <2>1, <2>3
<1>8. ASSUME NEW i \in Indices, Rebalance(i) \/ RebalanceTransient(i)
      PROVE  SameBooks(state, state') /\ PoolUnchanged
  <2> DEFINE s == [state EXCEPT !.progress = @ \cup {i}]
  <2>1. (state' = s \/ state' = Transition(s, clock)) /\ PoolUnchanged
    BY <1>8 DEF Rebalance, RebalanceTransient
  <2>2. s \in StewardState /\ SameBooks(state, s)
    BY <1>0 DEF SameBooks, StateLength, StewardState
  <2> HIDE DEF s
  <2> QED BY <1>2, <2>1, <2>2
<1>9. ASSUME NEW s \in StewardState, SameBooks(state, s), NEW all \in BOOLEAN
      PROVE  /\ SetDirectedComplete(s, all) \in StewardState
             /\ SameBooks(state, SetDirectedComplete(s, all))
  BY <1>9 DEF SetDirectedComplete, SameBooks, StateLength, StewardState, Flags
<1>10. ASSUME NEW all \in BOOLEAN, RebalanceDirectedMissing(all)
       PROVE  SameBooks(state, state') /\ PoolUnchanged
  BY <1>0, <1>2, <1>3, <1>9, <1>10 DEF RebalanceDirectedMissing
<1>11. ASSUME NEW before \in BOOLEAN, NEW after \in BOOLEAN, RebalanceDirected(before, after)
       PROVE  SameBooks(state, state') /\ PoolUnchanged
  <2> DEFINE s == SetDirectedComplete(state, before)
  <2>1. /\ \/ state' = Transition(s, clock)
           \/ state' = Transition(SetDirectedComplete(s, after), clock)
        /\ PoolUnchanged
    BY <1>11 DEF RebalanceDirected
  <2>2. s \in StewardState /\ SameBooks(state, s)
    BY <1>0, <1>3, <1>9
  <2> HIDE DEF s
  <2>3. /\ SetDirectedComplete(s, after) \in StewardState
        /\ SameBooks(state, SetDirectedComplete(s, after))
    BY <1>9, <2>2
  <2> QED BY <1>2, <2>1, <2>2, <2>3
<1> QED BY <1>4, <1>5, <1>6, <1>7, <1>8, <1>10, <1>11 DEF Crank

\* Without a removal that is half done index i stands for place i + 1.
LEMMA Lockstep ==
  ASSUME TypeOK, Distinct, SameOrder, Len(list) = Len(owners)
  PROVE  \A i \in Used, k \in Places : Stands(i, k) <=> k = i + 1
<1> SUFFICES ASSUME NEW i \in Used, NEW k \in Places PROVE Stands(i, k) <=> k = i + 1
  OBVIOUS
<1>1. i + 1 \in Places
  BY DEF TypeOK, Used, Places
<1>2. owners[i + 1] = list[i + 1].vote
  BY <1>1, InStep
<1>3. list[i + 1].vote = list[k].vote <=> k = i + 1
  BY <1>1 DEF Distinct
<1> QED BY <1>2, <1>3 DEF Stands

\* A sequence o of vote accounts and a list l that name the same n, and nobody twice.
SameNames(n, o, l) ==
  /\ \A k \in 1 .. n : o[k] = l[k].vote
  /\ \A k, m \in 1 .. n : l[k].vote = l[m].vote => k = m

\* Index i of o and place i + 1 of l name the same, and no other two.
Alongside(n, o, l) ==
  /\ \A i \in 0 .. n - 1, k \in 1 .. n : o[i + 1] = l[k].vote <=> k = i + 1
  /\ \A i, j \in 0 .. n - 1 : o[i + 1] = o[j + 1] => i = j

\* The converse.
LEMMA FromLockstep ==
  ASSUME NEW n \in Nat, NEW o, NEW l, SameNames(n, o, l)
  PROVE  Alongside(n, o, l)
<1>1. \A i \in 0 .. n - 1 : i + 1 \in 1 .. n
  OBVIOUS
<1>2. \A i \in 0 .. n - 1, k \in 1 .. n : o[i + 1] = l[k].vote <=> k = i + 1
  BY <1>1 DEF SameNames
<1>3. ASSUME NEW i \in 0 .. n - 1, NEW j \in 0 .. n - 1, o[i + 1] = o[j + 1] PROVE i = j
  <2>1. i + 1 = j + 1
    BY <1>1, <1>3 DEF SameNames
  <2> QED BY <2>1
<1> QED BY <1>2, <1>3 DEF Alongside

\* auto_add_validator_to_pool adds at the end of both.
LEMMA AddKeepsMembership ==
  ASSUME TypeOK, MembershipInv, NEW v \in Votes, AutoAddValidatorToPool(v)
  PROVE  MembershipInv'
<1> DEFINE n == Len(list)
           e == [vote |-> v, status |-> "Active"]
<1>0. /\ n \in Nat /\ Len(owners) = n /\ Len(list) = Len(owners)
      /\ state \in StewardState /\ n + 1 <= MaxValidators
      /\ list \in Seq(ValidatorStakeInfo) /\ owners \in Seq(Votes)
      /\ e \in ValidatorStakeInfo
      /\ Distinct /\ SameOrder /\ Marks /\ Leaving
  BY DEF TypeOK, AutoAddValidatorToPool, StateChecks, RemoveValidatorCheck, AddToPool,
         MembershipInv, Distinct, ValidatorStakeInfo, StakeStatus
<1>1. /\ list' = Append(list, e) /\ owners' = Append(owners, v)
      /\ state' = [state EXCEPT !.validators_added = @ + 1] /\ UNCHANGED clock
      /\ \A k \in 1 .. n : list[k].vote # v
  BY DEF AutoAddValidatorToPool, AddToPool
<1> HIDE DEF e
<1>2. /\ Len(list') = n + 1 /\ Len(owners') = n + 1
      /\ \A k \in 1 .. n : list'[k] = list[k] /\ owners'[k] = owners[k]
      /\ list'[n + 1] = e /\ owners'[n + 1] = v
  BY <1>0, <1>1
<1>3. Used' = 0 .. n /\ Places' = 1 .. n + 1 /\ Used = 0 .. n - 1 /\ Places = 1 .. n
  BY <1>0, <1>2 DEF Used, Places
<1>4. /\ StateLength(state') = StateLength(state) + 1 /\ StateLength(state) \in Nat
      /\ state'.validators_to_remove = state.validators_to_remove
      /\ state'.validators_for_immediate_removal = state.validators_for_immediate_removal
      /\ state'.current_epoch = state.current_epoch
  BY <1>0, <1>1 DEF StateLength, StewardState
<1>5. e.vote = v /\ e.status = "Active"
  BY DEF e
<1>6. \A k \in 1 .. n + 1 : owners'[k] = list'[k].vote
  <2>1. \A k \in 1 .. n : owners'[k] = list'[k].vote
    BY <1>0, <1>2, <1>3, InStep
  <2>2. \A k \in 1 .. n + 1 : k \in 1 .. n \/ k = n + 1
    BY <1>0
  <2> QED BY <1>2, <1>5, <2>1, <2>2
<1>7. \A k, m \in 1 .. n + 1 : list'[k].vote = list'[m].vote => k = m
  <2>1. \A k, m \in 1 .. n : list[k].vote = list[m].vote => k = m
    BY <1>0, <1>3 DEF Distinct
  <2>2. \A k \in 1 .. n + 1 : k \in 1 .. n \/ k = n + 1
    BY <1>0
  <2> QED BY <1>1, <1>2, <1>5, <2>1, <2>2
<1>8. /\ SameOrder'
      /\ \A i, j \in Used' : owners'[i + 1] = owners'[j + 1] => i = j
      /\ \A i \in Used', k \in Places' : Stands(i, k)' <=> k = i + 1
  <2>0. n + 1 \in Nat /\ Used' = 0 .. (n + 1) - 1
    BY <1>0, <1>3
  <2> DEFINE N == n + 1
  <2> HIDE DEF N, n
  <2>1. /\ \A i \in 0 .. N - 1, k \in 1 .. N : owners'[i + 1] = list'[k].vote <=> k = i + 1
        /\ \A i, j \in 0 .. N - 1 : owners'[i + 1] = owners'[j + 1] => i = j
    <3>1. N \in Nat /\ (\A k \in 1 .. N : owners'[k] = list'[k].vote)
      BY <2>0, <1>6 DEF N
    <3>2. \A k, m \in 1 .. N : list'[k].vote = list'[m].vote => k = m
      BY <1>7 DEF N
    <3>3. SameNames(N, owners', list')
      BY <3>1, <3>2 DEF SameNames
    <3>4. Alongside(N, owners', list')
      BY <3>1, <3>3, FromLockstep
    <3> QED BY <3>4 DEF Alongside
  <2>2. Used' = 0 .. N - 1 /\ Places' = 1 .. N /\ N \in Nat
    BY <1>3, <2>0 DEF N
  <2>3. \A i \in Used', k \in Places' : Stands(i, k)' <=> k = i + 1
    BY <2>1, <2>2 DEF Stands
  <2>4. \A k \in Places' : k - 1 \in Used' /\ (k - 1) + 1 = k
    BY <2>2
  <2>5. \A k \in Places' : \E i \in Used' : Stands(i, k)'
    BY <2>3, <2>4
  <2>6. ASSUME NEW i \in Used', NEW j \in Used', NEW k \in Places', NEW m \in Places',
               Stands(i, k)', Stands(j, m)'
        PROVE  i < j <=> k < m
    BY <2>2, <2>3, <2>6
  <2> QED BY <2>1, <2>2, <2>3, <2>5, <2>6 DEF SameOrder
<1>9. \A i \in Used, k \in Places : Stands(i, k) <=> k = i + 1
  BY <1>0, Lockstep
<1>10. Distinct'
  BY <1>0, <1>2, <1>3, <1>4, <1>7, <1>8 DEF Distinct
<1>11. Marks'
  <2> SUFFICES ASSUME NEW i \in Indices
               PROVE  i \in MarkedForRemoval(state') <=>
                        /\ i \in Used'
                        /\ \A k \in Places' : Stands(i, k)' => list'[k].status # "Active"
    BY DEF Marks
  <2>1. i \in MarkedForRemoval(state') <=> i \in MarkedForRemoval(state)
    BY <1>4 DEF MarkedForRemoval
  <2>2. i \in Nat
    BY DEF Indices
  <2>3. CASE i \in Used
    <3>1. i \in Used' /\ i + 1 \in Places' /\ i + 1 \in Places /\ i + 1 \in 1 .. n
      BY <2>3, <1>0, <1>3
    <3>2. list'[i + 1] = list[i + 1]
      BY <3>1, <1>2
    <3>3. i \in MarkedForRemoval(state) <=> list[i + 1].status # "Active"
      BY <2>3, <3>1, <1>9, <1>0 DEF Marks
    <3> QED BY <2>1, <3>1, <3>2, <3>3, <1>8
  <2>4. CASE i \notin Used
    <3>1. i \notin MarkedForRemoval(state)
      BY <2>4, <1>0 DEF Marks
    <3>2. i \in Used' => i = n /\ i + 1 \in Places'
      BY <2>2, <2>4, <1>0, <1>3
    <3> QED BY <2>1, <3>1, <3>2, <1>2, <1>5, <1>8
  <2> QED BY <2>3, <2>4
<1>12. Leaving'
  <2>1. ASSUME state.current_epoch = clock.epoch, NEW i \in state.validators_to_remove
        PROVE  \E k \in Places' : Stands(i, k)' /\ list'[k].status = "Deactivating"
    <3>1. PICK k \in Places : Stands(i, k) /\ list[k].status = "Deactivating"
      BY <1>0, <2>1 DEF Leaving
    <3>2. i \in Used
      BY <1>0 DEF Marks, MarkedForRemoval, StewardState
    <3>3. i \in Used' /\ k \in Places' /\ k = i + 1 /\ k \in 1 .. n
      BY <3>1, <3>2, <1>0, <1>3, <1>9
    <3> QED BY <3>1, <3>3, <1>2, <1>8
  <2>2. state.validators_for_immediate_removal = {}
    BY DEF AutoAddValidatorToPool, StateChecks
  <2> QED BY <1>0, <1>1, <1>4, <2>1, <2>2 DEF Leaving
<1> QED BY <1>8, <1>10, <1>11, <1>12 DEF MembershipInv

\* Entries that only change their status: what is active stays so, and within an
\* epoch what deactivates goes on deactivating.
LEMMA RestatusKeepsMembership ==
  ASSUME MembershipInv, UNCHANGED <<state, owners>>, Len(list') = Len(list),
         \A k \in Places : list'[k].vote = list[k].vote,
         \A k \in Places : list'[k].status = "Active" <=> list[k].status = "Active",
         state.current_epoch = clock'.epoch =>
           /\ state.current_epoch = clock.epoch
           /\ \A k \in Places :
                list[k].status = "Deactivating" => list'[k].status = "Deactivating",
         \A k \in Places : list[k].status \in {"Inactive", "ReadyForRemoval"} =>
                           list'[k].status \in {"Inactive", "ReadyForRemoval"}
  PROVE  MembershipInv'
<1>1. Used' = Used /\ Places' = Places
  BY DEF Used, Places
<1>2. \A i, k : k \in Places => (Stands(i, k)' <=> Stands(i, k))
  BY DEF Stands
<1>3. Distinct'
  BY <1>1 DEF MembershipInv, Distinct
<1>4. SameOrder'
  BY <1>1, <1>2 DEF MembershipInv, SameOrder
<1>5. Marks'
  BY <1>1, <1>2 DEF MembershipInv, Marks
<1>6. Leaving'
  BY <1>1, <1>2 DEF MembershipInv, Leaving
<1> QED BY <1>3, <1>4, <1>5, <1>6 DEF MembershipInv

\* auto_remove_validator_from_pool marks the index of the entry that it removes.
LEMMA RemovalMarks ==
  ASSUME TypeOK, MembershipInv, NEW i \in Indices, NEW immediate \in BOOLEAN,
         RemoveValidatorCheck, RemoveFromPool(i, immediate)
  PROVE  MembershipInv'
<1> DEFINE st == IF immediate THEN "Inactive" ELSE "Deactivating"
<1>0. /\ Len(list) = Len(owners) /\ state.current_epoch = clock.epoch
      /\ state \in StewardState /\ list \in Seq(ValidatorStakeInfo)
      /\ i + 1 \in Places /\ i \in Used /\ list[i + 1].status = "Active"
      /\ UNCHANGED <<clock, owners>>
      /\ Distinct /\ SameOrder /\ Marks /\ Leaving
  BY DEF TypeOK, RemoveValidatorCheck, RemoveFromPool, MembershipInv, Distinct, Used, Places,
         Indices
<1>1. list' = [list EXCEPT ![i + 1] = [@ EXCEPT !.status = st]]
  BY Zenon DEF RemoveFromPool
<1>2. /\ Len(list') = Len(list)
      /\ \A k \in Places : list'[k].vote = list[k].vote
      /\ \A k \in Places : list'[k].status = IF k = i + 1 THEN st ELSE list[k].status
  <2>1. \A k \in Places : list[k] \in ValidatorStakeInfo
    BY <1>0 DEF Places
  <2> HIDE DEF st
  <2>2. \A k \in Places : list'[k] = IF k = i + 1 THEN [list[k] EXCEPT !.status = st] ELSE list[k]
    BY <1>0, <1>1 DEF Places
  <2>3. Len(list') = Len(list)
    BY <1>0, <1>1
  <2> QED BY <2>1, <2>2, <2>3 DEF ValidatorStakeInfo
<1>3. st # "Active"
  OBVIOUS
<1>4. Used' = Used /\ Places' = Places
  BY <1>0, <1>2 DEF Used, Places
<1>5. \A j, k : k \in Places => (Stands(j, k)' <=> Stands(j, k))
  BY <1>0, <1>2 DEF Stands
<1>6. \A j \in Used, k \in Places : Stands(j, k) <=> k = j + 1
  BY <1>0, Lockstep
<1>7. i \notin MarkedForRemoval(state)
  BY <1>0, <1>6 DEF Marks
<1>8. /\ StateLength(state') = StateLength(state)
      /\ state'.current_epoch = state.current_epoch
      /\ MarkedForRemoval(state') = MarkedForRemoval(state) \cup {i}
      /\ state'.validators_to_remove \cap state'.validators_for_immediate_removal = {}
      /\ \A j \in state'.validators_to_remove :
           j \in state.validators_to_remove \/ (j = i /\ st = "Deactivating")
      /\ \A j \in state'.validators_for_immediate_removal :
           j \in state.validators_for_immediate_removal \/ (j = i /\ st = "Inactive")
  <2>1. CASE immediate
    <3>1. state' = [state EXCEPT !.validators_for_immediate_removal = @ \cup {i}]
      BY <2>1, Zenon DEF RemoveFromPool
    <3>2. st = "Inactive"
      BY <2>1
    <3> HIDE DEF st
    <3> QED BY <3>1, <3>2, <1>0, <1>7 DEF StateLength, MarkedForRemoval, StewardState, Leaving
  <2>2. CASE ~immediate
    <3>1. state' = [state EXCEPT !.validators_to_remove = @ \cup {i}]
      BY <2>2, Zenon DEF RemoveFromPool
    <3>2. st = "Deactivating"
      BY <2>2
    <3> HIDE DEF st
    <3> QED BY <3>1, <3>2, <1>0, <1>7 DEF StateLength, MarkedForRemoval, StewardState, Leaving
  <2> QED BY <2>1, <2>2
<1> HIDE DEF st
<1>9. Distinct'
  BY <1>0, <1>2, <1>4, <1>8 DEF Distinct
<1>10. SameOrder'
  BY <1>0, <1>4, <1>5 DEF SameOrder
<1>11. Marks'
  <2> SUFFICES ASSUME NEW j \in Indices
               PROVE  j \in MarkedForRemoval(state') <=>
                        /\ j \in Used
                        /\ \A k \in Places : Stands(j, k) => list'[k].status # "Active"
    BY <1>4, <1>5 DEF Marks
  <2>1. CASE j = i
    BY <2>1, <1>0, <1>2, <1>3, <1>6, <1>8
  <2>2. CASE j # i
    <3>1. j \in MarkedForRemoval(state') <=> j \in MarkedForRemoval(state)
      BY <2>2, <1>8
    <3>2. \A k \in Places : j \in Used /\ Stands(j, k) => list'[k].status = list[k].status
      BY <2>2, <1>2, <1>6, <1>0 DEF Used, Indices
    <3> QED BY <3>1, <3>2, <1>0 DEF Marks
  <2> QED BY <2>1, <2>2
<1>12. Leaving'
  <2>1. ASSUME NEW j \in state'.validators_to_remove
        PROVE  \E k \in Places : Stands(j, k) /\ list'[k].status = "Deactivating"
    <3>1. CASE j = i /\ st = "Deactivating"
      BY <3>1, <1>0, <1>2, <1>6
    <3>2. CASE j \in state.validators_to_remove
      <4>1. PICK k \in Places : Stands(j, k) /\ list[k].status = "Deactivating"
        BY <3>2, <1>0 DEF Leaving
      <4>2. k # i + 1
        BY <4>1, <1>0
      <4> QED BY <4>1, <4>2, <1>2
    <3> QED BY <1>8, <2>1, <3>1, <3>2
  <2>2. ASSUME NEW j \in state'.validators_for_immediate_removal, NEW k \in Places, Stands(j, k)
        PROVE  list'[k].status \in {"Inactive", "ReadyForRemoval"}
    <3>1. CASE j = i /\ st = "Inactive"
      BY <2>2, <3>1, <1>0, <1>2, <1>6
    <3>2. CASE j \in state.validators_for_immediate_removal
      <4>1. list[k].status \in {"Inactive", "ReadyForRemoval"}
        BY <2>2, <3>2, <1>0 DEF Leaving
      <4>2. k # i + 1
        BY <4>1, <1>0
      <4> QED BY <4>1, <4>2, <1>2
    <3> QED BY <1>8, <2>2, <3>1, <3>2
  <2> QED BY <1>4, <1>5, <1>8, <2>1, <2>2 DEF Leaving
<1> QED BY <1>9, <1>10, <1>11, <1>12 DEF MembershipInv

\* cleanup_removed_validator_entries takes out entries that are marked already, and
\* leaves the order of the others.
LEMMA CleanupKeepsMembership ==
  ASSUME TypeOK, MembershipInv, CleanupRemovedValidatorEntries
  PROVE  MembershipInv'
<1>0. /\ UNCHANGED <<state, clock, owners>> /\ list \in Seq(ValidatorStakeInfo)
      /\ Distinct /\ SameOrder /\ Marks /\ Leaving
  BY DEF TypeOK, CleanupRemovedValidatorEntries, MembershipInv
<1>1. PICK from \in [Places' -> {k \in Places : list[k].status # "ReadyForRemoval"}] :
        /\ \A m, n \in Places' : m < n => from[m] < from[n]
        /\ \A k \in Places : list[k].status # "ReadyForRemoval" =>
              \E n \in Places' : from[n] = k
        /\ \A n \in Places' : list'[n] = list[from[n]]
  BY <1>0, CleanupKeeps DEF Places
<1>2. Used' = Used
  BY <1>0 DEF Used
<1>3. \A n \in Places' : from[n] \in Places /\ from[n] \in Int /\ n \in Int
  BY <1>1 DEF Places
<1>4. \A i, n : n \in Places' => (Stands(i, n)' <=> Stands(i, from[n]))
  BY <1>0, <1>1 DEF Stands
<1>5. \A m, n \in Places' : from[m] < from[n] <=> m < n
  BY <1>1, <1>3
<1>6. Distinct'
  <2>1. ASSUME NEW k \in Places', NEW m \in Places', list'[k].vote = list'[m].vote
        PROVE  k = m
    <3>1. from[k] = from[m]
      BY <2>1, <1>0, <1>1, <1>3 DEF Distinct
    <3> QED BY <3>1, <1>3, <1>5
  <2> QED BY <1>0, <1>2, <2>1 DEF Distinct
<1>7. SameOrder'
  <2>1. \A n \in Places' : \E i \in Used : Stands(i, n)'
    BY <1>0, <1>3, <1>4 DEF SameOrder
  <2>2. ASSUME NEW i \in Used, NEW j \in Used, NEW k \in Places', NEW m \in Places',
               Stands(i, k)', Stands(j, m)'
        PROVE  i < j <=> k < m
    <3>1. i < j <=> from[k] < from[m]
      BY <2>2, <1>0, <1>3, <1>4 DEF SameOrder
    <3> QED BY <3>1, <1>5
  <2> QED BY <1>2, <2>1, <2>2 DEF SameOrder
<1>8. Marks'
  <2> SUFFICES ASSUME NEW i \in Used
               PROVE  (\A k \in Places : Stands(i, k) => list[k].status # "Active") <=>
                        \A n \in Places' : Stands(i, n)' => list'[n].status # "Active"
    BY <1>0, <1>2 DEF Marks
  <2>1. ASSUME \A k \in Places : Stands(i, k) => list[k].status # "Active", NEW n \in Places', Stands(i, n)'
        PROVE  list'[n].status # "Active"
    BY <2>1, <1>1, <1>3, <1>4
  <2>2. ASSUME \A n \in Places' : Stands(i, n)' => list'[n].status # "Active",
               NEW k \in Places, Stands(i, k)
        PROVE  list[k].status # "Active"
    <3>1. CASE list[k].status = "ReadyForRemoval"
      BY <3>1
    <3>2. CASE list[k].status # "ReadyForRemoval"
      <4>1. PICK n \in Places' : from[n] = k
        BY <3>2, <1>1
      <4> QED BY <4>1, <2>2, <1>1, <1>4
    <3> QED BY <3>1, <3>2
  <2> QED BY <2>1, <2>2
<1>9. Leaving'
  <2>1. ASSUME state.current_epoch = clock.epoch, NEW i \in state.validators_to_remove
        PROVE  \E n \in Places' : Stands(i, n)' /\ list'[n].status = "Deactivating"
    <3>1. PICK k \in Places : Stands(i, k) /\ list[k].status = "Deactivating"
      BY <1>0, <2>1 DEF Leaving
    <3>2. PICK n \in Places' : from[n] = k
      BY <3>1, <1>1
    <3> QED BY <3>1, <3>2, <1>1, <1>4
  <2>2. ASSUME NEW i \in state.validators_for_immediate_removal, NEW n \in Places', Stands(i, n)'
        PROVE  list'[n].status \in {"Inactive", "ReadyForRemoval"}
    BY <2>2, <1>0, <1>1, <1>3, <1>4 DEF Leaving
  <2> QED BY <1>0, <2>1, <2>2 DEF Leaving
<1> QED BY <1>6, <1>7, <1>8, <1>9 DEF MembershipInv

\* The clock and the stake pool's own instructions.
LEMMA EnvironmentKeepsMembership ==
  ASSUME TypeOK, Sound(state, clock), MembershipInv, Environment
  PROVE  MembershipInv'
<1>0. /\ state.current_epoch \in Nat /\ clock.epoch \in Nat /\ state.current_epoch <= clock.epoch
      /\ Len(list) \in Nat /\ list \in Seq(ValidatorStakeInfo)
  BY DEF TypeOK, Sound, StewardState, Clock, NotAhead
<1>1. \A k \in Places : list[k] \in ValidatorStakeInfo
  BY <1>0 DEF Places
<1>2. CASE NextSlot \/ \E v \in Closable : CloseVoteAccount(v)
  <2>1. UNCHANGED <<state, list, owners>> /\ clock'.epoch = clock.epoch
    BY <1>2 DEF NextSlot, CloseVoteAccount
  <2>2. SameBooks(state, state')
    BY <2>1 DEF SameBooks
  <2> QED BY <2>1, <2>2, MembershipSame
<1>3. CASE NextEpoch
  <2>1. /\ UNCHANGED <<state, owners>> /\ clock'.epoch = clock.epoch + 1
        /\ list' = [k \in Places |->
                      IF list[k].status = "Deactivating"
                      THEN [list[k] EXCEPT !.status = "Inactive"] ELSE list[k]]
    BY <1>3 DEF NextEpoch, Places
  <2>2. /\ Len(list') = Len(list)
        /\ \A k \in Places : list'[k].vote = list[k].vote
        /\ \A k \in Places : list'[k].status = "Active" <=> list[k].status = "Active"
        /\ \A k \in Places : list[k].status \in {"Inactive", "ReadyForRemoval"} =>
                             list'[k].status \in {"Inactive", "ReadyForRemoval"}
    BY <1>0, <1>1, <2>1 DEF Places, ValidatorStakeInfo
  <2>3. state.current_epoch # clock'.epoch
    BY <1>0, <2>1
  <2> QED BY <2>1, <2>2, <2>3, RestatusKeepsMembership
<1>4. CASE UpdateStakePool
  <2>1. /\ UNCHANGED <<state, owners, clock>>
        /\ list' = [k \in Places |->
                      IF list[k].status = "Inactive"
                      THEN [list[k] EXCEPT !.status = "ReadyForRemoval"] ELSE list[k]]
    BY <1>4 DEF UpdateStakePool, Places
  <2>2. /\ Len(list') = Len(list)
        /\ \A k \in Places : list'[k].vote = list[k].vote
        /\ \A k \in Places : list'[k].status = "Active" <=> list[k].status = "Active"
        /\ \A k \in Places : list[k].status = "Deactivating" => list'[k].status = "Deactivating"
        /\ \A k \in Places : list[k].status \in {"Inactive", "ReadyForRemoval"} =>
                             list'[k].status \in {"Inactive", "ReadyForRemoval"}
    BY <1>0, <1>1, <2>1 DEF Places, ValidatorStakeInfo
  <2> QED BY <2>1, <2>2, RestatusKeepsMembership
<1>5. CASE CleanupRemovedValidatorEntries
  BY <1>5, CleanupKeepsMembership
<1> QED BY <1>2, <1>3, <1>4, <1>5 DEF Environment
-----------------------------------------------------------------------------
\* Where index j of the state was before index i was taken out.
Before(i, j) == IF j < i THEN j ELSE j + 1

\* What remove_validator does to the owners: the indices above the one it takes out
\* move down.
LEMMA RemovalRenumbers ==
  ASSUME NEW o \in Seq(Votes), NEW i \in 0 .. Len(o) - 1
  PROVE  /\ Len(RemoveIndex(o, i)) = Len(o) - 1
         /\ \A j \in 0 .. Len(o) - 2 : RemoveIndex(o, i)[j + 1] = o[Before(i, j) + 1]
         /\ \A j \in 0 .. Len(o) - 2 : Before(i, j) \in 0 .. Len(o) - 1 /\ Before(i, j) # i
         /\ \A j \in 0 .. Len(o) - 1 : j # i => \E k \in 0 .. Len(o) - 2 : Before(i, k) = j
         /\ \A j, k \in 0 .. Len(o) - 2 : j < k <=> Before(i, j) < Before(i, k)
<1>0. Len(o) \in Nat
  OBVIOUS
<1>1. Len(RemoveIndex(o, i)) = Len(o) - 1
  BY DEF RemoveIndex
<1>2. ASSUME NEW j \in 0 .. Len(o) - 2
      PROVE  /\ RemoveIndex(o, i)[j + 1] = o[Before(i, j) + 1]
             /\ Before(i, j) \in 0 .. Len(o) - 1 /\ Before(i, j) # i
  BY DEF RemoveIndex, Before
<1>3. ASSUME NEW j \in 0 .. Len(o) - 1, j # i PROVE \E k \in 0 .. Len(o) - 2 : Before(i, k) = j
  <2>1. CASE j < i
    <3>1. j \in 0 .. Len(o) - 2 /\ Before(i, j) = j
      BY <2>1 DEF Before
    <3> QED BY <3>1
  <2>2. CASE j > i
    <3>1. j - 1 \in 0 .. Len(o) - 2 /\ Before(i, j - 1) = j
      BY <2>2 DEF Before
    <3> QED BY <3>1
  <2> QED BY <1>3, <2>1, <2>2
<1>4. \A j, k \in 0 .. Len(o) - 2 : j < k <=> Before(i, j) < Before(i, k)
  BY <1>0 DEF Before
<1> QED BY <1>1, <1>2, <1>3, <1>4

\* What it does to a bitmask of n bits.
LEMMA RemovalShifts ==
  ASSUME NEW n \in Nat, n <= MaxValidators, NEW bits \in SUBSET (0 .. n - 1), NEW i \in 0 .. n - 1
  PROVE  \A j : j \in ShiftBits(bits, i, n - 1) <=> j \in 0 .. n - 2 /\ Before(i, j) \in bits
<1> SUFFICES ASSUME NEW j
             PROVE  j \in ShiftBits(bits, i, n - 1) <=> j \in 0 .. n - 2 /\ Before(i, j) \in bits
  OBVIOUS
<1>1. 0 .. n - 2 \subseteq Indices /\ n - 1 \in Nat
  BY ParametersAssumption DEF Indices
<1>2. CASE j \in 0 .. n - 2
  BY <1>1, <1>2 DEF ShiftBits, Before
<1>3. CASE j \notin 0 .. n - 2
  BY <1>1, <1>3, ParametersAssumption DEF ShiftBits, Before, Indices
<1> QED BY <1>2, <1>3

\* Taking an index out of the state whose validator has left the list.
LEMMA RemovalKeepsMembership ==
  ASSUME TypeOK, MembershipInv, NEW i \in Used, \A k \in Places : ~Stands(i, k),
         owners' = RemoveIndex(owners, i), UNCHANGED list,
         StateLength(state') = StateLength(state) - 1,
         state'.validators_to_remove =
           ShiftBits(state.validators_to_remove, i, StateLength(state) - 1),
         state'.validators_for_immediate_removal =
           ShiftBits(state.validators_for_immediate_removal, i, StateLength(state) - 1),
         state'.current_epoch = clock'.epoch =>
           state.current_epoch = clock.epoch \/ state'.validators_to_remove = {}
  PROVE  MembershipInv'
<1> DEFINE n == Len(owners)
           a == state.validators_to_remove
           b == state.validators_for_immediate_removal
<1>0. /\ n \in Nat /\ n <= MaxValidators /\ StateLength(state) = n /\ owners \in Seq(Votes)
      /\ state \in StewardState /\ Used = 0 .. n - 1 /\ i \in 0 .. n - 1
      /\ Distinct /\ SameOrder /\ Marks /\ Leaving
  BY DEF TypeOK, MembershipInv, Distinct, Used
<1>1. a \in SUBSET (0 .. n - 1) /\ b \in SUBSET (0 .. n - 1)
  BY <1>0 DEF Marks, MarkedForRemoval, StewardState
<1> HIDE DEF n, a, b
<1>2. /\ Len(RemoveIndex(owners, i)) = n - 1
      /\ \A j \in 0 .. n - 2 : RemoveIndex(owners, i)[j + 1] = owners[Before(i, j) + 1]
      /\ \A j \in 0 .. n - 2 : Before(i, j) \in 0 .. n - 1 /\ Before(i, j) # i
      /\ \A j \in 0 .. n - 1 : j # i => \E k \in 0 .. n - 2 : Before(i, k) = j
      /\ \A j, k \in 0 .. n - 2 : j < k <=> Before(i, j) < Before(i, k)
  BY <1>0, RemovalRenumbers, Zenon DEF n
<1>3. /\ \A j : j \in state'.validators_to_remove <=> j \in 0 .. n - 2 /\ Before(i, j) \in a
      /\ \A j : j \in state'.validators_for_immediate_removal <=>
                  j \in 0 .. n - 2 /\ Before(i, j) \in b
  <2>1. /\ state'.validators_to_remove = ShiftBits(a, i, n - 1)
        /\ state'.validators_for_immediate_removal = ShiftBits(b, i, n - 1)
    BY <1>0 DEF a, b
  <2>2. \A j : j \in ShiftBits(a, i, n - 1) <=> j \in 0 .. n - 2 /\ Before(i, j) \in a
    BY <1>0, <1>1, RemovalShifts
  <2>3. \A j : j \in ShiftBits(b, i, n - 1) <=> j \in 0 .. n - 2 /\ Before(i, j) \in b
    BY <1>0, <1>1, RemovalShifts
  <2> QED BY <2>1, <2>2, <2>3
<1>4. Len(owners') = n - 1 /\ Used' = 0 .. n - 2 /\ Places' = Places
  BY <1>0, <1>2 DEF Used, Places
<1>5. \A j \in Used' : Before(i, j) \in Used /\ Before(i, j) # i
                       /\ owners'[j + 1] = owners[Before(i, j) + 1]
  BY <1>0, <1>2, <1>4
<1>6. \A j \in Used : j # i => \E k \in Used' : Before(i, k) = j
  BY <1>0, <1>2, <1>4
<1>7. \A j \in Used', k \in Places : Stands(j, k)' <=> Stands(Before(i, j), k)
  BY <1>5 DEF Stands
<1>8. \A j, k \in Used' : j < k <=> Before(i, j) < Before(i, k)
  BY <1>2, <1>4
<1>9. Distinct'
  <2>1. ASSUME NEW j \in Used', NEW k \in Used', owners'[j + 1] = owners'[k + 1]
        PROVE  j = k
    <3>1. Before(i, j) = Before(i, k)
      BY <2>1, <1>0, <1>5 DEF Distinct
    <3>2. j \in Int /\ k \in Int /\ Before(i, j) \in Int
      BY <1>0, <1>4, <1>5
    <3> QED BY <3>1, <3>2, <1>8
  <2>2. Len(owners') = StateLength(state') /\ Len(owners') <= MaxValidators
    BY <1>0, <1>4, ParametersAssumption
  <2> QED BY <2>1, <2>2, <1>0, <1>4 DEF Distinct
<1>10. SameOrder'
  <2>1. ASSUME NEW k \in Places PROVE \E j \in Used' : Stands(j, k)'
    <3>1. PICK j \in Used : Stands(j, k)
      BY <1>0 DEF SameOrder
    <3>2. j # i
      BY <3>1
    <3> QED BY <3>1, <3>2, <1>6, <1>7
  <2>2. ASSUME NEW j \in Used', NEW l \in Used', NEW k \in Places, NEW m \in Places,
               Stands(j, k)', Stands(l, m)'
        PROVE  j < l <=> k < m
    <3>1. Before(i, j) < Before(i, l) <=> k < m
      BY <2>2, <1>0, <1>5, <1>7 DEF SameOrder
    <3> QED BY <3>1, <1>8
  <2> QED BY <1>4, <2>1, <2>2 DEF SameOrder
<1>11. Marks'
  <2> SUFFICES ASSUME NEW j \in Indices
               PROVE  j \in MarkedForRemoval(state') <=>
                        /\ j \in Used'
                        /\ \A k \in Places : Stands(j, k)' => list[k].status # "Active"
    BY <1>4 DEF Marks
  <2>1. j \in MarkedForRemoval(state') <=>
          j \in Used' /\ Before(i, j) \in MarkedForRemoval(state)
    BY <1>3, <1>4 DEF MarkedForRemoval, a, b
  <2>2. ASSUME j \in Used'
        PROVE  Before(i, j) \in MarkedForRemoval(state) <=>
                 \A k \in Places : Stands(Before(i, j), k) => list[k].status # "Active"
    <3>1. Before(i, j) \in Used /\ Before(i, j) \in Indices
      BY <2>2, <1>0, <1>5, ParametersAssumption DEF Indices
    <3> QED BY <3>1, <1>0 DEF Marks
  <2> QED BY <2>1, <2>2, <1>7
<1>12. Leaving'
  <2>1. state'.validators_to_remove \cap state'.validators_for_immediate_removal = {}
    BY <1>0, <1>3 DEF Leaving, a, b
  <2>2. ASSUME state.current_epoch = clock.epoch, NEW j \in state'.validators_to_remove
        PROVE  \E k \in Places : Stands(j, k)' /\ list[k].status = "Deactivating"
    <3>1. j \in Used' /\ Before(i, j) \in state.validators_to_remove
      BY <1>3, <1>4 DEF a
    <3>2. PICK k \in Places : Stands(Before(i, j), k) /\ list[k].status = "Deactivating"
      BY <2>2, <3>1, <1>0 DEF Leaving
    <3> QED BY <3>1, <3>2, <1>7
  <2>3. ASSUME state'.current_epoch = clock'.epoch, NEW j \in state'.validators_to_remove
        PROVE  \E k \in Places' : Stands(j, k)' /\ list'[k].status = "Deactivating"
    BY <2>2, <2>3, <1>4
  <2>4. ASSUME NEW j \in state'.validators_for_immediate_removal, NEW k \in Places', Stands(j, k)'
        PROVE  list'[k].status \in {"Inactive", "ReadyForRemoval"}
    <3>1. j \in Used' /\ Before(i, j) \in state.validators_for_immediate_removal
      BY <1>3, <1>4 DEF b
    <3>2. k \in Places /\ Stands(Before(i, j), k)
      BY <2>4, <3>1, <1>4, <1>7
    <3> QED BY <3>1, <3>2, <1>0 DEF Leaving
  <2> QED BY <2>1, <2>3, <2>4 DEF Leaving
<1> QED BY <1>9, <1>10, <1>11, <1>12 DEF MembershipInv

\* The books after remove_validator.
LEMMA RemoveValidatorBooks ==
  ASSUME NEW s \in StewardState, NEW i \in Indices, CanRemoveValidator(s, i)
  PROVE  LET t == RemoveValidator(s, i)
         IN  /\ StateLength(t) = StateLength(s) - 1
             /\ t.validators_to_remove = ShiftBits(s.validators_to_remove, i, StateLength(s) - 1)
             /\ t.validators_for_immediate_removal =
                  ShiftBits(s.validators_for_immediate_removal, i, StateLength(s) - 1)
             /\ t.current_epoch = s.current_epoch
<1> DEFINE inPool == i < s.num_pool_validators
           num    == IF inPool THEN s.num_pool_validators - 1 ELSE s.num_pool_validators
           added  == IF inPool THEN s.validators_added ELSE s.validators_added - 1
           t == RemoveValidator(s, i)
<1>1. num + added = StateLength(s) - 1
  BY DEF StateLength, StewardState
<1>2. /\ t.num_pool_validators = num /\ t.validators_added = added
      /\ t.validators_to_remove = ShiftBits(s.validators_to_remove, i, num + added)
      /\ t.validators_for_immediate_removal =
           ShiftBits(s.validators_for_immediate_removal, i, num + added)
      /\ t.current_epoch = s.current_epoch
  BY DEF RemoveValidator, StewardState
<1> HIDE DEF t, num, added
<1> QED BY <1>1, <1>2 DEF StateLength, t

\* What instant_remove_validator counts rules out that the validator is in the
\* list: there are as many entries that are leaving as marks for the end of the
\* epoch, and each of these is the mark of one of those entries.
LEMMA InstantlyRemovedIsGone ==
  ASSUME TypeOK, MembershipInv, NEW i \in Indices, InstantRemoveValidator(i)
  PROVE  i \in Used /\ \A k \in Places : ~Stands(i, k)
<1> DEFINE marked == state.validators_to_remove
           away   == {k \in Places : list[k].status # "Active"}
           at(j)  == CHOOSE k \in Places : Stands(j, k) /\ list[k].status = "Deactivating"
           f      == [j \in marked |-> at(j)]
<1>0. /\ state \in StewardState /\ Distinct /\ SameOrder /\ Marks /\ Leaving
      /\ state.current_epoch = clock.epoch
      /\ i \in state.validators_for_immediate_removal
      /\ Cardinality(away) = Cardinality(marked)
  BY DEF TypeOK, MembershipInv, InstantRemoveValidator, InstantRemovalCheck, Places
<1>1. i \in Used /\ i \in MarkedForRemoval(state) /\ marked \subseteq Used /\ i \notin marked
  BY <1>0 DEF Marks, MarkedForRemoval, StewardState, Leaving
<1>2. SUFFICES ASSUME NEW k \in Places, Stands(i, k) PROVE FALSE
  BY <1>1
<1>3. \A j \in marked : at(j) \in Places /\ Stands(j, at(j)) /\ list[at(j)].status = "Deactivating"
  BY <1>0 DEF Leaving
<1> HIDE DEF at
<1>4. k \in away /\ \A j \in marked : at(j) \in away
  BY <1>0, <1>1, <1>2, <1>3 DEF Marks
<1>5. \A j \in marked : at(j) # k
  BY <1>0, <1>1, <1>2, <1>3 DEF Distinct, Stands
<1>6. ASSUME NEW j \in marked, NEW l \in marked, at(j) = at(l) PROVE j = l
  BY <1>0, <1>1, <1>3, <1>6 DEF Distinct, Stands
<1>7. IsFiniteSet(away)
  <2>1. IsFiniteSet(1 .. Len(list))
    BY FS_Interval DEF TypeOK
  <2> QED BY <2>1, FS_Subset DEF Places
<1> DEFINE rest == away \ {k}
<1>8. IsFiniteSet(rest) /\ Cardinality(rest) = Cardinality(away) - 1
  BY <1>4, <1>7, FS_RemoveElement
<1>9. f \in Injection(marked, rest)
  <2>1. f \in [marked -> rest]
    BY <1>4, <1>5
  <2> QED BY <2>1, <1>6 DEF Injection, IsInjective
<1>10. Cardinality(marked) <= Cardinality(rest)
  <2> HIDE DEF f, marked, rest
  <2> QED BY <1>8, <1>9, FS_Injection
<1>11. Cardinality(away) \in Nat
  BY <1>7, FS_CardinalityType
<1> QED BY <1>0, <1>8, <1>10, <1>11

\* The removals, and the maintenance that ends with the last of them.
LEMMA MaintenanceKeepsMembership ==
  ASSUME TypeOK, Sound(state, clock), MembershipInv, Maintenance
  PROVE  MembershipInv'
<1>0. /\ state \in StewardState /\ Distinct /\ SameOrder /\ Marks /\ Leaving
      /\ Len(owners) \in Nat /\ Len(owners) = StateLength(state)
  BY DEF TypeOK, MembershipInv, Distinct
<1>1. ASSUME NEW s \in StewardState
      PROVE  /\ EndMaintenance(s).validators_to_remove = s.validators_to_remove
             /\ EndMaintenance(s).validators_for_immediate_removal =
                  s.validators_for_immediate_removal
             /\ StateLength(EndMaintenance(s)) = StateLength(s)
             /\ \/ EndMaintenance(s).current_epoch = s.current_epoch
                \/ s.validators_to_remove = {}
  BY DEF EndMaintenance, StartEpoch, MarkedForRemoval, StateLength, StewardState
<1>2. ClearMaintenance(state) \in StewardState /\ SameBooks(state, ClearMaintenance(state))
  BY <1>0 DEF ClearMaintenance, SameBooks, StateLength, StewardState
<1>3. ASSUME NEW i \in Indices, CanRemoveValidator(state, i)
      PROVE  i \in Used
  BY <1>0, <1>3 DEF CanRemoveValidator, Used, Indices
<1>4. CASE EpochMaintenance
  <2>1. state' = EndMaintenance(ClearMaintenance(state)) /\ UNCHANGED <<list, owners, clock>>
        /\ state.current_epoch < clock.epoch
    BY <1>4 DEF EpochMaintenance, EpochMaintenanceCheck, PoolUnchanged
  <2>2. /\ state'.validators_to_remove = state.validators_to_remove
        /\ state'.validators_for_immediate_removal = state.validators_for_immediate_removal
        /\ StateLength(state') = StateLength(state)
        /\ state'.current_epoch = state.current_epoch \/ state'.validators_to_remove = {}
    BY <1>1, <1>2, <2>1 DEF SameBooks
  <2>3. CASE state'.current_epoch = state.current_epoch
    <3>1. SameBooks(state, state')
      BY <2>2, <2>3 DEF SameBooks
    <3>2. state'.current_epoch = clock'.epoch => state.current_epoch = clock.epoch
      BY <2>1, <2>3
    <3> QED BY <2>1, <3>1, <3>2, MembershipSame
  <2>4. CASE state'.validators_to_remove = {}
    <3>1. Used' = Used /\ Places' = Places
          /\ MarkedForRemoval(state') = MarkedForRemoval(state)
      BY <2>1, <2>2 DEF Used, Places, MarkedForRemoval
    <3>2. \A i, k : Stands(i, k)' <=> Stands(i, k)
      BY <2>1 DEF Stands
    <3>3. Distinct' /\ SameOrder'
      BY <1>0, <2>1, <2>2, <3>1, <3>2 DEF Distinct, SameOrder
    <3>4. Marks'
      BY <1>0, <2>1, <3>1, <3>2 DEF Marks
    <3>5. Leaving'
      BY <1>0, <2>1, <2>2, <2>4, <3>1, <3>2 DEF Leaving
    <3> QED BY <3>3, <3>4, <3>5 DEF MembershipInv
  <2> QED BY <2>2, <2>3, <2>4
<1>5. ASSUME NEW i \in Indices, EpochMaintenanceRemove(i)
      PROVE  MembershipInv'
  <2> DEFINE s == ClearMaintenance(state)
             t == RemoveValidator(s, i)
  <2>1. /\ CanRemoveValidator(state, i) /\ AllActive /\ state.current_epoch < clock.epoch
        /\ state' = EndMaintenance(t) /\ owners' = RemoveIndex(owners, i)
        /\ UNCHANGED <<list, clock>>
    BY <1>5 DEF EpochMaintenanceRemove, EpochMaintenanceCheck
  <2>2. i \in Used /\ \A k \in Places : ~Stands(i, k)
    <3>1. i \in Used /\ i \in MarkedForRemoval(state)
      BY <1>3, <2>1 DEF CanRemoveValidator
    <3>2. \A k \in Places : list[k].status = "Active"
      BY <2>1 DEF AllActive, Places
    <3> QED BY <1>0, <3>1, <3>2 DEF Marks
  <2>3. CanRemoveValidator(s, i)
    BY <1>2, <2>1 DEF CanRemoveValidator, MarkedForRemoval, SameBooks
  <2>4. t \in StewardState
    <3>1. clock \in Clock
      BY DEF TypeOK
    <3> QED BY <2>3, <3>1, ClearMaintenanceSound, RemoveValidatorSound DEF Sound
  <2>5. /\ StateLength(t) = StateLength(s) - 1
        /\ t.validators_to_remove = ShiftBits(s.validators_to_remove, i, StateLength(s) - 1)
        /\ t.validators_for_immediate_removal =
             ShiftBits(s.validators_for_immediate_removal, i, StateLength(s) - 1)
        /\ t.current_epoch = s.current_epoch
    BY <1>2, <2>3, RemoveValidatorBooks
  <2> HIDE DEF s, t
  <2>6. /\ StateLength(s) = StateLength(state) /\ s.current_epoch = state.current_epoch
        /\ s.validators_to_remove = state.validators_to_remove
        /\ s.validators_for_immediate_removal = state.validators_for_immediate_removal
    BY <1>2 DEF SameBooks, s
  <2>7. /\ StateLength(state') = StateLength(state) - 1
        /\ state'.validators_to_remove =
             ShiftBits(state.validators_to_remove, i, StateLength(state) - 1)
        /\ state'.validators_for_immediate_removal =
             ShiftBits(state.validators_for_immediate_removal, i, StateLength(state) - 1)
        /\ state'.current_epoch = state.current_epoch \/ state'.validators_to_remove = {}
    BY <1>1, <2>1, <2>4, <2>5, <2>6
  <2>8. state'.current_epoch = clock'.epoch =>
          state.current_epoch = clock.epoch \/ state'.validators_to_remove = {}
    BY <2>1, <2>7
  <2> QED BY <2>1, <2>2, <2>7, <2>8, RemovalKeepsMembership
<1>6. ASSUME NEW i \in Indices, InstantRemoveValidator(i)
      PROVE  MembershipInv'
  <2>1. /\ CanRemoveValidator(state, i) /\ state' = RemoveValidator(state, i)
        /\ owners' = RemoveIndex(owners, i) /\ UNCHANGED <<list, clock>>
        /\ state.current_epoch = clock.epoch
    BY <1>6 DEF InstantRemoveValidator, InstantRemovalCheck
  <2>2. i \in Used /\ \A k \in Places : ~Stands(i, k)
    BY <1>6, InstantlyRemovedIsGone
  <2>3. /\ StateLength(state') = StateLength(state) - 1
        /\ state'.validators_to_remove =
             ShiftBits(state.validators_to_remove, i, StateLength(state) - 1)
        /\ state'.validators_for_immediate_removal =
             ShiftBits(state.validators_for_immediate_removal, i, StateLength(state) - 1)
    BY <1>0, <2>1, RemoveValidatorBooks
  <2> QED BY <2>1, <2>2, <2>3, RemovalKeepsMembership
<1> QED BY <1>4, <1>5, <1>6 DEF Maintenance

\* At first the state has the list's validators, and nobody is marked.
LEMMA InitMembership ==
  ASSUME Init
  PROVE  MembershipInv
<1> DEFINE n == Len(InitialPool)
<1>0. n \in Nat /\ n <= MaxValidators /\ InitialPool \in Seq(Votes)
  BY ParametersAssumption
<1>1. /\ owners = InitialPool /\ clock = [epoch |-> 0, slot |-> 0, index |-> 0]
      /\ list = [k \in 1 .. n |-> [vote |-> InitialPool[k], status |-> "Active"]]
      /\ state = FreshState(clock, n)
  BY DEF Init
<1>2. /\ Len(list) = n /\ Len(owners) = n /\ Used = 0 .. n - 1 /\ Places = 1 .. n
      /\ \A k \in 1 .. n : list[k].vote = owners[k] /\ list[k].status = "Active"
  BY <1>0, <1>1 DEF Used, Places
<1>3. /\ StateLength(state) = n /\ MarkedForRemoval(state) = {}
      /\ state.validators_to_remove = {} /\ state.validators_for_immediate_removal = {}
  BY <1>0, <1>1 DEF FreshState, StateLength, MarkedForRemoval
<1>4. \A k, m \in 1 .. n : list[k].vote = list[m].vote => k = m
  BY <1>1, <1>2, ParametersAssumption
<1> HIDE DEF n
<1>5. /\ \A i \in 0 .. n - 1, k \in 1 .. n : owners[i + 1] = list[k].vote <=> k = i + 1
      /\ \A i, j \in 0 .. n - 1 : owners[i + 1] = owners[j + 1] => i = j
  <2>1. n \in Nat /\ \A k \in 1 .. n : owners[k] = list[k].vote
    BY <1>0, <1>2
  <2>2. SameNames(n, owners, list)
    BY <1>4, <2>1 DEF SameNames
  <2>3. Alongside(n, owners, list)
    BY <2>1, <2>2, FromLockstep
  <2> QED BY <2>3 DEF Alongside
<1>6. \A i \in Used, k \in Places : Stands(i, k) <=> k = i + 1
  BY <1>2, <1>5 DEF Stands
<1>7. SameOrder
  <2>1. \A k \in Places : k - 1 \in Used /\ (k - 1) + 1 = k
    BY <1>0, <1>2
  <2>2. ASSUME NEW i \in Used, NEW j \in Used, NEW k \in Places, NEW m \in Places,
               Stands(i, k), Stands(j, m)
        PROVE  i < j <=> k < m
    BY <1>0, <1>2, <1>6, <2>2
  <2> QED BY <1>6, <2>1, <2>2 DEF SameOrder
<1>8. Marks
  <2>1. ASSUME NEW i \in Used PROVE \E k \in Places : Stands(i, k) /\ list[k].status = "Active"
    <3>1. i + 1 \in Places
      BY <1>0, <1>2
    <3> QED BY <1>2, <1>6, <3>1
  <2> QED BY <1>3, <2>1 DEF Marks
<1>9. Distinct /\ Leaving
  BY <1>0, <1>2, <1>3, <1>4, <1>5 DEF Distinct, Leaving
<1> QED BY <1>7, <1>8, <1>9 DEF MembershipInv

\* Every step but the admin's keeps state and list aligned.
LEMMA NextMembership ==
  ASSUME TypeOK, Sound(state, clock), MembershipInv, [Next]_vars
  PROVE  MembershipInv'
<1>1. CASE Crank
  <2>1. SameBooks(state, state') /\ UNCHANGED <<list, owners, clock>>
    BY <1>1, CrankKeepsBooks DEF PoolUnchanged
  <2>2. state'.current_epoch = state.current_epoch
    BY <2>1 DEF SameBooks
  <2> QED BY <2>1, <2>2, MembershipSame
<1>2. CASE Maintenance
  BY <1>2, MaintenanceKeepsMembership
<1>3. CASE Membership
  <2>1. ASSUME NEW i \in Indices, NEW deactivated \in BOOLEAN, NEW immediate \in BOOLEAN,
               AutoRemoveValidatorFromPool(i, deactivated, immediate)
        PROVE  MembershipInv'
    BY <2>1, RemovalMarks DEF AutoRemoveValidatorFromPool
  <2> QED BY <1>3, <2>1, AddKeepsMembership DEF Membership
<1>4. CASE Environment
  BY <1>4, EnvironmentKeepsMembership
<1>5. CASE Pausing \/ UNCHANGED vars
  <2>1. UNCHANGED <<state, list, owners, clock>>
    BY <1>5 DEF Pausing, PauseSteward, ResumeSteward, vars
  <2>2. SameBooks(state, state')
    BY <2>1 DEF SameBooks
  <2> QED BY <2>1, <2>2, MembershipSame
<1> QED BY <1>1, <1>2, <1>3, <1>4, <1>5 DEF Next

\* The invariant, for every behaviour without the admin's own changes.
LEMMA SpecMembership == Spec => [](TypeOK /\ Sound(state, clock) /\ MembershipInv)
<1>1. Init => TypeOK /\ Sound(state, clock) /\ MembershipInv
  BY InitSound, InitMembership
<1>2. (TypeOK /\ Sound(state, clock) /\ MembershipInv) /\ [Next]_vars
        => (TypeOK /\ Sound(state, clock) /\ MembershipInv)'
  BY NextSound, NextMembership DEF AdminNext
<1> QED BY <1>1, <1>2, PTL DEF Spec

\* The indices of the state name the validators of the stake pool's list, in its
\* order and apart from marked ones, while anybody joins, leaves, deactivates and is
\* cleaned up in any phase, and removals are half done at any point.
THEOREM StateMatchesList == Spec => []OneToOne
<1>1. MembershipInv => OneToOne
  BY DEF MembershipInv, Distinct, Marks, OneToOne
<1> QED BY <1>1, SpecMembership, PTL
-----------------------------------------------------------------------------
(* Progress follows the validators *)

\* The phases that go through the pool one validator at a time.
Phases == {"ComputeScores", "ComputeInstantUnstake", "Rebalance"}

\* A transition that stays in its phase does nothing.
LEMMA TransitionInPhase ==
  ASSUME NEW s \in StewardState, NEW c, s.state_tag \in Phases,
         Transition(s, c).state_tag = s.state_tag
  PROVE  Transition(s, c) = s
<1>1. CASE s.state_tag = "ComputeScores"
  BY <1>1 DEF Transition, TransitionComputeScores, StewardState
<1>2. CASE s.state_tag = "ComputeInstantUnstake"
  BY <1>2 DEF Transition, TransitionComputeInstantUnstake, StewardState
<1>3. CASE s.state_tag = "Rebalance"
  BY <1>3 DEF Transition, TransitionRebalance, StewardState
<1> QED BY <1>1, <1>2, <1>3 DEF Phases

\* A crank that stays in its phase, and does not start it over, only adds progress.
LEMMA CrankAddsProgress ==
  ASSUME TypeOK, Crank, state.state_tag \in Phases, state'.state_tag = state.state_tag,
         state'.start_computing_scores_slot = state.start_computing_scores_slot,
         state.progress # {}
  PROVE  /\ state.progress \subseteq state'.progress
         /\ state'.num_pool_validators = state.num_pool_validators
         /\ UNCHANGED owners
<1>0. state \in StewardState /\ clock \in Clock
  BY DEF TypeOK
<1>1. ASSUME NEW s \in StewardState, s.state_tag = state.state_tag, state' = Transition(s, clock)
      PROVE  state' = s
  BY <1>1, TransitionInPhase
<1>2. CASE ComputeScoreForcesTransition \/ Idle \/ UncheckedTransition
  BY <1>0, <1>1, <1>2 DEF ComputeScoreForcesTransition, Idle, UncheckedTransition, PoolUnchanged
<1>3. ASSUME NEW i \in Indices, ComputeScore(i)
      PROVE  /\ state.progress \subseteq state'.progress
             /\ state'.num_pool_validators = state.num_pool_validators
             /\ UNCHANGED owners
  <2> DEFINE s == StartOfScoring(state, clock)
             t == [s EXCEPT !.progress = @ \cup {i}]
  <2>1. /\ state' = Transition(t, clock) /\ UNCHANGED owners /\ state.state_tag = "ComputeScores"
        /\ clock.epoch = state.current_epoch
    BY <1>3 DEF ComputeScore, StateChecks, RemoveValidatorCheck, PoolUnchanged
  <2>2. CASE s = state
    <3>1. t \in StewardState /\ t.state_tag = state.state_tag
          /\ t.progress = state.progress \cup {i}
          /\ t.num_pool_validators = state.num_pool_validators
      BY <1>0, <2>2 DEF StewardState
    <3> HIDE DEF t
    <3> QED BY <1>1, <2>1, <3>1
  <2>3. CASE s # state
    <3>1. clock.slot - state.start_computing_scores_slot > ComputeScoreSlotRange
      <4>1. clock.epoch \in Nat /\ state.current_epoch \in Nat
        BY <1>0 DEF Clock, StewardState
      <4> QED BY <2>1, <2>3, <4>1 DEF StartOfScoring
    <3>2. clock.slot # state.start_computing_scores_slot /\ clock.slot \in Nat
      BY <1>0, <3>1, ParametersAssumption DEF Clock, StewardState
    <3> DEFINE f == state.status_flags \cap {"EPOCH_MAINTENANCE", "REBALANCE_DIRECTED_COMPLETE"}
               n == clock.epoch + NumEpochsBetweenScoring
    <3>3. s = [state EXCEPT !.progress = {}, !.next_cycle_epoch = n,
                            !.start_computing_scores_slot = clock.slot,
                            !.instant_unstake = {}, !.status_flags = f,
                            !.num_pool_validators = Len(list), !.validators_added = 0]
      BY <2>3 DEF StartOfScoring, ResetStateForNewCycle
    <3>4. f \in SUBSET Flags /\ n \in Nat /\ Len(list) \in Nat
      BY <1>0, ParametersAssumption DEF StewardState, Clock, TypeOK
    <3> HIDE DEF f, n, s
    <3>5. s \in StewardState
      BY <1>0, <3>2, <3>3, <3>4 DEF StewardState
    <3>6. s.state_tag = state.state_tag /\ s.start_computing_scores_slot = clock.slot
      BY <1>0, <3>3 DEF StewardState
    <3>7. t \in StewardState /\ t.state_tag = state.state_tag
          /\ t.start_computing_scores_slot = clock.slot
      BY <3>5, <3>6 DEF StewardState
    <3> HIDE DEF t
    <3> QED BY <1>1, <2>1, <3>2, <3>7
  <2> QED BY <2>2, <2>3
<1>4. CASE ComputeDelegations
  BY <1>4 DEF ComputeDelegations, Phases
<1>5. ASSUME NEW i \in Indices, NEW unstake \in BOOLEAN, ComputeInstantUnstake(i, unstake)
      PROVE  /\ state.progress \subseteq state'.progress
             /\ state'.num_pool_validators = state.num_pool_validators
             /\ UNCHANGED owners
  <2> DEFINE iu == IF i \in MarkedForRemoval(state) THEN state.instant_unstake
                   ELSE IF unstake THEN state.instant_unstake \cup {i}
                                   ELSE state.instant_unstake \ {i}
             s  == [state EXCEPT !.instant_unstake = iu, !.progress = @ \cup {i}]
  <2>1. (state' = state \/ state' = Transition(s, clock)) /\ UNCHANGED owners
    BY <1>5 DEF ComputeInstantUnstake, PoolUnchanged
  <2>2. iu \in SUBSET Indices
    BY <1>0 DEF StewardState
  <2> HIDE DEF iu
  <2>3. /\ s \in StewardState /\ s.state_tag = state.state_tag
        /\ s.progress = state.progress \cup {i}
        /\ s.num_pool_validators = state.num_pool_validators
    BY <1>0, <2>2 DEF StewardState
  <2> HIDE DEF s
  <2> QED BY <1>1, <2>1, <2>3
<1>6. ASSUME NEW i \in Indices, Rebalance(i) \/ RebalanceTransient(i)
      PROVE  /\ state.progress \subseteq state'.progress
             /\ state'.num_pool_validators = state.num_pool_validators
             /\ UNCHANGED owners
  <2> DEFINE s == [state EXCEPT !.progress = @ \cup {i}]
  <2>1. (state' = s \/ state' = Transition(s, clock)) /\ UNCHANGED owners
    BY <1>6 DEF Rebalance, RebalanceTransient, PoolUnchanged
  <2>2. /\ s \in StewardState /\ s.state_tag = state.state_tag
        /\ s.progress = state.progress \cup {i}
        /\ s.num_pool_validators = state.num_pool_validators
    BY <1>0 DEF StewardState
  <2> HIDE DEF s
  <2> QED BY <1>1, <2>1, <2>2
<1>7. ASSUME NEW s \in StewardState, s.state_tag = state.state_tag, NEW all \in BOOLEAN,
             s.progress = state.progress, s.num_pool_validators = state.num_pool_validators
      PROVE  LET t == SetDirectedComplete(s, all)
             IN  /\ t \in StewardState /\ t.state_tag = state.state_tag
                 /\ t.progress = state.progress
                 /\ t.num_pool_validators = state.num_pool_validators
  BY <1>7 DEF SetDirectedComplete, StewardState, Flags
<1>8. ASSUME NEW all \in BOOLEAN, RebalanceDirectedMissing(all)
      PROVE  /\ state.progress \subseteq state'.progress
             /\ state'.num_pool_validators = state.num_pool_validators
             /\ UNCHANGED owners
  <2> DEFINE t == SetDirectedComplete(state, all)
  <2>1. state' = Transition(t, clock) /\ UNCHANGED owners
    BY <1>8 DEF RebalanceDirectedMissing, PoolUnchanged
  <2>2. /\ t \in StewardState /\ t.state_tag = state.state_tag /\ t.progress = state.progress
        /\ t.num_pool_validators = state.num_pool_validators
    BY <1>0, <1>7
  <2> HIDE DEF t
  <2> QED BY <1>1, <2>1, <2>2
<1>9. ASSUME NEW before \in BOOLEAN, NEW after \in BOOLEAN, RebalanceDirected(before, after)
      PROVE  FALSE
  BY <1>9 DEF RebalanceDirected, Phases
<1> QED BY <1>2, <1>3, <1>4, <1>5, <1>6, <1>8, <1>9 DEF Crank

\* A removal takes the progress of everybody else along.
LEMMA RemovalTakesProgressAlong ==
  ASSUME NEW s \in StewardState, NEW o \in Seq(Votes), NEW i \in Indices,
         Len(o) = StateLength(s), Len(o) <= MaxValidators, CanRemoveValidator(s, i),
         \A j, k \in 0 .. Len(o) - 1 : o[j + 1] = o[k + 1] => j = k
  PROVE  LET t == RemoveValidator(s, i)
             p == RemoveIndex(o, i)
         IN  /\ Done(s, o) \cap InPool(t, p) \subseteq Done(t, p)
             /\ Done(t, p) \subseteq Done(s, o)
<1> DEFINE t == RemoveValidator(s, i)
           p == RemoveIndex(o, i)
           n == s.num_pool_validators
           m == IF i < n THEN n - 1 ELSE n
<1>0. /\ n \in Nat /\ Len(o) \in Nat /\ n <= Len(o) /\ i \in 0 .. Len(o) - 1
      /\ s.progress \subseteq Indices /\ m \in Nat /\ m <= Len(o) - 1
  BY DEF StateLength, StewardState, CanRemoveValidator, Indices
<1>1. t.num_pool_validators = m /\ t.progress = ShiftBits(s.progress, i, m)
  BY DEF RemoveValidator, StewardState
<1>2. \A j \in 0 .. m - 1 :
        /\ j \in t.progress <=> Before(i, j) \in s.progress
        /\ Before(i, j) \in 0 .. n - 1
  <2> SUFFICES ASSUME NEW j \in 0 .. m - 1
               PROVE  /\ j \in t.progress <=> Before(i, j) \in s.progress
                      /\ Before(i, j) \in 0 .. n - 1
    OBVIOUS
  <2>1. j \in Indices
    BY <1>0, ParametersAssumption DEF Indices
  <2> QED BY <1>0, <1>1, <2>1 DEF ShiftBits, Before
<1>3. \A j \in 0 .. Len(o) - 2 : p[j + 1] = o[Before(i, j) + 1]
  BY <1>0, RemovalRenumbers, Zenon
<1>4. \A j \in 0 .. m - 1 : p[j + 1] = o[Before(i, j) + 1] /\ Before(i, j) \in 0 .. Len(o) - 1
  BY <1>0, <1>2, <1>3
<1> HIDE DEF t, p, m, n
<1>5. Done(t, p) \subseteq Done(s, o)
  <2> SUFFICES ASSUME NEW j \in t.progress, j < t.num_pool_validators
               PROVE  p[j + 1] \in Done(s, o)
    BY DEF Done
  <2>1. j \in 0 .. m - 1
    BY <1>0, <1>1 DEF ShiftBits, Indices
  <2>2. Before(i, j) \in s.progress /\ Before(i, j) < s.num_pool_validators
    BY <1>0, <1>2, <2>1 DEF n
  <2> QED BY <1>4, <2>1, <2>2 DEF Done
<1>6. Done(s, o) \cap InPool(t, p) \subseteq Done(t, p)
  <2> SUFFICES ASSUME NEW j \in s.progress, j < s.num_pool_validators,
                      NEW k \in 1 .. m, o[j + 1] = p[k]
               PROVE  p[k] \in Done(t, p)
    BY <1>1 DEF Done, InPool
  <2>1. k - 1 \in 0 .. m - 1 /\ (k - 1) + 1 = k /\ j \in 0 .. Len(o) - 1
    BY <1>0 DEF Indices, n
  <2>2. Before(i, k - 1) = j
    BY <1>4, <2>1
  <2>3. k - 1 \in t.progress /\ k - 1 < t.num_pool_validators
    BY <1>0, <1>1, <1>2, <2>1, <2>2
  <2> QED BY <2>1, <2>3 DEF Done
<1> QED BY <1>5, <1>6 DEF t, p

\* What a step may do to the progress of a phase that goes on.
ProgressFollows ==
  /\ Done(state, owners) \cap InPool(state', owners') \subseteq Done(state', owners')
  /\ owners' # owners => Done(state', owners') \subseteq Done(state, owners)

\* Every step, in a phase that goes on and is not started over.
LEMMA NextFollows ==
  ASSUME TypeOK, Sound(state, clock), MembershipInv, [Next]_vars,
         state.state_tag \in Phases, state'.state_tag = state.state_tag,
         state'.current_epoch = state.current_epoch,
         state'.start_computing_scores_slot = state.start_computing_scores_slot,
         state.progress # {}
  PROVE  ProgressFollows
<1>0. /\ state \in StewardState /\ owners \in Seq(Votes) /\ clock \in Clock
      /\ Len(owners) = StateLength(state) /\ Len(owners) <= MaxValidators
      /\ Len(owners) \in Nat
      /\ \A j, k \in 0 .. Len(owners) - 1 : owners[j + 1] = owners[k + 1] => j = k
  BY DEF TypeOK, MembershipInv, Distinct, Used
<1>1. CASE Crank
  <2>1. /\ state.progress \subseteq state'.progress /\ owners' = owners
        /\ state'.num_pool_validators = state.num_pool_validators
    BY <1>1, CrankAddsProgress
  <2> QED BY <2>1 DEF ProgressFollows, Done
<1>2. ASSUME UNCHANGED owners, state'.progress = state.progress,
             state'.num_pool_validators = state.num_pool_validators
      PROVE  ProgressFollows
  BY <1>2 DEF ProgressFollows, Done
<1>3. ASSUME NEW s \in StewardState, EndMaintenance(s).state_tag = state.state_tag
      PROVE  EndMaintenance(s) = s
  BY <1>3 DEF EndMaintenance, StartEpoch, Phases, StewardState
<1>4. /\ ClearMaintenance(state) \in StewardState
      /\ ClearMaintenance(state).progress = state.progress
      /\ ClearMaintenance(state).num_pool_validators = state.num_pool_validators
      /\ ClearMaintenance(state).validators_added = state.validators_added
      /\ MarkedForRemoval(ClearMaintenance(state)) = MarkedForRemoval(state)
  BY <1>0 DEF ClearMaintenance, MarkedForRemoval, StewardState
<1>5. CASE EpochMaintenance
  <2>1. state' = ClearMaintenance(state) /\ UNCHANGED owners
    BY <1>3, <1>4, <1>5 DEF EpochMaintenance, PoolUnchanged
  <2> QED BY <1>2, <1>4, <2>1
<1>6. ASSUME NEW i \in Indices, EpochMaintenanceRemove(i)
      PROVE  ProgressFollows
  <2> DEFINE s == ClearMaintenance(state)
             t == RemoveValidator(s, i)
  <2>1. CanRemoveValidator(s, i) /\ Len(owners) = StateLength(s)
    BY <1>0, <1>4, <1>6 DEF EpochMaintenanceRemove, CanRemoveValidator, StateLength
  <2>2. t \in StewardState
    BY <1>0, <2>1, ClearMaintenanceSound, RemoveValidatorSound DEF Sound
  <2>3. state' = t /\ owners' = RemoveIndex(owners, i)
    <3>1. state' = EndMaintenance(t) /\ owners' = RemoveIndex(owners, i)
      BY <1>6 DEF EpochMaintenanceRemove
    <3> HIDE DEF t
    <3> QED BY <1>3, <2>2, <3>1
  <2>4. s \in StewardState /\ Done(s, owners) = Done(state, owners)
    BY <1>4 DEF Done
  <2> HIDE DEF s
  <2>5. /\ Done(s, owners) \cap InPool(t, RemoveIndex(owners, i))
             \subseteq Done(t, RemoveIndex(owners, i))
        /\ Done(t, RemoveIndex(owners, i)) \subseteq Done(s, owners)
    BY <1>0, <2>1, <2>4, RemovalTakesProgressAlong
  <2> QED BY <2>3, <2>4, <2>5 DEF ProgressFollows
<1>7. ASSUME NEW i \in Indices, InstantRemoveValidator(i)
      PROVE  ProgressFollows
  <2>1. /\ state' = RemoveValidator(state, i) /\ owners' = RemoveIndex(owners, i)
        /\ CanRemoveValidator(state, i)
    BY <1>7 DEF InstantRemoveValidator, InstantRemovalCheck
  <2>2. /\ Done(state, owners) \cap InPool(RemoveValidator(state, i), RemoveIndex(owners, i))
             \subseteq Done(RemoveValidator(state, i), RemoveIndex(owners, i))
        /\ Done(RemoveValidator(state, i), RemoveIndex(owners, i)) \subseteq Done(state, owners)
    BY <1>0, <2>1, RemovalTakesProgressAlong
  <2> QED BY <2>1, <2>2 DEF ProgressFollows
<1>8. ASSUME NEW v \in Votes, AutoAddValidatorToPool(v)
      PROVE  ProgressFollows
  <2>1. /\ owners' = Append(owners, v) /\ state'.progress = state.progress
        /\ state'.num_pool_validators = state.num_pool_validators
    BY <1>0, <1>8 DEF AutoAddValidatorToPool, AddToPool, StewardState
  <2>2. state.num_pool_validators \in Nat /\ state.num_pool_validators <= Len(owners)
        /\ state.progress \subseteq Indices
    BY <1>0 DEF StateLength, StewardState
  <2>3. \A j \in state.progress : j < state.num_pool_validators => owners'[j + 1] = owners[j + 1]
    BY <1>0, <2>1, <2>2 DEF Indices
  <2>4. Done(state', owners') = Done(state, owners)
    BY <2>1, <2>3 DEF Done
  <2> QED BY <2>4 DEF ProgressFollows
<1>9. ASSUME NEW i \in Indices, NEW deactivated \in BOOLEAN, NEW immediate \in BOOLEAN,
             AutoRemoveValidatorFromPool(i, deactivated, immediate)
      PROVE  ProgressFollows
  <2>1. \/ state' = [state EXCEPT !.validators_for_immediate_removal = @ \cup {i}]
        \/ state' = [state EXCEPT !.validators_to_remove = @ \cup {i}]
    <3>1. CASE immediate
      BY <1>9, <3>1, Zenon DEF AutoRemoveValidatorFromPool, RemoveFromPool
    <3>2. CASE ~immediate
      BY <1>9, <3>2, Zenon DEF AutoRemoveValidatorFromPool, RemoveFromPool
    <3> QED BY <3>1, <3>2
  <2>2. state'.progress = state.progress /\ state'.num_pool_validators = state.num_pool_validators
    BY <1>0, <2>1 DEF StewardState
  <2>3. UNCHANGED owners
    BY <1>9 DEF AutoRemoveValidatorFromPool, RemoveFromPool
  <2> QED BY <1>2, <2>2, <2>3
<1>10. CASE Environment \/ Pausing \/ UNCHANGED vars
  <2>1. UNCHANGED <<state, owners>>
    BY <1>10 DEF Environment, NextSlot, NextEpoch, UpdateStakePool,
         CleanupRemovedValidatorEntries, CloseVoteAccount, Pausing, PauseSteward,
         ResumeSteward, vars
  <2> QED BY <1>2, <2>1
<1> QED BY <1>1, <1>5, <1>6, <1>7, <1>8, <1>9, <1>10 DEF Next, Maintenance, Membership

\* Whoever is removed or added in the middle of a phase, what the phase has done for
\* every other validator of the pool stays done, and a removal makes nobody done.
THEOREM ProgressKept == Spec => ProgressFollowsValidators
<1>1. ASSUME TypeOK, Sound(state, clock), MembershipInv, [Next]_vars
      PROVE  [ /\ state.state_tag \in {"ComputeScores", "ComputeInstantUnstake", "Rebalance"}
               /\ state'.state_tag = state.state_tag
               /\ state'.current_epoch = state.current_epoch
               /\ state'.start_computing_scores_slot = state.start_computing_scores_slot
               /\ state.progress # {}
               => /\ Done(state, owners) \cap InPool(state', owners')
                       \subseteq Done(state', owners')
                  /\ owners' # owners =>
                       Done(state', owners') \subseteq Done(state, owners) ]_vars
  BY <1>1, NextFollows DEF Phases, ProgressFollows
<1> QED BY <1>1, SpecMembership, PTL DEF Spec, ProgressFollowsValidators
-----------------------------------------------------------------------------
(* The keeper's crank: the chain *)

\* What every instruction keeps.
ChainInv == TypeOK /\ Sound(state, clock) /\ MembershipInv

\* A record s that the cranks of one transaction can make out of r.
Kept(r, c, s) == Sound(s, c) /\ SameBooks(r, s)

\* Books that are kept twice are kept.
LEMMA BooksKeptTwice ==
  ASSUME NEW s, NEW t, NEW u, SameBooks(s, t), SameBooks(t, u)
  PROVE  SameBooks(s, u)
BY DEF SameBooks

\* Scoring that starts over counts the validators that were added into the pool.
LEMMA StartOfScoringBooks ==
  ASSUME NEW s \in StewardState, NEW c \in Clock, Len(list) \in Nat,
         StateLength(s) = Len(list)
  PROVE  SameBooks(s, StartOfScoring(s, c))
<1> DEFINE t == StartOfScoring(s, c)
<1>1. CASE t = s
  BY <1>1 DEF SameBooks
<1>2. CASE t # s
  <2> DEFINE f == s.status_flags \cap {"EPOCH_MAINTENANCE", "REBALANCE_DIRECTED_COMPLETE"}
             n == c.epoch + NumEpochsBetweenScoring
  <2>1. t = [s EXCEPT !.progress = {}, !.next_cycle_epoch = n,
                      !.start_computing_scores_slot = c.slot,
                      !.instant_unstake = {}, !.status_flags = f,
                      !.num_pool_validators = Len(list), !.validators_added = 0]
    BY <1>2 DEF StartOfScoring, ResetStateForNewCycle
  <2> HIDE DEF f, n, t
  <2>2. SameBooks(s, t)
    BY <2>1 DEF SameBooks, StateLength, StewardState
  <2> QED BY <2>2 DEF t
<1> QED BY <1>1, <1>2

\* A transition of a record that is kept.
LEMMA TransitionKept ==
  ASSUME clock \in Clock, NEW s, Kept(state, clock, s)
  PROVE  Kept(state, clock, Transition(s, clock))
<1>1. s \in StewardState
  BY DEF Kept, Sound
<1>2. Sound(Transition(s, clock), clock)
  BY TransitionSound DEF Kept
<1>3. SameBooks(s, Transition(s, clock))
  BY <1>1, TransitionKeepsBooks
<1> QED BY <1>2, <1>3, BooksKeptTwice DEF Kept

\* A record in which a validator is marked as processed.
Progressed(s, i) == [s EXCEPT !.progress = @ \cup {i}]

LEMMA ProcessedKept ==
  ASSUME clock \in Clock, NEW s, Kept(state, clock, s), NEW i \in Indices,
         s.current_epoch < s.next_cycle_epoch \/ s.state_tag # "ComputeScores"
  PROVE  Kept(state, clock, Progressed(s, i))
<1> DEFINE t == Progressed(s, i)
<1>1. s \in StewardState
  BY DEF Kept, Sound
<1>2. Sound(t, clock)
  BY ProgressSound DEF Kept, Progressed
<1>3. SameBooks(s, t)
  BY <1>1 DEF SameBooks, StateLength, StewardState, Progressed
<1> HIDE DEF t
<1>4. Kept(state, clock, t)
  BY <1>2, <1>3, BooksKeptTwice DEF Kept
<1> QED BY <1>4 DEF t

\* The checks of an instruction, and an entry that the list has: its index is one of
\* the state's.
LEMMA MatchesIndex ==
  ASSUME ChainInv, NEW s, Kept(state, clock, s), StateLength(s) = Len(list), NEW e, Matches(e)
  PROVE  e.index \in Indices
<1>1. StateLength(s) = Len(owners) /\ Len(owners) <= MaxValidators /\ Len(list) \in Nat
  BY DEF ChainInv, MembershipInv, Distinct, Kept, SameBooks, TypeOK
<1> QED BY <1>1, ParametersAssumption DEF Matches, Indices

\* compute_score in a transaction.
LEMMA ScoreOneKept ==
  ASSUME ChainInv, NEW s, Kept(state, clock, s), NEW e, NEW u \in ScoreOne(s, e)
  PROVE  Kept(state, clock, u)
<1>0. /\ clock \in Clock /\ Len(list) \in Nat /\ s \in StewardState /\ Sound(s, clock)
  BY DEF ChainInv, TypeOK, Kept, Sound
<1>1. ChecksOf(s) /\ Matches(e)
  BY DEF ScoreOne
<1>2. e.index \in Indices /\ clock.epoch = s.current_epoch /\ StateLength(s) = Len(list)
  BY <1>1, MatchesIndex DEF ChecksOf
<1>3. CASE s.state_tag = "ComputeScores"
  <2> DEFINE t == StartOfScoring(s, clock)
             i == e.index
  <2>1. u = Transition(Progressed(t, i), clock)
    BY <1>1, <1>3 DEF ScoreOne, Progressed
  <2>2. Sound(t, clock) /\ t.current_epoch < t.next_cycle_epoch
    BY <1>0, <1>2, <1>3, StartOfScoringSound
  <2>3. SameBooks(s, t)
    BY <1>0, <1>2, StartOfScoringBooks
  <2> HIDE DEF t, i
  <2>4. Kept(state, clock, t)
    BY <2>2, <2>3, BooksKeptTwice DEF Kept
  <2>5. Kept(state, clock, Progressed(t, i))
    <3>1. i \in Indices
      BY <1>2 DEF i
    <3> QED BY <1>0, <2>2, <2>4, <3>1, ProcessedKept
  <2> QED BY <1>0, <2>1, <2>5, TransitionKept
<1>4. CASE s.state_tag # "ComputeScores"
  <2>1. u = Transition(s, clock)
    BY <1>1, <1>4 DEF ScoreOne
  <2> QED BY <1>0, <2>1, TransitionKept
<1> QED BY <1>3, <1>4

\* rebalance in a transaction.
LEMMA RebalanceOneKept ==
  ASSUME ChainInv, NEW s, Kept(state, clock, s), NEW e, NEW u \in RebalanceOne(s, e)
  PROVE  Kept(state, clock, u)
<1>0. clock \in Clock
  BY DEF ChainInv, TypeOK
<1>1. CASE Transitions(s, clock)
  <2>1. u = Transition(s, clock)
    BY <1>1 DEF RebalanceOne
  <2> QED BY <1>0, <2>1, TransitionKept
<1>2. CASE ~Transitions(s, clock)
  <2> DEFINE i == e.index
             t == Progressed(s, i)
  <2>1. ChecksOf(s) /\ Matches(e) /\ s.state_tag = "Rebalance"
        /\ u \in {t} \cup (IF clock.epoch < s.next_cycle_epoch
                           THEN {Transition(t, clock)} ELSE {})
    BY <1>2, Zenon DEF RebalanceOne, Progressed
  <2>2. i \in Indices
    BY <2>1, MatchesIndex DEF ChecksOf
  <2> HIDE DEF i
  <2>3. Kept(state, clock, t)
    BY <1>0, <2>1, <2>2, ProcessedKept
  <2>4. u = t \/ u = Transition(t, clock)
    BY <2>1
  <2> HIDE DEF t
  <2> QED BY <1>0, <2>3, <2>4, TransitionKept
<1> QED BY <1>1, <1>2

\* The records that a transaction of compute_scores can end with are kept.
LEMMA ScoreOneApplied ==
  ASSUME ChainInv, NEW tx, Len(tx) \in Nat, NEW u \in Applied(ScoreOne, tx)
  PROVE  Kept(state, clock, u)
<1> DEFINE K == {s \in StewardState : Kept(state, clock, s)}
           N == Len(tx)
           T == SUBSET K
           base == {state}
           step(p, n) == IF n = 0 THEN {state} ELSE UNION {ScoreOne(s, tx[n]) : s \in p[n - 1]}
           after == CHOOSE p : p = [n \in 0 .. N |-> step(p, n)]
           g == [x \in (1 .. N) \X T |-> UNION {ScoreOne(s, tx[x[1]]) : s \in x[2]}]
<1>1. Applied(ScoreOne, tx) = after[N]
  BY DEF Applied
<1>2. N \in Nat
  OBVIOUS
<1>3. base \in T
  <2>1. Kept(state, clock, state) /\ state \in StewardState
    BY DEF ChainInv, Kept, SameBooks, Sound
  <2> QED BY <2>1
<1>4. \A n, A : A \in T => UNION {ScoreOne(s, tx[n]) : s \in A} \in T
  <2>1. ASSUME NEW n, NEW s \in K, NEW v \in ScoreOne(s, tx[n]) PROVE v \in K
    <3> DEFINE e == tx[n]
    <3>1. Kept(state, clock, s) /\ v \in ScoreOne(s, e)
      OBVIOUS
    <3> HIDE DEF e
    <3>2. Kept(state, clock, v)
      BY <3>1, ScoreOneKept
    <3> QED BY <3>2 DEF Kept, Sound
  <2> HIDE DEF K
  <2> QED BY <2>1
<1>5. g \in [(1 .. N) \X T -> T]
  <2> HIDE DEF T, N
  <2> QED BY <1>4
<1>6. \E p \in [0 .. N -> T] : Along(p, base, g, N)
  <2> HIDE DEF g, T, base, N
  <2> QED BY <1>2, <1>3, <1>5, Recursion
<1>7. PICK p \in [0 .. N -> T] : p[0] = base /\ \A n \in 1 .. N : p[n] = g[<<n, p[n - 1]>>]
  <2> HIDE DEF g, base
  <2> QED BY <1>6 DEF Along
<1>8. p = [n \in 0 .. N |-> step(p, n)]
  <2>1. ASSUME NEW n \in 0 .. N PROVE p[n] = step(p, n)
    <3>1. CASE n = 0
      BY <1>7, <3>1
    <3>2. CASE n # 0
      <4>1. n \in 1 .. N /\ n - 1 \in 0 .. N
        BY <1>2, <3>2
      <4> HIDE DEF T
      <4>2. p[n] = g[<<n, p[n - 1]>>] /\ p[n - 1] \in T
        BY <1>7, <4>1
      <4>3. g[<<n, p[n - 1]>>] = UNION {ScoreOne(s, tx[n]) : s \in p[n - 1]}
        <5> HIDE DEF N
        <5> QED BY <4>1, <4>2
      <4> QED BY <3>2, <4>2, <4>3
    <3> QED BY <3>1, <3>2
  <2> HIDE DEF step
  <2> QED BY <2>1
<1>9. after = [n \in 0 .. N |-> step(after, n)]
  <2> HIDE DEF step
  <2> QED BY <1>8
<1> HIDE DEF after
<1>10. \A n \in 0 .. N : after[n] = step(after, n)
  <2> HIDE DEF step
  <2> QED BY <1>9
<1>11. after[0] \in T
  <2>0. 0 \in 0 .. N
    BY <1>2
  <2>1. after[0] = base
    BY <1>10, <2>0, Zenon
  <2> QED BY <1>3, <2>1
<1>12. \A n \in 1 .. N : after[n - 1] \in T => after[n] \in T
  <2> SUFFICES ASSUME NEW n \in 1 .. N, after[n - 1] \in T PROVE after[n] \in T
    OBVIOUS
  <2>1. n \in 0 .. N /\ n # 0
    BY <1>2
  <2>2. after[n] = UNION {ScoreOne(s, tx[n]) : s \in after[n - 1]}
    BY <1>10, <2>1
  <2>3. UNION {ScoreOne(s, tx[n]) : s \in after[n - 1]} \in T
    BY <1>4, Zenon
  <2> HIDE DEF T
  <2> QED BY <2>2, <2>3
<1>13. after[N] \in T
  <2> HIDE DEF T, N
  <2> QED BY <1>2, <1>11, <1>12, Inherits
<1> QED BY <1>1, <1>13

\* The records that a transaction of rebalances can end with are kept.
LEMMA RebalanceOneApplied ==
  ASSUME ChainInv, NEW tx, Len(tx) \in Nat, NEW u \in Applied(RebalanceOne, tx)
  PROVE  Kept(state, clock, u)
<1> DEFINE K == {s \in StewardState : Kept(state, clock, s)}
           N == Len(tx)
           T == SUBSET K
           base == {state}
           step(p, n) == IF n = 0 THEN {state} ELSE UNION {RebalanceOne(s, tx[n]) : s \in p[n - 1]}
           after == CHOOSE p : p = [n \in 0 .. N |-> step(p, n)]
           g == [x \in (1 .. N) \X T |-> UNION {RebalanceOne(s, tx[x[1]]) : s \in x[2]}]
<1>1. Applied(RebalanceOne, tx) = after[N]
  BY DEF Applied
<1>2. N \in Nat
  OBVIOUS
<1>3. base \in T
  <2>1. Kept(state, clock, state) /\ state \in StewardState
    BY DEF ChainInv, Kept, SameBooks, Sound
  <2> QED BY <2>1
<1>4. \A n, A : A \in T => UNION {RebalanceOne(s, tx[n]) : s \in A} \in T
  <2>1. ASSUME NEW n, NEW s \in K, NEW v \in RebalanceOne(s, tx[n]) PROVE v \in K
    <3> DEFINE e == tx[n]
    <3>1. Kept(state, clock, s) /\ v \in RebalanceOne(s, e)
      OBVIOUS
    <3> HIDE DEF e
    <3>2. Kept(state, clock, v)
      BY <3>1, RebalanceOneKept
    <3> QED BY <3>2 DEF Kept, Sound
  <2> HIDE DEF K
  <2> QED BY <2>1
<1>5. g \in [(1 .. N) \X T -> T]
  <2> HIDE DEF T, N
  <2> QED BY <1>4
<1>6. \E p \in [0 .. N -> T] : Along(p, base, g, N)
  <2> HIDE DEF g, T, base, N
  <2> QED BY <1>2, <1>3, <1>5, Recursion
<1>7. PICK p \in [0 .. N -> T] : p[0] = base /\ \A n \in 1 .. N : p[n] = g[<<n, p[n - 1]>>]
  <2> HIDE DEF g, base
  <2> QED BY <1>6 DEF Along
<1>8. p = [n \in 0 .. N |-> step(p, n)]
  <2>1. ASSUME NEW n \in 0 .. N PROVE p[n] = step(p, n)
    <3>1. CASE n = 0
      BY <1>7, <3>1
    <3>2. CASE n # 0
      <4>1. n \in 1 .. N /\ n - 1 \in 0 .. N
        BY <1>2, <3>2
      <4> HIDE DEF T
      <4>2. p[n] = g[<<n, p[n - 1]>>] /\ p[n - 1] \in T
        BY <1>7, <4>1
      <4>3. g[<<n, p[n - 1]>>] = UNION {RebalanceOne(s, tx[n]) : s \in p[n - 1]}
        <5> HIDE DEF N
        <5> QED BY <4>1, <4>2
      <4> QED BY <3>2, <4>2, <4>3
    <3> QED BY <3>1, <3>2
  <2> HIDE DEF step
  <2> QED BY <2>1
<1>9. after = [n \in 0 .. N |-> step(after, n)]
  <2> HIDE DEF step
  <2> QED BY <1>8
<1> HIDE DEF after
<1>10. \A n \in 0 .. N : after[n] = step(after, n)
  <2> HIDE DEF step
  <2> QED BY <1>9
<1>11. after[0] \in T
  <2>0. 0 \in 0 .. N
    BY <1>2
  <2>1. after[0] = base
    BY <1>10, <2>0, Zenon
  <2> QED BY <1>3, <2>1
<1>12. \A n \in 1 .. N : after[n - 1] \in T => after[n] \in T
  <2> SUFFICES ASSUME NEW n \in 1 .. N, after[n - 1] \in T PROVE after[n] \in T
    OBVIOUS
  <2>1. n \in 0 .. N /\ n # 0
    BY <1>2
  <2>2. after[n] = UNION {RebalanceOne(s, tx[n]) : s \in after[n - 1]}
    BY <1>10, <2>1
  <2>3. UNION {RebalanceOne(s, tx[n]) : s \in after[n - 1]} \in T
    BY <1>4, Zenon
  <2> HIDE DEF T
  <2> QED BY <2>2, <2>3
<1>13. after[N] \in T
  <2> HIDE DEF T, N
  <2> QED BY <1>2, <1>11, <1>12, Inherits
<1> QED BY <1>1, <1>13
-----------------------------------------------------------------------------
(* Counting the entries that are left *)

\* Indices and places that stand for each other are equally many.
LEMMA EquallyMany ==
  ASSUME TypeOK, Distinct, NEW S \in SUBSET Used, NEW P \in SUBSET Places,
         \A i \in S : \E k \in P : Stands(i, k),
         \A k \in P : \E i \in S : Stands(i, k)
  PROVE  Cardinality(S) = Cardinality(P)
<1> DEFINE of(k) == CHOOSE i \in S : Stands(i, k)
           f == [k \in P |-> of(k)]
<1>1. \A k \in P : of(k) \in S /\ Stands(of(k), k)
  OBVIOUS
<1> HIDE DEF of
<1>2. \A k, m \in P : of(k) = of(m) => k = m
  <2> SUFFICES ASSUME NEW k \in P, NEW m \in P, of(k) = of(m) PROVE k = m
    OBVIOUS
  <2>1. list[k].vote = list[m].vote
    BY <1>1 DEF Stands
  <2> QED BY <2>1 DEF Distinct
<1>3. \A i \in S : \E k \in P : of(k) = i
  <2> SUFFICES ASSUME NEW i \in S PROVE \E k \in P : of(k) = i
    OBVIOUS
  <2>1. PICK k \in P : Stands(i, k)
    OBVIOUS
  <2>2. of(k) \in S /\ Stands(of(k), k)
    BY <1>1
  <2>3. owners[of(k) + 1] = owners[i + 1] /\ of(k) \in Used /\ i \in Used
    BY <2>1, <2>2 DEF Stands
  <2> QED BY <2>3 DEF Distinct
<1>4. f \in Bijection(P, S)
  BY <1>1, <1>2, <1>3 DEF Bijection, Injection, Surjection, IsInjective
<1>5. ExistsBijection(P, S)
  BY <1>4 DEF ExistsBijection
<1>6. IsFiniteSet(P)
  <2>1. IsFiniteSet(1 .. Len(list))
    BY FS_Interval DEF TypeOK
  <2> QED BY <2>1, FS_Subset DEF Places
<1> QED BY <1>5, <1>6, FS_Bijection

\* In an epoch whose maintenance is done every index that is not marked for immediate
\* removal stands for an entry.
LEMMA OthersStand ==
  ASSUME ChainInv, state.current_epoch = clock.epoch,
         NEW i \in Used, i \notin state.validators_for_immediate_removal
  PROVE  \E k \in Places : Stands(i, k)
<1>1. i \in Indices
  BY ParametersAssumption DEF ChainInv, MembershipInv, Distinct, Used, Indices, TypeOK
<1>2. CASE i \in state.validators_to_remove
  BY <1>2 DEF ChainInv, MembershipInv, Leaving
<1>3. CASE i \notin state.validators_to_remove
  BY <1>1, <1>3 DEF ChainInv, MembershipInv, Marks, MarkedForRemoval
<1> QED BY <1>2, <1>3

\* Marks are of indices in use, and finitely many.
LEMMA MarksInUse ==
  ASSUME ChainInv
  PROVE  LET imm == state.validators_for_immediate_removal
             rem == state.validators_to_remove
         IN  /\ imm \subseteq Used /\ rem \subseteq Used
             /\ IsFiniteSet(imm) /\ IsFiniteSet(rem)
             /\ Len(owners) \in Nat /\ Len(list) \in Nat
             /\ IsFiniteSet(Used) /\ Cardinality(Used) = Len(owners)
             /\ Cardinality(Places) = Len(list)
<1> DEFINE imm == state.validators_for_immediate_removal
           rem == state.validators_to_remove
<1>1. imm \subseteq Used /\ rem \subseteq Used
  BY DEF ChainInv, MembershipInv, Marks, MarkedForRemoval, TypeOK, StewardState
<1>2. Len(owners) \in Nat /\ Len(list) \in Nat
  BY DEF ChainInv, TypeOK
<1>3. IsFiniteSet(0 .. Len(owners) - 1) /\ IsFiniteSet(1 .. Len(list))
      /\ Cardinality(0 .. Len(owners) - 1) = Len(owners)
      /\ Cardinality(1 .. Len(list)) = Len(list)
  <2> DEFINE m == Len(owners)
             n == Len(list)
  <2>0. m \in Nat /\ n \in Nat
    BY <1>2
  <2> HIDE DEF m, n
  <2>1. IsFiniteSet(0 .. m - 1) /\ Cardinality(0 .. m - 1) = m
    BY <2>0, FS_Interval
  <2>2. IsFiniteSet(1 .. n) /\ Cardinality(1 .. n) = n
    BY <2>0, FS_Interval
  <2> QED BY <2>1, <2>2 DEF m, n
<1>4. IsFiniteSet(imm) /\ IsFiniteSet(rem)
  <2> HIDE DEF imm, rem
  <2> QED BY <1>1, <1>3, FS_Subset DEF Used
<1> QED BY <1>1, <1>2, <1>3, <1>4 DEF Used, Places

\* Without marks for immediate removal the list is as long as the state.
LEMMA NothingLeft ==
  ASSUME ChainInv, state.current_epoch = clock.epoch,
         state.validators_for_immediate_removal = {}
  PROVE  Len(list) = Len(owners)
<1>1. \A i \in Used : \E k \in Places : Stands(i, k)
  BY OthersStand
<1>2. \A k \in Places : \E i \in Used : Stands(i, k)
  BY DEF ChainInv, MembershipInv, SameOrder
<1>3. TypeOK /\ Distinct
  BY DEF ChainInv, MembershipInv
<1>4. Used \in SUBSET Used /\ Places \in SUBSET Places
  OBVIOUS
<1>5. Cardinality(Used) = Cardinality(Places)
  BY <1>1, <1>2, <1>3, <1>4, EquallyMany
<1> QED BY <1>5, MarksInUse

\* Nobody in the list waits for cleanup.
NoneWaits == \A k \in Places : list[k].status \notin {"Inactive", "ReadyForRemoval"}

\* Then the marks for immediate removal are what the list lacks, and the checks of
\* instant_remove_validator hold.
LEMMA InstantRemovalPasses ==
  ASSUME ChainInv, state.current_epoch = clock.epoch, last_update_epoch = clock.epoch,
         NoneWaits, NEW i \in state.validators_for_immediate_removal
  PROVE  InstantRemovalCheck(i)
<1> DEFINE imm == state.validators_for_immediate_removal
           rem == state.validators_to_remove
           here == Used \ imm
           away == {k \in Places : list[k].status # "Active"}
<1>0. /\ TypeOK /\ Distinct /\ SameOrder /\ Marks /\ Leaving
  BY DEF ChainInv, MembershipInv
<1>1. /\ imm \subseteq Used /\ rem \subseteq Used /\ IsFiniteSet(imm) /\ IsFiniteSet(Used)
      /\ Len(owners) \in Nat /\ Len(list) \in Nat
      /\ Cardinality(Used) = Len(owners) /\ Cardinality(Places) = Len(list)
  BY MarksInUse
<1>2. \A j \in imm, k \in Places : ~Stands(j, k)
  BY <1>0 DEF Leaving, NoneWaits
<1>3. Cardinality(here) = Cardinality(Places)
  <2>1. \A j \in here : \E k \in Places : Stands(j, k)
    BY OthersStand
  <2>2. \A k \in Places : \E j \in here : Stands(j, k)
    BY <1>0, <1>2 DEF SameOrder
  <2>3. here \in SUBSET Used /\ Places \in SUBSET Places
    OBVIOUS
  <2> HIDE DEF here
  <2> QED BY <1>0, <2>1, <2>2, <2>3, EquallyMany
<1>4. Cardinality(here) = Cardinality(Used) - Cardinality(imm)
  <2>1. Used \cap imm = imm
    BY <1>1
  <2> HIDE DEF imm
  <2>2. Cardinality(here) = Cardinality(Used) - Cardinality(Used \cap imm)
    BY <1>1, FS_Difference
  <2> QED BY <2>1, <2>2
<1>5. Cardinality(rem) = Cardinality(away)
  <2>1. \A j \in rem : \E k \in away : Stands(j, k)
    BY <1>0 DEF Leaving
  <2>2. \A k \in away : \E j \in rem : Stands(j, k)
    <3> SUFFICES ASSUME NEW k \in away PROVE \E j \in rem : Stands(j, k)
      OBVIOUS
    <3>1. PICK j \in Used : Stands(j, k)
      BY <1>0 DEF SameOrder
    <3>2. \A m \in Places : Stands(j, m) => m = k
      BY <1>0, <3>1 DEF Distinct, Stands
    <3>3. j \in Indices
      BY <1>0, <1>1, ParametersAssumption DEF Distinct, Used, Indices
    <3>4. j \in MarkedForRemoval(state)
      BY <1>0, <3>1, <3>2, <3>3 DEF Marks
    <3>5. j \in rem
      BY <1>2, <3>1, <3>4 DEF MarkedForRemoval
    <3> QED BY <3>1, <3>5
  <2>3. rem \in SUBSET Used /\ away \in SUBSET Places
    BY <1>1
  <2> HIDE DEF rem, away
  <2> QED BY <1>0, <2>1, <2>2, <2>3, EquallyMany
<1>6. StateLength(state) = Len(owners) /\ i \in Used
  BY <1>0, <1>1 DEF Distinct
<1>7. CanRemoveValidator(state, i)
  BY <1>1, <1>6 DEF CanRemoveValidator, MarkedForRemoval, Used
<1>8. \A k \in 1 .. Len(list) : list[k].status # "ReadyForRemoval"
  BY DEF NoneWaits, Places
<1>9. Cardinality(imm) \in Nat
  <2> HIDE DEF imm
  <2> QED BY <1>1, FS_CardinalityType
<1>10. StateLength(state) - Cardinality(imm) = Len(list)
  BY <1>1, <1>3, <1>4, <1>6, <1>9
<1>11. Cardinality({k \in 1 .. Len(list) : list[k].status # "Active"}) = Cardinality(rem)
  BY <1>5 DEF Places
<1> QED BY <1>7, <1>8, <1>10, <1>11 DEF InstantRemovalCheck

\* The same in the next state.
LEMMA NothingLeftNext ==
  (ChainInv /\ state.current_epoch = clock.epoch
     /\ state.validators_for_immediate_removal = {} => Len(list) = Len(owners))'
<1>1. ChainInv /\ state.current_epoch = clock.epoch
        /\ state.validators_for_immediate_removal = {} => Len(list) = Len(owners)
  BY NothingLeft
<1> QED BY <1>1, PTL
-----------------------------------------------------------------------------
(* What the steps of the keeper and of the world do to the chain *)

\* An instruction that leaves the pool and the books alone.
KeptMove == PoolUnchanged /\ Kept(state, clock, state')

KeeperMove ==
  \/ KeptMove
  \/ EpochMaintenance
  \/ \E i \in state.validators_to_remove : EpochMaintenanceRemove(i)
  \/ \E i \in state.validators_for_immediate_removal : InstantRemoveValidator(i)
  \/ Membership
  \/ Environment
  \/ UpdateValidatorList
  \/ UpdateStakePoolBalance

\* The keeper's two parts of the pool's update keep the chain consistent.
LEMMA UpdateKeeps ==
  ASSUME ChainInv, UpdateValidatorList \/ UpdateStakePoolBalance
  PROVE  ChainInv'
<1>0. /\ TypeOK /\ Sound(state, clock) /\ MembershipInv
      /\ Len(list) \in Nat /\ list \in Seq(ValidatorStakeInfo) /\ clock.epoch \in Nat
  BY DEF ChainInv, TypeOK, Clock
<1>1. UNCHANGED <<state, clock, owners>>
  BY DEF UpdateValidatorList, UpdateStakePoolBalance, On
<1>2. CASE UpdateValidatorList
  <2>1. list' = [k \in Places |->
                   IF list[k].status = "Inactive"
                   THEN [list[k] EXCEPT !.status = "ReadyForRemoval"] ELSE list[k]]
    BY <1>2 DEF UpdateValidatorList, Places
  <2>2. \A k \in Places : list[k] \in ValidatorStakeInfo
    BY <1>0 DEF Places
  <2>3. /\ Len(list') = Len(list)
        /\ \A k \in Places : list'[k].vote = list[k].vote
        /\ \A k \in Places : list'[k].status = "Active" <=> list[k].status = "Active"
        /\ \A k \in Places : list[k].status = "Deactivating" => list'[k].status = "Deactivating"
        /\ \A k \in Places : list[k].status \in {"Inactive", "ReadyForRemoval"} =>
                             list'[k].status \in {"Inactive", "ReadyForRemoval"}
    BY <1>0, <2>1, <2>2 DEF Places, ValidatorStakeInfo
  <2>4. MembershipInv'
    BY <1>0, <1>1, <2>3, RestatusKeepsMembership
  <2>5. list' \in Seq(ValidatorStakeInfo)
    BY <1>0, <1>2, RestatusType DEF UpdateValidatorList, StakeStatus
  <2>6. TypeOK'
    BY <1>0, <1>2, <2>5 DEF UpdateValidatorList, TypeOK
  <2> QED BY <1>0, <1>1, <2>4, <2>6 DEF ChainInv
<1>3. CASE UpdateStakePoolBalance
  <2>1. list' = list /\ SameBooks(state, state')
    BY <1>1, <1>3 DEF UpdateStakePoolBalance, On, SameBooks
  <2>2. MembershipInv'
    BY <1>0, <1>1, <2>1, MembershipSame
  <2>3. TypeOK'
    BY <1>0, <1>3 DEF UpdateStakePoolBalance, On, TypeOK
  <2> QED BY <1>0, <1>1, <2>2, <2>3 DEF ChainInv
<1> QED BY <1>2, <1>3

\* Every move keeps the chain consistent.
LEMMA KeeperMoveKeeps ==
  ASSUME ChainInv, KeeperMove
  PROVE  ChainInv'
<1>0. TypeOK /\ Sound(state, clock) /\ MembershipInv
  BY DEF ChainInv
<1>1. CASE KeptMove
  <2>1. Sound(state', clock') /\ SameBooks(state, state') /\ PoolUnchanged
    BY <1>1 DEF KeptMove, Kept, PoolUnchanged
  <2>2. TypeOK'
    BY <1>0, <2>1 DEF TypeOK, Sound, PoolUnchanged
  <2>3. state'.current_epoch = clock'.epoch => state.current_epoch = clock.epoch
    BY <2>1 DEF SameBooks, PoolUnchanged
  <2>4. UNCHANGED <<list, owners>>
    BY <2>1 DEF PoolUnchanged
  <2>5. MembershipInv'
    BY <1>0, <2>1, <2>3, <2>4, MembershipSame
  <2> QED BY <2>1, <2>2, <2>5 DEF ChainInv
<1>3. CASE UpdateValidatorList \/ UpdateStakePoolBalance
  BY <1>3, UpdateKeeps
<1>2. CASE ~KeptMove /\ ~UpdateValidatorList /\ ~UpdateStakePoolBalance
  <2>1. state.validators_to_remove \subseteq Indices
        /\ state.validators_for_immediate_removal \subseteq Indices
    BY <1>0 DEF TypeOK, StewardState
  <2>2. Next
    BY <1>2, <2>1 DEF KeeperMove, Next, Maintenance
  <2>3. [AdminNext]_vars /\ [Next]_vars
    BY <2>2 DEF AdminNext
  <2>4. TypeOK' /\ Sound(state', clock')
    BY <1>0, <2>3, NextSound
  <2>5. MembershipInv'
    BY <1>0, <2>3, NextMembership
  <2> QED BY <2>4, <2>5 DEF ChainInv
<1> QED BY <1>1, <1>2, <1>3

\* A crank is such an instruction, and so is one that does nothing.
LEMMA CrankIsKept ==
  ASSUME ChainInv, Crank \/ UNCHANGED vars
  PROVE  KeptMove
<1>0. TypeOK /\ Sound(state, clock)
  BY DEF ChainInv
<1>1. CASE Crank
  <2>1. SameBooks(state, state') /\ PoolUnchanged
    BY <1>0, <1>1, CrankKeepsBooks
  <2>2. Sound(state', clock')
    BY <1>0, <1>1, CrankSound
  <2>3. clock' = clock
    BY <2>1 DEF PoolUnchanged
  <2> QED BY <2>1, <2>2, <2>3 DEF KeptMove, Kept
<1>2. CASE UNCHANGED vars
  <2>1. state' = state /\ PoolUnchanged
    BY <1>2 DEF vars, PoolUnchanged
  <2> QED BY <1>0, <2>1 DEF KeptMove, Kept, SameBooks
<1> QED BY <1>1, <1>2

\* The transactions that crank the state.
LEMMA CrankTxIsKept ==
  ASSUME ChainInv, NEW tx, Len(tx) \in Nat, CrankTx(tx)
  PROVE  KeptMove
<1>1. CASE HandleComputeScore(tx)
  BY <1>1, ScoreOneApplied DEF HandleComputeScore, On, KeptMove
<1>2. CASE HandleRebalance(tx)
  BY <1>2, RebalanceOneApplied DEF HandleRebalance, On, KeptMove
<1>3. CASE HandleComputeInstantUnstake(tx[1])
  <2> DEFINE e == tx[1]
  <2>1. CASE UncheckedTransition
    BY <2>1, CrankIsKept DEF Crank
  <2>2. CASE \E unstake \in BOOLEAN : Matches(e) /\ ComputeInstantUnstake(e.index, unstake)
    <3>1. PICK unstake \in BOOLEAN : Matches(e) /\ ComputeInstantUnstake(e.index, unstake)
      BY <2>2
    <3>2. StateLength(state) = Len(list) /\ Kept(state, clock, state)
      BY <3>1 DEF ComputeInstantUnstake, StateChecks, RemoveValidatorCheck, ChainInv, Kept, SameBooks
    <3> HIDE DEF e
    <3>3. e.index \in Indices
      BY <3>1, <3>2, MatchesIndex
    <3>4. Crank
      BY <3>1, <3>3 DEF Crank
    <3> QED BY <3>4, CrankIsKept
  <2> QED BY <1>3, <2>1, <2>2 DEF HandleComputeInstantUnstake, On
<1>4. CASE HandleDirectedRebalance(tx[1].vote)
  <2>1. PICK before \in BOOLEAN, all \in BOOLEAN :
          RebalanceDirected(before, all) \/ RebalanceDirectedMissing(all)
    BY <1>4 DEF HandleDirectedRebalance, AllDone
  <2>2. Crank
    BY <2>1 DEF Crank
  <2> QED BY <2>2, CrankIsKept
<1>5. CASE HandleComputeDelegations \/ HandleIdle
  BY <1>5, CrankIsKept DEF HandleComputeDelegations, HandleIdle, On, Crank
<1> QED BY <1>1, <1>2, <1>3, <1>4, <1>5 DEF CrankTx

\* The removal of a validator that the snapshot shows.
LEMMA AutoRemoveMoves ==
  ASSUME ChainInv, NEW e, AutoRemove(e)
  PROVE  \E i \in Indices, d, m \in BOOLEAN : AutoRemoveValidatorFromPool(i, d, m)
<1> DEFINE gone == Deactivated(deactivation, e.vote, clock.epoch)
<1>1. PICK immediate \in BOOLEAN :
        Matches(e) /\ AutoRemoveValidatorFromPool(e.index, gone, immediate)
  BY DEF AutoRemove
<1>2. gone \in BOOLEAN
  BY DEF Deactivated
<1>3. StateLength(state) = Len(list) /\ Kept(state, clock, state)
  BY <1>1 DEF AutoRemoveValidatorFromPool, RemoveValidatorCheck, ChainInv, Kept, SameBooks
<1>4. e.index \in Indices
  BY <1>1, <1>3, MatchesIndex
<1> HIDE DEF gone
<1> QED BY <1>1, <1>2, <1>4

\* A chain with a mark for immediate removal that the epoch has overtaken.
Stranded ==
  /\ state.current_epoch # clock.epoch
  /\ state.validators_for_immediate_removal # {}

\* No step of the keeper takes that mark away again.
LEMMA StrandedStays ==
  ASSUME ChainInv, Stranded, KeeperMove
  PROVE  Stranded'
<1> DEFINE imm == state.validators_for_immediate_removal
<1>0. /\ TypeOK /\ Sound(state, clock) /\ Distinct /\ Leaving /\ state \in StewardState
      /\ state.current_epoch \in Nat /\ clock.epoch \in Nat
      /\ state.current_epoch # clock.epoch /\ imm # {}
  BY DEF ChainInv, MembershipInv, TypeOK, StewardState, Clock, Stranded
<1>1. CASE KeptMove
  BY <1>0, <1>1 DEF KeptMove, Kept, SameBooks, PoolUnchanged, Stranded
<1>2. CASE EpochMaintenance
  <2>1. /\ ClearMaintenance(state).validators_for_immediate_removal = imm
        /\ ClearMaintenance(state).current_epoch = state.current_epoch
    BY <1>0 DEF ClearMaintenance, StewardState
  <2>2. state' = ClearMaintenance(state) /\ clock' = clock
    BY <1>0, <1>2, <2>1 DEF EpochMaintenance, EndMaintenance, MarkedForRemoval, PoolUnchanged
  <2> QED BY <1>0, <2>1, <2>2 DEF Stranded
<1>3. ASSUME NEW i \in state.validators_to_remove, EpochMaintenanceRemove(i)
      PROVE  Stranded'
  <2> DEFINE s == ClearMaintenance(state)
             t == RemoveValidator(s, i)
             n == StateLength(state)
  <2>1. /\ s \in StewardState /\ s.validators_for_immediate_removal = imm
        /\ s.validators_to_remove = state.validators_to_remove
        /\ s.current_epoch = state.current_epoch /\ StateLength(s) = n
    BY <1>0 DEF ClearMaintenance, StewardState, StateLength
  <2>2. /\ CanRemoveValidator(state, i) /\ state' = EndMaintenance(t) /\ clock' = clock
    BY <1>3 DEF EpochMaintenanceRemove
  <2>3. i \in Indices /\ CanRemoveValidator(s, i)
    BY <1>0, <2>1, <2>2 DEF CanRemoveValidator, MarkedForRemoval, StewardState
  <2> HIDE DEF s
  <2>4. /\ t.validators_for_immediate_removal = ShiftBits(imm, i, n - 1)
        /\ t.current_epoch = state.current_epoch
    BY <2>1, <2>3, RemoveValidatorBooks
  <2> HIDE DEF t
  <2>5. ShiftBits(imm, i, n - 1) # {}
    <3>1. PICK j \in imm : TRUE
      BY <1>0
    <3>2. imm \subseteq Used /\ i \in Used
      BY MarksInUse
    <3>3. n = Len(owners) /\ n \in Nat /\ n <= MaxValidators /\ owners \in Seq(Votes)
      BY <1>0 DEF Distinct, TypeOK
    <3>4. j # i /\ j \in 0 .. Len(owners) - 1 /\ i \in 0 .. Len(owners) - 1
      BY <1>0, <3>1, <3>2 DEF Leaving, Used
    <3>5. PICK k \in 0 .. Len(owners) - 2 : Before(i, k) = j
      BY <3>3, <3>4, RemovalRenumbers
    <3>6. imm \in SUBSET (0 .. n - 1) /\ i \in 0 .. n - 1
      BY <3>2, <3>3 DEF Used
    <3>7. k \in 0 .. n - 2 /\ Before(i, k) \in imm
      BY <3>1, <3>3, <3>5
    <3> HIDE DEF n, imm
    <3>8. k \in ShiftBits(imm, i, n - 1)
      BY <3>3, <3>6, <3>7, RemovalShifts
    <3> QED BY <3>8
  <2>6. state' = t
    BY <2>2, <2>4, <2>5 DEF EndMaintenance, MarkedForRemoval
  <2> QED BY <1>0, <2>2, <2>4, <2>5, <2>6 DEF Stranded
<1>4. ASSUME NEW i, InstantRemoveValidator(i)
      PROVE  FALSE
  BY <1>0, <1>4 DEF InstantRemoveValidator, InstantRemovalCheck
<1>5. CASE Membership
  BY <1>0, <1>5 DEF Membership, AutoAddValidatorToPool, AutoRemoveValidatorFromPool,
                    StateChecks, RemoveValidatorCheck
<1>6. CASE Environment
  <2>1. state' = state /\ (clock'.epoch = clock.epoch \/ clock'.epoch = clock.epoch + 1)
    BY <1>6 DEF Environment, NextSlot, NextEpoch, UpdateStakePool,
                CleanupRemovedValidatorEntries, CloseVoteAccount
  <2>2. state.current_epoch <= clock.epoch
    BY <1>0 DEF Sound, NotAhead
  <2> QED BY <1>0, <2>1, <2>2 DEF Stranded
<1>7. CASE UpdateValidatorList \/ UpdateStakePoolBalance
  BY <1>0, <1>7 DEF UpdateValidatorList, UpdateStakePoolBalance, On, Stranded
<1> QED BY <1>1, <1>2, <1>3, <1>4, <1>5, <1>6, <1>7 DEF KeeperMove
-----------------------------------------------------------------------------
(* What the crank knows of the chain, whatever has failed *)

\* A transaction of the current step.
Preparing == {"update", "deactivate", "balance", "balance_last", "cleanup", "cleanup_last"}

Sendable(tx) == Len(tx) \in Nat /\ (pc = "add" => tx[1].vote \in Votes)

\* The snapshot is the state until the first instruction that changes it, and the
\* maintenance loop has the marks as they are.
Follows ==
  /\ faults \in Nat
  /\ list_updated \in Nat /\ list_updated <= clock.epoch
  /\ snap.state \in StewardState /\ Len(snap.list) \in Nat
  /\ \A tx \in todo : Sendable(tx)
  /\ pc \in Preparing => snap.state = state
  /\ pc = "update" => (snap.stale <=> list_updated < snap.epoch)
  /\ pc = "maintain" => loop.marks = state.validators_to_remove

LEMMA NoSnapTyped == NoSnap.state \in StewardState /\ Len(NoSnap.list) \in Nat
BY ParametersAssumption DEF NoSnap, FreshState, StewardState, Tags

\* One entry makes a transaction.
LEMMA SingleLength ==
  ASSUME NEW e
  PROVE  Len(<<e>>) \in Nat /\ <<e>>[1] = e
OBVIOUS

\* The chunks that the validators are sent in are sequences.
LEMMA ChunkLength ==
  ASSUME snap.state \in StewardState, NEW n \in Nat \ {0}, NEW tx \in ChunksOf(Unprogressed, n)
  PROVE  Len(tx) \in Nat
<1> DEFINE c == Cardinality(Pending)
           num == snap.state.num_pool_validators
<1>1. c \in Nat
  <2>1. num \in Nat
    BY DEF StewardState
  <2>2. Pending \in SUBSET (1 .. num)
    BY DEF Pending
  <2> HIDE DEF num
  <2>3. IsFiniteSet(1 .. num)
    BY <2>1, FS_Interval
  <2>4. IsFiniteSet(Pending)
    BY <2>2, <2>3, FS_Subset
  <2> QED BY <2>4, FS_CardinalityType
<1>2. Len(Unprogressed) = c
  <2> HIDE DEF c
  <2> QED BY <1>1 DEF Unprogressed, c
<1> DEFINE size(f) == IF f + n - 1 <= c THEN n ELSE c - f + 1
<1>3. PICK f \in 1 .. c : tx = [j \in 1 .. size(f) |-> Entry(Unprogressed[f + j - 1])]
  BY <1>2 DEF ChunksOf
<1>4. size(f) \in Nat
  BY <1>1
<1> DEFINE m == size(f)
<1>5. m \in Nat /\ tx = [j \in 1 .. m |-> Entry(Unprogressed[f + j - 1])]
  BY <1>3, <1>4
<1> HIDE DEF m
<1> QED BY <1>5

LEMMA TxLength ==
  ASSUME snap.state \in StewardState, NEW n \in Nat \ {0}, NEW tx \in TxsToRun(n)
  PROVE  Len(tx) \in Nat
<1>0. ScoreChunk \in Nat \ {0} /\ 1 \in Nat \ {0}
  BY CrankAssumption
<1>1. CASE snap.state.state_tag \in {"ComputeScores", "ComputeInstantUnstake", "Rebalance"}
  <2>1. \E m \in Nat \ {0} : tx \in ChunksOf(Unprogressed, m)
    BY <1>0, <1>1 DEF TxsToRun
  <2> QED BY <2>1, ChunkLength
<1>2. CASE snap.state.state_tag = "RebalanceDirected"
  <2>1. PICK v \in Targets : tx = <<[index |-> 0, vote |-> v]>>
    BY <1>2 DEF TxsToRun
  <2> QED BY <2>1
<1>3. CASE snap.state.state_tag \in {"ComputeDelegations", "Idle"}
  <2>1. tx = NoEntry
    BY <1>3 DEF TxsToRun
  <2> QED BY <2>1 DEF NoEntry
<1> QED BY <1>1, <1>2, <1>3 DEF StewardState, Tags

\* A request does what its transaction does, or nothing.
LEMMA ChainUnchanged ==
  ASSUME UNCHANGED chain
  PROVE  /\ UNCHANGED vars /\ UNCHANGED list_updated
         /\ UNCHANGED <<state, paused, clock, list, last_update_epoch, closed, owners>>
BY DEF chain, vars

\* Every step is one of the moves.
LEMMA StepMoves ==
  ASSUME ChainInv, Follows, [CrankNext]_crankVars
  PROVE  KeeperMove
<1>1. ASSUME UNCHANGED chain PROVE KeptMove
  BY <1>1, ChainUnchanged, CrankIsKept
<1>2. CASE World
  <2>1. NextSlot \/ NextEpoch \/ (\E v \in Closable : CloseVoteAccount(v)) \/ UNCHANGED vars
    BY <1>2 DEF World, On
  <2>2. Environment \/ UNCHANGED vars
    BY <2>1 DEF Environment
  <2> QED BY <2>2, CrankIsKept DEF KeeperMove
<1>3. CASE Fetch \/ StartAdding \/ StartState \/ EndOfTick \/ UNCHANGED crankVars
  <2>1. UNCHANGED chain
    BY <1>3 DEF Fetch, StartAdding, StartState, EndOfTick, Panic, crankVars, chain
  <2> QED BY <1>1, <2>1 DEF KeeperMove
<1>4. CASE Update
  <2>1. UpdateValidatorList \/ UNCHANGED chain
    BY <1>4 DEF Update, Submit, chain
  <2> QED BY <1>1, <2>1 DEF KeeperMove
<1>5. CASE Deactivate
  <2>1. UNCHANGED vars \/ UNCHANGED chain
    BY <1>5 DEF Deactivate, Submit, DeactivateDelinquent, chain
  <2> QED BY <1>1, <2>1, CrankIsKept DEF KeeperMove
<1>6. CASE Cleanup
  <2>1. CleanupRemovedValidatorEntries \/ UNCHANGED vars \/ UNCHANGED chain
    BY <1>6 DEF Cleanup, Submit, CleanupTx, On
  <2> QED BY <1>1, <2>1, CrankIsKept DEF KeeperMove, Environment
<1>7. CASE Maintain
  <2>1. On(MaintainTx) \/ UNCHANGED chain
    BY <1>7 DEF Maintain, Submit, chain
  <2>2. ASSUME MaintainTx PROVE KeeperMove
    <3>1. EpochMaintenance \/ \E i \in loop.marks : EpochMaintenanceRemove(i)
      BY <2>2 DEF MaintainTx, IndexToRemove, LowestBelow
    <3>2. loop.marks = state.validators_to_remove
      BY <1>7 DEF Maintain, Follows
    <3> QED BY <3>1, <3>2 DEF KeeperMove
  <2> QED BY <1>1, <2>1, <2>2 DEF KeeperMove, On
<1>8. CASE InstantRemoval
  <2>1. (\E i : InstantRemoveValidator(i)) \/ UNCHANGED chain
    BY <1>8 DEF InstantRemoval, Submit, Panic, On, chain
  <2>2. ASSUME NEW i, InstantRemoveValidator(i) PROVE KeeperMove
    BY <2>2 DEF KeeperMove, InstantRemoveValidator, InstantRemovalCheck
  <2> QED BY <1>1, <2>1, <2>2 DEF KeeperMove
<1>9. CASE RemoveDelinquent
  <2>1. (\E e : AutoRemove(e)) \/ UNCHANGED chain
    BY <1>9 DEF RemoveDelinquent, Submit, On
  <2>2. ASSUME NEW e, AutoRemove(e) PROVE KeeperMove
    BY <2>2, AutoRemoveMoves DEF KeeperMove, Membership
  <2> QED BY <1>1, <2>1, <2>2 DEF KeeperMove
<1>10. CASE AddValidators
  <2>1. (\E v \in Votes : AutoAdd(v)) \/ UNCHANGED chain
    BY <1>10 DEF AddValidators, Submit, Follows, Sendable
  <2>2. ASSUME NEW v \in Votes, AutoAdd(v) PROVE KeeperMove
    BY <2>2 DEF KeeperMove, Membership, AutoAdd
  <2> QED BY <1>1, <2>1, <2>2 DEF KeeperMove
<1>11. CASE CrankState
  <2>1. (\E tx \in todo : CrankTx(tx)) \/ UNCHANGED chain
    BY <1>11 DEF CrankState, Submit
  <2>2. ASSUME NEW tx \in todo, CrankTx(tx) PROVE KeptMove
    BY <2>2, CrankTxIsKept DEF Follows, Sendable
  <2> QED BY <1>1, <2>1, <2>2 DEF KeeperMove
<1>12. CASE Balance
  <2>1. UpdateStakePoolBalance \/ UNCHANGED chain
    BY <1>12 DEF Balance, Submit
  <2> QED BY <1>1, <2>1 DEF KeeperMove
<1> QED BY <1>2, <1>3, <1>4, <1>5, <1>6, <1>7, <1>8, <1>9, <1>10, <1>11, <1>12
        DEF CrankNext, Keeper

\* The clock does not go back.
LEMMA ClockGoesOn ==
  ASSUME ChainInv, KeeperMove
  PROVE  /\ clock.epoch \in Nat /\ clock'.epoch \in Nat /\ clock.epoch <= clock'.epoch
         /\ state.current_epoch \in Nat /\ state.current_epoch <= clock.epoch
<1>1. /\ clock.epoch \in Nat /\ state.current_epoch \in Nat /\ state.current_epoch <= clock.epoch
  BY DEF ChainInv, TypeOK, Clock, StewardState, Sound, NotAhead
<1>2. clock' = clock \/ clock'.epoch = clock.epoch \/ clock'.epoch = clock.epoch + 1
  <2>1. CASE Environment
    BY <2>1 DEF Environment, NextSlot, NextEpoch, UpdateStakePool,
                CleanupRemovedValidatorEntries, CloseVoteAccount
  <2>2. CASE ~Environment
    BY <2>2 DEF KeeperMove, KeptMove, PoolUnchanged, EpochMaintenance, EpochMaintenanceRemove,
                InstantRemoveValidator, Membership, AutoAddValidatorToPool, AddToPool,
                AutoRemoveValidatorFromPool, RemoveFromPool, UpdateValidatorList,
                UpdateStakePoolBalance, On
  <2> QED BY <2>1, <2>2
<1> QED BY <1>1, <1>2

\* The list is only ever updated to the clock's epoch.
Counted == faults \in Nat /\ list_updated \in Nat /\ list_updated <= clock.epoch

LEMMA CountedStays ==
  ASSUME ChainInv, Follows, [CrankNext]_crankVars
  PROVE  Counted' /\ (faults' = faults \/ faults' = faults + 1)
<1>1. KeeperMove
  BY StepMoves
<1>2. clock.epoch \in Nat /\ clock'.epoch \in Nat /\ clock.epoch <= clock'.epoch
  BY <1>1, ClockGoesOn
<1>3. CASE World \/ UNCHANGED crankVars
  <2>1. faults' = faults /\ list_updated' = list_updated
    BY <1>3 DEF World, On, crankVars, chain
  <2> QED BY <1>2, <2>1 DEF Follows, Counted
<1>4. CASE Keeper
  <2>1. faults' = faults \/ faults' = faults + 1
    BY <1>4 DEF Keeper, Fetch, Update, Deactivate, Balance, Cleanup, Maintain, InstantRemoval,
                RemoveDelinquent, StartAdding, AddValidators, StartState, CrankState,
                EndOfTick, Submit, Panic
  <2>2. list_updated' = list_updated \/ list_updated' = clock.epoch
    <3>1. CASE Update \/ Deactivate \/ Balance \/ Cleanup
      BY <3>1, ChainUnchanged DEF Update, Deactivate, Balance, Cleanup, Submit, UpdateValidatorList,
         DeactivateDelinquent, UpdateStakePoolBalance, CleanupTx, On, chain
    <3>2. CASE Maintain \/ InstantRemoval \/ RemoveDelinquent \/ AddValidators
      BY <3>2, ChainUnchanged DEF Maintain, InstantRemoval, RemoveDelinquent, AddValidators,
         Submit, On, AutoAdd, Panic, chain
    <3>3. CASE Fetch \/ StartAdding \/ StartState \/ EndOfTick
      BY <3>3, ChainUnchanged DEF Fetch, StartAdding, StartState, EndOfTick, Panic, chain
    <3>4. CASE CrankState
      BY <3>4, ChainUnchanged DEF CrankState, Submit, CrankTx, HandleComputeScore, HandleRebalance,
         HandleComputeInstantUnstake, HandleDirectedRebalance, HandleComputeDelegations, HandleIdle,
         On, chain
    <3> QED BY <1>4, <3>1, <3>2, <3>3, <3>4 DEF Keeper
  <2> QED BY <1>2, <2>1, <2>2 DEF Follows, Counted
<1> QED BY <1>3, <1>4 DEF CrankNext

\* The end of a tick forgets what was known.
LEMMA EndTickFollows ==
  ASSUME Follows, EndTick \/ Panic, Counted'
  PROVE  Follows'
<1>1. /\ pc' \in {"fetch", "panic"} /\ snap' = NoSnap /\ todo' = {}
  BY DEF EndTick, Panic
<1>2. snap'.state \in StewardState /\ Len(snap'.list) \in Nat
  BY <1>1, NoSnapTyped
<1> QED BY <1>1, <1>2 DEF Follows, Counted, Preparing

\* A step that only goes on with the list of its transactions.
LEMMA FinishedFollows ==
  ASSUME Follows, Counted', NEW tx, Finished(tx), pc \in {"remove", "add", "crank"}
  PROVE  Follows'
<1>1. pc' = pc /\ snap' = snap /\ \A x \in todo' : x \in todo
  BY DEF Finished
<1>2. \A x \in todo' : Sendable(x)'
  BY <1>1 DEF Follows, Sendable
<1> QED BY <1>1, <1>2 DEF Follows, Counted, Preparing

\* A step that goes on with another one and leaves the transactions alone.
LEMMA GoesOn ==
  ASSUME Follows, Counted', snap' = snap, todo' = todo, pc' \notin {"add", "update"},
         pc' \in Preparing => snap.state = state',
         pc' = "maintain" => loop'.marks = state'.validators_to_remove
  PROVE  Follows'
<1>1. \A tx \in todo' : Sendable(tx)'
  BY DEF Follows, Sendable
<1> QED BY <1>1 DEF Follows, Counted

LEMMA FollowsNext ==
  ASSUME ChainInv, Follows, [CrankNext]_crankVars
  PROVE  Follows' /\ (faults' = faults \/ faults' = faults + 1)
<1>0. faults' = faults \/ faults' = faults + 1
  BY CountedStays
<1>01. Counted'
  BY CountedStays
<1> SUFFICES Follows'
  BY <1>0
<1>1. CASE World \/ UNCHANGED crankVars
  <2>1. state' = state /\ UNCHANGED <<pc, snap, loop, todo, list_updated>>
    BY <1>1 DEF World, On, NextSlot, NextEpoch, CloseVoteAccount, vars, chain, keeper, crankVars
  <2>2. \A tx \in todo' : Sendable(tx)'
    BY <2>1 DEF Follows, Sendable
  <2> QED BY <1>01, <2>1, <2>2 DEF Follows, Counted
<1>2. CASE Fetch
  <2>1. /\ pc' = "update" /\ snap'.state = state /\ snap'.list = list
        /\ state' = state /\ todo' = todo /\ (snap'.stale <=> list_updated' < snap'.epoch)
    BY <1>2, ChainUnchanged DEF Fetch, chain
  <2>2. state \in StewardState /\ Len(list) \in Nat
    BY DEF ChainInv, TypeOK
  <2>3. \A tx \in todo' : Sendable(tx)'
    BY <2>1 DEF Follows, Sendable
  <2> QED BY <1>01, <2>1, <2>2, <2>3 DEF Follows, Counted, Preparing
<1>3. CASE Update
  <2>1. EndTick \/ (/\ pc = "update" /\ Goto("deactivate") /\ state' = state)
    BY <1>3, ChainUnchanged DEF Update, Submit, UpdateValidatorList, chain
  <2>2. CASE Goto("deactivate")
    <3>1. snap.state = state /\ snap' = snap /\ todo' = todo /\ pc' = "deactivate"
      BY <1>3, <2>2 DEF Follows, Update, Goto, Preparing
    <3> QED BY <1>01, <2>1, <3>1, GoesOn, EndTickFollows
  <2> QED BY <1>01, <2>1, <2>2, EndTickFollows
<1>4. CASE Deactivate
  <2>1. EndTick \/ (/\ pc = "deactivate" /\ GotoFinal /\ state' = state)
    BY <1>4, ChainUnchanged DEF Deactivate, Submit, DeactivateDelinquent, chain, vars
  <2>2. CASE GotoFinal
    <3>1. snap.state = state /\ snap' = snap /\ todo' = todo /\ pc' \in {"balance", "cleanup"}
      BY <1>4, <2>2 DEF Follows, Deactivate, GotoFinal, Goto, Preparing
    <3> QED BY <1>01, <2>1, <3>1, GoesOn, EndTickFollows
  <2> QED BY <1>01, <2>1, <2>2, EndTickFollows
<1>5. CASE Balance \/ Cleanup
  <2>1. EndTick \/ (/\ pc \in Preparing /\ state' = state
                    /\ (Goto("cleanup_last") \/ Goto("balance_last") \/ AfterUpdate))
    BY <1>5, ChainUnchanged DEF Balance, Cleanup, Submit, CleanupTx, UpdateStakePoolBalance, On,
       CleanupRemovedValidatorEntries, AfterBalance, AfterCleanup, Preparing, vars
  <2>2. CASE AfterUpdate /\ pc \in Preparing /\ state' = state
    <3>1. snap.state = state /\ snap' = snap /\ todo' = todo
      BY <2>2 DEF Follows, AfterUpdate, StartLoop
    <3>2. \/ pc' = "instant"
          \/ pc' = "maintain" /\ loop'.marks = state'.validators_to_remove
      BY <2>2, <3>1 DEF AfterUpdate, StartLoop
    <3> QED BY <1>01, <3>1, <3>2, GoesOn DEF Preparing
  <2>3. CASE (Goto("cleanup_last") \/ Goto("balance_last")) /\ pc \in Preparing /\ state' = state
    <3>1. /\ snap.state = state' /\ snap' = snap /\ todo' = todo
          /\ pc' \in {"cleanup_last", "balance_last"}
      BY <2>3 DEF Follows, Goto
    <3> QED BY <1>01, <3>1, GoesOn
  <2> QED BY <1>01, <2>1, <2>2, <2>3, EndTickFollows
<1>6. CASE Maintain
  <2>1. pc = "maintain" /\ (EndTick \/ StartInstant \/ Refetch(state'.validators_to_remove))
    BY <1>6 DEF Maintain, Submit
  <2>2. CASE StartInstant
    <3>1. snap' = snap /\ todo' = todo /\ pc' = "instant"
      BY <2>2 DEF StartInstant, StartLoop
    <3> QED BY <1>01, <3>1, GoesOn DEF Preparing
  <2>3. CASE Refetch(state'.validators_to_remove)
    <3>1. snap' = snap /\ todo' = todo /\ pc' = "maintain"
          /\ loop'.marks = state'.validators_to_remove
      BY <2>1, <2>3 DEF Refetch
    <3> QED BY <1>01, <3>1, GoesOn DEF Preparing
  <2> QED BY <1>01, <2>1, <2>2, <2>3, EndTickFollows
<1>7. CASE InstantRemoval
  <2>1. pc = "instant" /\ (EndTick \/ Panic \/ StartRemovals
                             \/ Refetch(state'.validators_for_immediate_removal))
    BY <1>7 DEF InstantRemoval, Submit
  <2>2. CASE StartRemovals
    <3>1. snap' = snap /\ pc' = "remove" /\ todo' = {<<Entry(k)>> : k \in Bad}
      BY <2>2 DEF StartRemovals
    <3>2. \A tx \in todo' : Sendable(tx)'
      BY <3>1, SingleLength DEF Sendable
    <3> QED BY <1>01, <3>1, <3>2 DEF Follows, Counted, Preparing
  <2>3. CASE Refetch(state'.validators_for_immediate_removal)
    <3>1. snap' = snap /\ todo' = todo /\ pc' = "instant"
      BY <2>1, <2>3 DEF Refetch
    <3> QED BY <1>01, <3>1, GoesOn DEF Preparing
  <2> QED BY <1>01, <2>1, <2>2, <2>3, EndTickFollows
<1>8. CASE RemoveDelinquent \/ AddValidators \/ CrankState
  <2>1. pc \in {"remove", "add", "crank"} /\ (EndTick \/ \E tx : Finished(tx))
    BY <1>8 DEF RemoveDelinquent, AddValidators, CrankState, Submit
  <2> QED BY <1>01, <2>1, EndTickFollows, FinishedFollows
<1>9. CASE StartAdding
  <2>1. CASE EndTick
    BY <1>01, <2>1, EndTickFollows
  <2>2. CASE ~EndTick
    <3>1. /\ pc' = "add" /\ snap' = snap
          /\ todo' = {<<[index |-> 0, vote |-> v]>> : v \in Candidates}
      BY <1>9, <2>2 DEF StartAdding
    <3>2. ASSUME NEW tx \in todo' PROVE Sendable(tx)'
      <4>1. PICK v \in Candidates : tx = <<[index |-> 0, vote |-> v]>>
        BY <3>1
      <4>2. v \in Votes
        BY DEF Candidates
      <4> QED BY <4>1, <4>2, SingleLength DEF Sendable
    <3> QED BY <1>01, <3>1, <3>2 DEF Follows, Counted, Preparing
  <2> QED BY <2>1, <2>2
<1>10. CASE StartState
  <2>1. CASE EndTick \/ Panic
    BY <1>01, <2>1, EndTickFollows
  <2>2. CASE ~(EndTick \/ Panic)
    <3>1. /\ pc' = "crank" /\ snap' = snap
          /\ \E n \in {1, RebalanceChunk} : todo' = TxsToRun(n)
      BY <1>10, <2>2 DEF StartState
    <3>2. PICK n \in Nat \ {0} : todo' = TxsToRun(n)
      BY <3>1, CrankAssumption
    <3>3. ASSUME NEW tx \in todo' PROVE Sendable(tx)'
      <4>1. Len(tx) \in Nat
        BY <3>2, TxLength DEF Follows
      <4> QED BY <3>1, <4>1 DEF Sendable
    <3> QED BY <1>01, <3>1, <3>3 DEF Follows, Counted, Preparing
  <2> QED BY <2>1, <2>2
<1>11. CASE EndOfTick
  BY <1>01, <1>11, EndTickFollows DEF EndOfTick
<1> QED BY <1>0, <1>1, <1>2, <1>3, <1>4, <1>5, <1>6, <1>7, <1>8, <1>9, <1>10, <1>11
        DEF CrankNext, Keeper
-----------------------------------------------------------------------------
(* What the crank knows of the chain as long as no request has failed *)

\* Once the epoch has begun nobody has left the list.
Settled == state.current_epoch = clock.epoch => Len(list) = Len(owners)

\* The snapshot was taken of such a chain.
SnapFits ==
  /\ snap.epoch \in Nat
  /\ snap.state.current_epoch <= snap.epoch
  /\ snap.epoch <= clock.epoch
  /\ snap.state.current_epoch = snap.epoch => StateLength(snap.state) = Len(snap.list)

\* The list was updated in this epoch, after whatever left it.
Updated ==
  /\ list_updated = clock.epoch
  /\ \A k \in Places : list[k].status # "Inactive"

\* The loop of instant removals has the marks as they are, and the list it scans
\* reaches as far as they do.
Removing ==
  /\ loop.marks = state.validators_for_immediate_removal
  /\ Len(owners) <= Len(snap.list)
  /\ last_update_epoch = clock.epoch
  /\ NoneWaits

Fine ==
  /\ pc # "panic"
  /\ pc # "fetch" => SnapFits
  /\ pc \in {"fetch", "maintain", "remove", "add", "crank"} => Settled
  /\ pc = "update" /\ clock.epoch = snap.epoch => snap.list = list
  /\ pc \in Preparing \ {"update"} /\ clock.epoch = snap.epoch => Updated
  /\ pc = "cleanup_last" /\ clock.epoch = snap.epoch => last_update_epoch = clock.epoch
  /\ pc = "balance_last" /\ clock.epoch = snap.epoch => NoneWaits
  /\ pc = "maintain" => /\ state.validators_for_immediate_removal = {}
                        /\ snap.state.validators_for_immediate_removal = {}
  /\ pc = "instant" => IF loop.marks = {} THEN Settled ELSE Removing

\* A fetched snapshot stays one of a settled chain.
LEMMA SnapStays ==
  ASSUME SnapFits, snap' = snap, clock.epoch \in Nat, clock'.epoch \in Nat,
         clock.epoch <= clock'.epoch
  PROVE  SnapFits'
BY DEF SnapFits

\* What the clock and the validators do.
LEMMA WorldFine ==
  ASSUME ChainInv, Fine, World, ~Stranded', ChainInv'
  PROVE  Fine'
<1>0. Environment \/ UNCHANGED vars
  BY DEF World, On, Environment
<1>1. KeeperMove
  BY <1>0, CrankIsKept DEF KeeperMove
<1>2. /\ clock.epoch \in Nat /\ clock'.epoch \in Nat /\ clock.epoch <= clock'.epoch
      /\ state.current_epoch \in Nat /\ state.current_epoch <= clock.epoch
  BY <1>1, ClockGoesOn
<1>3. UNCHANGED <<pc, snap, loop, state, owners, last_update_epoch, list_updated>>
  BY DEF World, On, NextSlot, NextEpoch, CloseVoteAccount, vars, keeper
<1>4. pc # "fetch" => SnapFits'
  BY <1>2, <1>3, SnapStays DEF Fine
<1>5. CASE NextEpoch
  <2>1. clock'.epoch = clock.epoch + 1
    BY <1>5 DEF NextEpoch
  <2>2. state'.current_epoch # clock'.epoch
    BY <1>2, <1>3, <2>1
  <2>3. Settled' /\ state.validators_for_immediate_removal = {}
    BY <1>3, <2>2 DEF Settled, Stranded
  <2>4. pc # "fetch" => clock'.epoch # snap.epoch
    BY <1>2, <2>1 DEF Fine, SnapFits
  <2>5. pc = "instant" => loop.marks = {}
    BY <2>3 DEF Fine, Removing
  <2> QED BY <1>3, <1>4, <2>3, <2>4, <2>5 DEF Fine, Preparing
<1>6. CASE ~NextEpoch
  <2>1. list' = list /\ clock'.epoch = clock.epoch
    BY <1>6 DEF World, On, NextSlot, CloseVoteAccount, vars
  <2>2. /\ Settled' <=> Settled
        /\ Updated' <=> Updated
        /\ Removing' <=> Removing
        /\ NoneWaits' <=> NoneWaits
    BY <1>3, <2>1 DEF Settled, Updated, Removing, NoneWaits, Places
  <2> QED BY <1>3, <1>4, <2>1, <2>2 DEF Fine
<1> QED BY <1>5, <1>6

\* From the snapshot to the end of the cleanup.
LEMMA PreparationFine ==
  ASSUME ChainInv, Follows, Fine, Fetch \/ Update \/ Deactivate, faults' = faults
  PROVE  Fine'
<1>0. /\ faults \in Nat /\ clock.epoch \in Nat /\ state.current_epoch <= clock.epoch
      /\ Len(owners) = StateLength(state) /\ list \in Seq(ValidatorStakeInfo)
  BY DEF Follows, ChainInv, TypeOK, Clock, Sound, NotAhead, MembershipInv, Distinct
<1>1. CASE Fetch
  <2>1. pc = "fetch" /\ Settled
    BY <1>1 DEF Fetch, Fine
  <2>2. /\ snap'.state = state /\ snap'.list = list /\ snap'.epoch = clock.epoch
        /\ pc' = "update" /\ clock' = clock /\ list' = list
    BY <1>1, ChainUnchanged DEF Fetch, chain
  <2>3. SnapFits'
    BY <1>0, <2>1, <2>2 DEF SnapFits, Settled
  <2> QED BY <2>2, <2>3 DEF Fine, Preparing
<1>2. CASE Update
  <2>1. /\ Goto("deactivate") /\ pc = "update"
        /\ UpdateValidatorList \/ (~ShouldUpdate /\ UNCHANGED chain)
    BY <1>0, <1>2 DEF Update, Submit, chain
  <2>2. pc' = "deactivate" /\ snap' = snap /\ clock' = clock /\ SnapFits
    BY <2>1, ChainUnchanged DEF Goto, UpdateValidatorList, Fine
  <2>3. SnapFits'
    BY <2>2 DEF SnapFits
  <2>4. CASE UpdateValidatorList
    <3> DEFINE new == [k \in 1 .. Len(list) |->
                        IF list[k].status = "Inactive"
                        THEN [list[k] EXCEPT !.status = "ReadyForRemoval"] ELSE list[k]]
    <3>1. list' = new /\ list_updated' = clock'.epoch /\ Len(list) \in Nat
      BY <1>0, <2>4 DEF UpdateValidatorList
    <3>2. Len(new) = Len(list)
      BY <3>1
    <3>3. ASSUME NEW k \in 1 .. Len(list) PROVE new[k].status # "Inactive"
      BY <1>0 DEF ValidatorStakeInfo
    <3> HIDE DEF new
    <3>4. Updated'
      BY <3>1, <3>2, <3>3 DEF Updated, Places
    <3> QED BY <2>2, <2>3, <3>4 DEF Fine
  <2>5. CASE ~ShouldUpdate /\ UNCHANGED chain
    <3>1. ASSUME clock.epoch = snap.epoch PROVE Updated
      <4>1. snap.list = list /\ (snap.stale <=> list_updated < snap.epoch)
        BY <2>1, <3>1 DEF Fine, Follows
      <4>2. list_updated = clock.epoch
        BY <1>0, <2>5, <3>1, <4>1 DEF ShouldUpdate, Follows
      <4>3. \A k \in Places : list[k].status # "Inactive"
        BY <2>5, <4>1 DEF ShouldUpdate, HasStatus, Places
      <4> QED BY <4>2, <4>3 DEF Updated
    <3>2. Updated' <=> Updated
      BY <2>5, ChainUnchanged DEF Updated, Places
    <3> QED BY <2>2, <2>3, <3>1, <3>2 DEF Fine
  <2> QED BY <2>1, <2>4, <2>5
<1>3. CASE Deactivate
  <2>1. /\ GotoFinal /\ pc = "deactivate"
        /\ UNCHANGED <<clock, list, last_update_epoch, list_updated>>
    BY <1>0, <1>3, ChainUnchanged DEF Deactivate, Submit, DeactivateDelinquent, vars, chain
  <2>2. pc' \in {"balance", "cleanup"} /\ snap' = snap /\ SnapFits
    BY <2>1 DEF GotoFinal, Goto, Fine
  <2>3. SnapFits' /\ (Updated' <=> Updated)
    BY <2>1, <2>2 DEF SnapFits, Updated, Places
  <2> QED BY <2>1, <2>2, <2>3 DEF Fine, Preparing
<1> QED BY <1>1, <1>2, <1>3

\* Cleanup takes out the entries that wait for it, and no other.
LEMMA CleanupTxKeeps ==
  ASSUME ChainInv, CleanupTx
  PROVE  /\ UNCHANGED <<state, clock, last_update_epoch, owners, list_updated>>
         /\ \A n \in 1 .. Len(list') :
              list'[n].status # "ReadyForRemoval" /\ \E k \in Places : list'[n] = list[k]
<1>0. UNCHANGED list_updated
  BY DEF CleanupTx, On
<1>1. CASE CleanupRemovedValidatorEntries
  <2>0. list \in Seq(ValidatorStakeInfo)
    BY DEF ChainInv, TypeOK
  <2>1. PICK from \in [1 .. Len(list') -> {k \in 1 .. Len(list) : list[k].status # "ReadyForRemoval"}] :
          \A n \in 1 .. Len(list') : list'[n] = list[from[n]]
    BY <1>1, <2>0, CleanupKeeps
  <2>2. ASSUME NEW n \in 1 .. Len(list')
        PROVE  from[n] \in Places /\ list[from[n]].status # "ReadyForRemoval"
    BY DEF Places
  <2>3. UNCHANGED <<state, clock, last_update_epoch, owners>>
    BY <1>1 DEF CleanupRemovedValidatorEntries
  <2> QED BY <1>0, <2>1, <2>2, <2>3
<1>2. CASE /\ \A k \in 1 .. Len(list) : list[k].status # "ReadyForRemoval"
           /\ UNCHANGED vars
  BY <1>0, <1>2 DEF vars, Places
<1> QED BY <1>1, <1>2 DEF CleanupTx, On

\* The loop that follows the update of the pool.
LEMMA AfterUpdateFine ==
  ASSUME ChainInv, Follows, Fine, AfterUpdate, pc \in Preparing, pc # "update",
         UNCHANGED <<state, clock, owners>>, ~Stranded', ChainInv',
         clock.epoch = snap.epoch => last_update_epoch' = clock.epoch /\ NoneWaits'
  PROVE  Fine'
<1> DEFINE imm == state.validators_for_immediate_removal
<1>0. /\ faults \in Nat /\ clock.epoch \in Nat /\ state.current_epoch \in Nat
      /\ state.current_epoch <= clock.epoch /\ Len(owners) = StateLength(state)
  BY DEF Follows, ChainInv, TypeOK, StewardState, Clock, Sound, NotAhead, MembershipInv, Distinct
<1>3. snap.state = state /\ SnapFits /\ snap' = snap
  BY DEF Follows, Fine, AfterUpdate, StartLoop, Preparing
<1>4. SnapFits'
  BY <1>3 DEF SnapFits
<1>5. state'.current_epoch = clock'.epoch /\ state'.validators_for_immediate_removal = {}
        => Len(list') = Len(owners')
  BY NothingLeftNext
<1>6. CASE ShouldRunEpochMaintenance
  <2>1. state.current_epoch # clock.epoch
    BY <1>0, <1>3, <1>6 DEF ShouldRunEpochMaintenance, SnapFits
  <2>2. imm = {} /\ Settled'
    BY <2>1 DEF Stranded, Settled
  <2>3. pc' = "maintain"
    BY <1>6 DEF AfterUpdate, StartLoop
  <2> QED BY <1>3, <1>4, <2>2, <2>3 DEF Fine, Preparing
<1>7. CASE ~ShouldRunEpochMaintenance
  <2>1. pc' = "instant" /\ loop'.marks = imm /\ state.current_epoch = snap.epoch
    BY <1>3, <1>7 DEF AfterUpdate, StartLoop, ShouldRunEpochMaintenance
  <2>2. CASE imm = {}
    <3>1. Settled'
      BY <1>5, <2>2 DEF Settled
    <3> QED BY <1>4, <2>1, <2>2, <3>1 DEF Fine, Preparing
  <2>3. CASE imm # {}
    <3>1. state.current_epoch = clock.epoch /\ clock.epoch = snap.epoch
      BY <2>1, <2>3 DEF Stranded
    <3>2. Len(owners) = Len(snap.list) /\ Len(owners) \in Nat
      BY <1>0, <1>3, <3>1 DEF SnapFits, ChainInv, TypeOK
    <3>3. Removing'
      BY <1>3, <2>1, <3>1, <3>2 DEF Removing
    <3> QED BY <1>4, <2>1, <2>3, <3>3 DEF Fine, Preparing
  <2> QED BY <2>2, <2>3
<1> QED BY <1>6, <1>7

\* The two transactions of the last submission, in either order.
LEMMA FinalFine ==
  ASSUME ChainInv, Follows, Fine, Balance \/ Cleanup, faults' = faults, ~Stranded', ChainInv'
  PROVE  Fine'
<1>0. faults \in Nat /\ SnapFits /\ pc \in Preparing /\ pc # "update"
  BY DEF Follows, Fine, Balance, Cleanup, Preparing
<1>1. clock.epoch = snap.epoch => Updated
  BY <1>0 DEF Fine
<1>2. CASE Balance
  <2>1. /\ AfterBalance
        /\ UpdateStakePoolBalance \/ (list_updated # clock.epoch /\ UNCHANGED chain)
    BY <1>0, <1>2 DEF Balance, Submit
  <2>2. UNCHANGED <<state, clock, owners, list, list_updated>>
    BY <2>1, ChainUnchanged DEF UpdateStakePoolBalance, On
  <2>3. clock.epoch = snap.epoch => last_update_epoch' = clock.epoch
    BY <1>1, <2>1 DEF UpdateStakePoolBalance, Updated
  <2>4. (NoneWaits' <=> NoneWaits) /\ (Updated' <=> Updated)
    BY <2>2 DEF NoneWaits, Updated, Places
  <2>5. CASE pc = "balance"
    <3>1. pc' = "cleanup_last" /\ snap' = snap
      BY <2>1, <2>5 DEF AfterBalance, Goto
    <3>2. SnapFits'
      BY <1>0, <2>2, <3>1 DEF SnapFits
    <3> QED BY <1>1, <2>2, <2>3, <2>4, <3>1, <3>2 DEF Fine
  <2>6. CASE pc # "balance"
    <3>1. pc = "balance_last" /\ AfterUpdate
      BY <1>2, <2>1, <2>6 DEF Balance, AfterBalance
    <3>2. clock.epoch = snap.epoch => NoneWaits'
      BY <2>4, <3>1 DEF Fine
    <3> QED BY <1>0, <2>2, <2>3, <3>1, <3>2, AfterUpdateFine
  <2> QED BY <2>5, <2>6
<1>3. CASE Cleanup
  <2>1. AfterCleanup /\ CleanupTx
    BY <1>0, <1>3 DEF Cleanup, Submit
  <2>2. /\ UNCHANGED <<state, clock, last_update_epoch, owners, list_updated>>
        /\ \A n \in 1 .. Len(list') :
             list'[n].status # "ReadyForRemoval" /\ \E k \in Places : list'[n] = list[k]
    BY <2>1, CleanupTxKeeps
  <2>3. clock.epoch = snap.epoch => NoneWaits' /\ Updated'
    BY <1>1, <2>2 DEF NoneWaits, Updated, Places
  <2>4. CASE pc = "cleanup"
    <3>1. pc' = "balance_last" /\ snap' = snap
      BY <2>1, <2>4 DEF AfterCleanup, Goto
    <3>2. SnapFits'
      BY <1>0, <2>2, <3>1 DEF SnapFits
    <3> QED BY <2>2, <2>3, <3>1, <3>2 DEF Fine
  <2>5. CASE pc # "cleanup"
    <3>1. pc = "cleanup_last" /\ AfterUpdate
      BY <1>3, <2>1, <2>5 DEF Cleanup, AfterCleanup
    <3>2. clock.epoch = snap.epoch => last_update_epoch' = clock.epoch
      BY <2>2, <3>1 DEF Fine
    <3> QED BY <1>0, <2>2, <2>3, <3>1, <3>2, AfterUpdateFine
  <2> QED BY <2>4, <2>5
<1> QED BY <1>2, <1>3

\* Maintenance without a mark for immediate removal makes none.
LEMMA MaintainTxKeeps ==
  ASSUME ChainInv, MaintainTx, state.validators_for_immediate_removal = {}
  PROVE  state'.validators_for_immediate_removal = {} /\ clock' = clock
<1>0. state \in StewardState
  BY DEF ChainInv, TypeOK
<1>1. ASSUME NEW s \in StewardState, s.validators_for_immediate_removal = {}
      PROVE  EndMaintenance(s).validators_for_immediate_removal = {}
  BY <1>1 DEF EndMaintenance, StartEpoch, StewardState
<1> DEFINE s == ClearMaintenance(state)
<1>2. /\ s \in StewardState /\ s.validators_for_immediate_removal = {}
      /\ s.validators_to_remove = state.validators_to_remove /\ StateLength(s) = StateLength(state)
  BY <1>0 DEF ClearMaintenance, StewardState, StateLength
<1>3. CASE EpochMaintenance
  BY <1>1, <1>2, <1>3 DEF EpochMaintenance, PoolUnchanged
<1>4. ASSUME NEW i, EpochMaintenanceRemove(i)
      PROVE  state'.validators_for_immediate_removal = {} /\ clock' = clock
  <2> DEFINE t == RemoveValidator(s, i)
  <2>1. CanRemoveValidator(state, i) /\ state' = EndMaintenance(t) /\ clock' = clock
    BY <1>4 DEF EpochMaintenanceRemove
  <2>2. i \in Indices /\ CanRemoveValidator(s, i)
    BY <1>0, <1>2, <2>1 DEF CanRemoveValidator, MarkedForRemoval, StewardState
  <2>3. t \in StewardState
    <3>1. Sound(s, clock) /\ clock \in Clock
      BY ClearMaintenanceSound DEF ChainInv, TypeOK
    <3> HIDE DEF s
    <3> QED BY <2>2, <3>1, RemoveValidatorSound DEF Sound
  <2> HIDE DEF s
  <2>4. t.validators_for_immediate_removal = ShiftBits({}, i, StateLength(s) - 1)
    BY <1>2, <2>2, RemoveValidatorBooks
  <2>5. ShiftBits({}, i, StateLength(s) - 1) = {}
    BY DEF ShiftBits
  <2> HIDE DEF t
  <2> QED BY <1>1, <2>1, <2>3, <2>4, <2>5
<1> QED BY <1>3, <1>4 DEF MaintainTx

\* Maintenance.
LEMMA MaintainFine ==
  ASSUME ChainInv, Follows, Fine, Maintain, faults' = faults, ChainInv'
  PROVE  Fine'
<1>0. /\ faults \in Nat /\ pc = "maintain" /\ SnapFits /\ Settled
      /\ state.validators_for_immediate_removal = {}
      /\ snap.state.validators_for_immediate_removal = {}
  BY DEF Follows, Fine, Maintain
<1>1. CASE StartInstant /\ UNCHANGED chain
  <2>1. pc' = "instant" /\ loop'.marks = {} /\ snap' = snap
    BY <1>0, <1>1 DEF StartInstant, StartLoop
  <2>2. Settled' /\ SnapFits'
    BY <1>0, <1>1, <2>1, ChainUnchanged DEF Settled, SnapFits
  <2> QED BY <2>1, <2>2 DEF Fine, Preparing
<1>2. CASE MaintainTx /\ Refetch(state'.validators_to_remove)
  <2>1. pc' = "maintain" /\ snap' = snap
    BY <1>0, <1>2 DEF Refetch
  <2>2. state'.validators_for_immediate_removal = {} /\ clock' = clock
    BY <1>0, <1>2, MaintainTxKeeps
  <2>3. Settled'
    BY <2>2, NothingLeftNext DEF Settled
  <2>4. SnapFits'
    BY <1>0, <2>1, <2>2 DEF SnapFits
  <2> QED BY <1>0, <2>1, <2>2, <2>3, <2>4 DEF Fine, Preparing
<1> QED BY <1>0, <1>1, <1>2 DEF Maintain, Submit, On, chain

\* The scan for a mark finds the lowest one.
LEMMA InstantIndexFound ==
  ASSUME ChainInv, Follows, Removing, loop.marks # {}
  PROVE  InstantIndex # {} /\ InstantIndex \subseteq state.validators_for_immediate_removal
<1> DEFINE imm == state.validators_for_immediate_removal
<1>1. /\ imm = loop.marks /\ imm # {} /\ imm \subseteq Used /\ Len(owners) \in Nat
      /\ Len(owners) <= Len(snap.list)
  BY MarksInUse DEF Removing
<1>2. imm \in SUBSET Nat
  BY <1>1 DEF Used
<1>3. PICK i \in imm : \A j \in imm : i <= j
  <2> HIDE DEF imm
  <2> QED BY <1>1, <1>2, LeastNatural
<1>4. i < Len(snap.list)
  <2>1. i \in 0 .. Len(owners) - 1
    BY <1>1 DEF Used
  <2>2. Len(snap.list) \in Nat
    BY DEF Follows
  <2> QED BY <1>1, <2>1, <2>2
<1>5. i \in InstantIndex
  BY <1>1, <1>3, <1>4 DEF InstantIndex, LowestBelow
<1> QED BY <1>1, <1>5 DEF InstantIndex, LowestBelow

\* The instant removals: each of them passes the checks.
LEMMA InstantFine ==
  ASSUME ChainInv, Follows, Fine, ~Stranded, InstantRemoval, faults' = faults, ChainInv'
  PROVE  Fine'
<1> DEFINE imm == state.validators_for_immediate_removal
<1>0. faults \in Nat /\ pc = "instant" /\ SnapFits
  BY DEF Follows, Fine, InstantRemoval
<1>1. CASE loop.marks = {}
  <2>1. StartRemovals /\ UNCHANGED chain
    BY <1>1 DEF InstantRemoval, InstantIndex, LowestBelow, chain
  <2>2. pc' = "remove" /\ snap' = snap /\ Settled
    BY <1>0, <1>1, <2>1 DEF StartRemovals, Fine
  <2>3. Settled' /\ SnapFits'
    BY <1>0, <2>1, <2>2, ChainUnchanged DEF Settled, SnapFits
  <2> QED BY <2>2, <2>3 DEF Fine, Preparing
<1>2. CASE loop.marks # {}
  <2>1. Removing
    BY <1>0, <1>2 DEF Fine
  <2>2. InstantIndex # {} /\ InstantIndex \subseteq imm
    BY <1>2, <2>1, InstantIndexFound
  <2>3. state.current_epoch = clock.epoch
    BY <1>2, <2>1 DEF Removing, Stranded
  <2>4. PICK i \in InstantIndex :
          Submit(On(InstantRemoveValidator(i)), ~InstantRemovalCheck(i),
                 Refetch(state'.validators_for_immediate_removal), StartRemovals)
    BY <1>2, <2>2 DEF InstantRemoval
  <2>5. i \in imm /\ InstantRemovalCheck(i)
    BY <2>1, <2>2, <2>3, InstantRemovalPasses DEF Removing
  <2>6. InstantRemoveValidator(i) /\ Refetch(state'.validators_for_immediate_removal)
    BY <1>0, <2>4, <2>5 DEF Submit, On
  <2>7. /\ owners' = RemoveIndex(owners, i) /\ UNCHANGED <<clock, list, last_update_epoch>>
        /\ loop'.marks = state'.validators_for_immediate_removal /\ pc' = "instant" /\ snap' = snap
    BY <1>0, <2>6 DEF InstantRemoveValidator, Refetch
  <2>8. Len(owners') = Len(owners) - 1 /\ Len(owners) \in Nat
    <3>1. i \in 0 .. Len(owners) - 1 /\ owners \in Seq(Votes)
      BY <2>5, MarksInUse DEF ChainInv, TypeOK, Used
    <3> QED BY <2>7, <3>1, RemovalRenumbers
  <2>9. SnapFits'
    BY <1>0, <2>7 DEF SnapFits
  <2>10. CASE loop'.marks = {}
    <3>1. Settled'
      BY <2>7, <2>10, NothingLeftNext DEF Settled
    <3> QED BY <2>7, <2>9, <2>10, <3>1 DEF Fine, Preparing
  <2>11. CASE loop'.marks # {}
    <3>1. NoneWaits'
      BY <2>1, <2>7 DEF Removing, NoneWaits, Places
    <3>2. Len(owners') <= Len(snap'.list)
      <4>1. Len(snap.list) \in Nat
        BY DEF Follows
      <4> QED BY <2>1, <2>7, <2>8, <4>1 DEF Removing
    <3>3. Removing'
      BY <2>1, <2>7, <3>1, <3>2 DEF Removing
    <3> QED BY <2>7, <2>9, <2>11, <3>3 DEF Fine, Preparing
  <2> QED BY <2>10, <2>11
<1> QED BY <1>1, <1>2

\* Once the loops are done a transaction of the keeper keeps the lengths together.
LEMMA SettledStays ==
  ASSUME ChainInv, Settled, KeptMove \/ Membership
  PROVE  Settled' /\ clock' = clock
<1>0. Len(list) \in Nat /\ Len(owners) \in Nat /\ list \in Seq(ValidatorStakeInfo) /\ owners \in Seq(Votes)
  BY DEF ChainInv, TypeOK
<1>1. CASE KeptMove
  BY <1>1 DEF KeptMove, Kept, SameBooks, PoolUnchanged, Settled
<1>2. ASSUME NEW v, AutoAddValidatorToPool(v) PROVE Settled' /\ clock' = clock
  <2>1. /\ Len(list) = Len(owners) /\ clock' = clock
        /\ list' = Append(list, [vote |-> v, status |-> "Active"]) /\ owners' = Append(owners, v)
    BY <1>2 DEF AutoAddValidatorToPool, StateChecks, RemoveValidatorCheck, AddToPool, Settled
  <2> QED BY <1>0, <2>1 DEF Settled
<1>3. ASSUME NEW i, NEW d, NEW m, AutoRemoveValidatorFromPool(i, d, m) PROVE Settled' /\ clock' = clock
  <2>1. Len(list) = Len(owners) /\ clock' = clock /\ owners' = owners
    BY <1>3 DEF AutoRemoveValidatorFromPool, RemoveValidatorCheck, RemoveFromPool, Settled
  <2>2. Len(list') = Len(list)
    BY <1>0, <1>3 DEF AutoRemoveValidatorFromPool, RemoveFromPool
  <2> QED BY <2>1, <2>2 DEF Settled
<1> QED BY <1>1, <1>2, <1>3 DEF Membership

\* Removing and adding validators, and cranking.
LEMMA WorkFine ==
  ASSUME ChainInv, Follows, Fine, faults' = faults,
         RemoveDelinquent \/ StartAdding \/ AddValidators \/ StartState \/ CrankState \/ EndOfTick
  PROVE  Fine'
<1>0. /\ faults \in Nat /\ pc \in {"remove", "add", "crank"} /\ SnapFits /\ Settled
      /\ snap.state \in StewardState
  BY DEF Follows, Fine, RemoveDelinquent, StartAdding, AddValidators, StartState, CrankState, EndOfTick
<1>1. ASSUME UNCHANGED chain PROVE KeptMove
  BY <1>1, ChainUnchanged, CrankIsKept
<1>2. CASE RemoveDelinquent \/ AddValidators \/ CrankState
  <2>1. pc' = pc /\ snap' = snap
    BY <1>0, <1>2 DEF RemoveDelinquent, AddValidators, CrankState, Submit, Finished
  <2>2. \/ \E e : AutoRemove(e)
        \/ \E v \in Votes : AutoAdd(v)
        \/ \E tx \in todo : CrankTx(tx)
        \/ UNCHANGED chain
    BY <1>0, <1>2 DEF RemoveDelinquent, AddValidators, CrankState, Submit, On, Follows, Sendable
  <2>3. ASSUME NEW e, AutoRemove(e) PROVE Membership
    BY <2>3, AutoRemoveMoves DEF Membership
  <2>4. ASSUME NEW v \in Votes, AutoAdd(v) PROVE Membership
    BY <2>4 DEF Membership, AutoAdd
  <2>5. ASSUME NEW tx \in todo, CrankTx(tx) PROVE KeptMove
    BY <2>5, CrankTxIsKept DEF Follows, Sendable
  <2>6. KeptMove \/ Membership
    BY <1>1, <2>2, <2>3, <2>4, <2>5
  <2>7. Settled' /\ clock' = clock
    BY <1>0, <2>6, SettledStays
  <2>8. SnapFits'
    BY <1>0, <2>1, <2>7 DEF SnapFits
  <2> QED BY <1>0, <2>1, <2>7, <2>8 DEF Fine, Preparing
<1>3. CASE StartAdding \/ StartState \/ EndOfTick
  <2>1. UNCHANGED chain
    BY <1>3 DEF StartAdding, StartState, EndOfTick, Panic, chain
  <2>2. Settled'
    BY <1>0, <1>1, <2>1, SettledStays
  <2>3. snap' = snap => SnapFits'
    BY <1>0, <2>1, ChainUnchanged DEF SnapFits
  <2>4. ~(~ShouldRunEpochMaintenance /\ OutOfList)
    <3> SUFFICES ASSUME ~ShouldRunEpochMaintenance, NEW k \in Pending, k > Len(snap.list)
                 PROVE  FALSE
      BY DEF OutOfList
    <3>1. StateLength(snap.state) = Len(snap.list)
      BY <1>0 DEF SnapFits, ShouldRunEpochMaintenance
    <3>2. /\ snap.state.num_pool_validators \in Nat /\ snap.state.validators_added \in Nat
          /\ k \in 1 .. snap.state.num_pool_validators
      BY <1>0 DEF StewardState, Pending
    <3> QED BY <3>1, <3>2 DEF StateLength
  <2>5. pc' = "fetch" \/ (pc' \in {"add", "crank"} /\ snap' = snap)
    BY <1>3, <2>4 DEF StartAdding, StartState, EndOfTick, EndTick
  <2> QED BY <2>2, <2>3, <2>5 DEF Fine, Preparing
<1> QED BY <1>2, <1>3

\* One of three things is so all the time.
CrankInv == Follows /\ (faults > 0 \/ Stranded \/ Fine)

LEMMA CrankInvNext ==
  ASSUME ChainInv, CrankInv, [CrankNext]_crankVars
  PROVE  ChainInv' /\ CrankInv'
<1>0. Follows /\ faults \in Nat
  BY DEF CrankInv, Follows
<1>1. KeeperMove
  BY <1>0, StepMoves
<1>2. ChainInv'
  BY <1>1, KeeperMoveKeeps
<1>3. Follows' /\ (faults' = faults \/ faults' = faults + 1)
  BY <1>0, FollowsNext
<1>4. CASE faults > 0 \/ faults' # faults
  <2>1. faults' > 0
    BY <1>0, <1>3, <1>4
  <2> QED BY <1>2, <1>3, <2>1 DEF CrankInv
<1>5. CASE Stranded
  <2>1. Stranded'
    BY <1>1, <1>5, StrandedStays
  <2> QED BY <1>2, <1>3, <2>1 DEF CrankInv
<1>6. CASE Fine /\ ~Stranded /\ faults' = faults
  <2>1. ASSUME ~Stranded' PROVE Fine'
    <3>1. CASE World
      BY <1>2, <1>6, <2>1, <3>1, WorldFine
    <3>2. CASE Fetch \/ Update \/ Deactivate
      BY <1>0, <1>6, <3>2, PreparationFine
    <3>3. CASE Balance \/ Cleanup
      BY <1>0, <1>2, <1>6, <2>1, <3>3, FinalFine
    <3>4. CASE Maintain
      BY <1>0, <1>2, <1>6, <3>4, MaintainFine
    <3>5. CASE InstantRemoval
      BY <1>0, <1>2, <1>6, <3>5, InstantFine
    <3>6. CASE RemoveDelinquent \/ StartAdding \/ AddValidators \/ StartState \/ CrankState \/ EndOfTick
      BY <1>0, <1>6, <3>6, WorkFine
    <3>7. CASE UNCHANGED crankVars
      <4>1. UNCHANGED <<pc, snap, loop, state, clock, list, last_update_epoch, owners, list_updated>>
        BY <3>7 DEF crankVars, chain, vars, keeper
      <4> QED BY <1>6, <4>1 DEF Fine, SnapFits, Settled, Updated, Removing, NoneWaits, Places
    <3> QED BY <3>1, <3>2, <3>3, <3>4, <3>5, <3>6, <3>7 DEF CrankNext, Keeper
  <2> QED BY <1>2, <1>3, <2>1 DEF CrankInv
<1> QED BY <1>0, <1>4, <1>5, <1>6 DEF CrankInv

LEMMA CrankInvInit ==
  ASSUME CrankInit
  PROVE  ChainInv /\ CrankInv
<1>1. Init
  BY DEF CrankInit
<1>2. ChainInv
  BY <1>1, InitSound, InitMembership DEF ChainInv
<1>3. /\ pc = "fetch" /\ snap = NoSnap /\ todo = {} /\ faults = 0
      /\ list_updated = 0 /\ clock.epoch = 0
  BY <1>1 DEF CrankInit, Init
<1>4. Follows
  BY <1>3, NoSnapTyped DEF Follows, Preparing
<1>5. Len(list) = Len(owners)
  BY <1>1, ParametersAssumption DEF Init
<1>6. Fine
  BY <1>3, <1>5 DEF Fine, Settled, Preparing
<1> QED BY <1>2, <1>4, <1>6 DEF CrankInv

\* The keeper panics, on the unwrapped index of an instant removal or on an index into
\* the validator list, only when a request of it has failed or when the chain holds a
\* mark that no transaction of the keeper takes away any more.
THEOREM SpecPanicNeedsFault == CrankSpec => []PanicNeedsFault
<1>1. CrankInit => ChainInv /\ CrankInv
  BY CrankInvInit
<1>2. ChainInv /\ CrankInv /\ [CrankNext]_crankVars => (ChainInv /\ CrankInv)'
  BY CrankInvNext
<1>3. CrankInv => PanicNeedsFault
  <2>1. Stranded => Unseen
    BY DEF Stranded, Unseen, MarkedForRemoval
  <2> QED BY <2>1 DEF CrankInv, Fine, PanicNeedsFault
<1> QED BY <1>1, <1>2, <1>3, PTL DEF CrankSpec
=============================================================================
