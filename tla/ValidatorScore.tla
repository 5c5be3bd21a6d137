--------------------------- MODULE ValidatorScore ---------------------------
(***************************************************************************)
(* What the steward concludes from a validator's history: validator_score   *)
(* and instant_unstake_validator, the windows they read, the parameters     *)
(* that set the windows and the blacklist, beside the instructions that     *)
(* write the two history accounts.                                          *)
(*                                                                         *)
(* Abstractions: what a validator did in an epoch is good or bad, and bad   *)
(* is as bad as can be (truth holds what was bad); every epoch has the same *)
(* number of blocks and a vote earns full credits; parameters that neither  *)
(* function reads are left out.                                             *)
(***************************************************************************)
EXTENDS ClusterHistory, ScoreEncoding

CONSTANTS
  FirstReliable,      \* VALIDATOR_HISTORY_FIRST_RELIABLE_EPOCH
  InitialParameters,  \* arguments of initialize_steward
  ParameterUpdates,   \* arguments of update_parameters
  FeeUpdates,         \* arguments of update_priority_fee_parameters
  NoParameters

ASSUME ScoreAssumption == FirstReliable \in Nat \ {0}

VARIABLES
  parameters,    \* Config::parameters
  blacklisted    \* the validator's bit in Config::validator_history_blacklist

scoreVars == <<parameters, blacklisted>>
-----------------------------------------------------------------------------
(* Parameters and the blacklist *)

WindowMax == Min({epoch - FirstReliable, MaxItems - 1})

Validate(p) ==
  /\ epoch >= FirstReliable
  /\ {p.mev_range, p.credits_range, p.commission_range, p.bam_window}
       \subseteq 0 .. WindowMax
  /\ {p.mev_bps_threshold, p.fee_max_bps, p.fee_margin_bps} \subseteq 0 .. BasisPointsMax
  /\ {p.commission_threshold, p.historical_threshold} \subseteq 0 .. CommissionMax
  /\ p.bam_minimum <= p.bam_window

InitializeSteward ==
  /\ parameters = NoParameters
  /\ Validate(InitialParameters)
  /\ parameters' = InitialParameters
  /\ UNCHANGED blacklisted

\* get_valid_updated_parameters: what is not an argument stays as it is.
UpdateParameters(args) ==
  /\ parameters # NoParameters
  /\ Validate(With(parameters, args))
  /\ parameters' = With(parameters, args)
  /\ UNCHANGED blacklisted

UpdatePriorityFeeParameters(args) ==
  /\ parameters # NoParameters
  /\ Validate(With(parameters, args))
  /\ parameters' = With(parameters, args)
  /\ UNCHANGED blacklisted

AddValidatorsToBlacklist ==
  /\ parameters # NoParameters
  /\ blacklisted' = TRUE
  /\ UNCHANGED parameters

RemoveValidatorsFromBlacklist ==
  /\ parameters # NoParameters
  /\ blacklisted' = FALSE
  /\ UNCHANGED parameters

ConfigNext ==
  \/ InitializeSteward
  \/ \E args \in ParameterUpdates : UpdateParameters(args)
  \/ \E args \in FeeUpdates : UpdatePriorityFeeParameters(args)
  \/ AddValidatorsToBlacklist
  \/ RemoveValidatorsFromBlacklist
-----------------------------------------------------------------------------
(* What the functions read: the windows of the history *)

\* field_range: the epochs of the window with a value, first and last included
Window(field, first, last) ==
  {entry.epoch : entry \in {x \in EpochRange(account, first, last) : x[field] # Unset}}

\* field_latest
Latest(field) == ~account.is_empty /\ Newest(account)[field] # Unset

TotalBlocksRange(first, last) ==
  {entry.epoch : entry \in {x \in EpochRange(cluster, first, last) : x.total_blocks # Unset}}

\* The checks in compute_score: both accounts were written in this epoch.
VoteRecent == ~account.is_empty /\ Newest(account).commission = epoch
ClusterRecent == ~cluster.is_empty /\ cluster.last_update_slot >= FirstSlot(epoch)

Commission(truth, e) == IF <<"commission", e>> \in truth THEN CommissionMax ELSE 0
MevCommission(truth, e) == IF <<"mev", e>> \in truth THEN BasisPointsMax ELSE 0

MaxOr(values, default) == IF values = {} THEN default ELSE Max(values)
-----------------------------------------------------------------------------
(* validator_score *)

MevWindow(p) == Window("mev", epoch - p.mev_range, epoch)
CreditsStart(p) == epoch - p.credits_range

\* Mutant: the current epoch is left out, as it is for the credits.
CommissionWindowBefore(p) == Window("commission", epoch - p.commission_range, epoch - 1)

CommissionWindow(p) == Window("commission", epoch - p.commission_range, epoch)

\* Without data the mev commission is the highest, the commission the lowest.
CalculateMaxMevCommission(p, truth) ==
  MaxOr({MevCommission(truth, e) : e \in MevWindow(p)}, BasisPointsMax)

CalculateMaxCommission(p, truth) ==
  MaxOr({Commission(truth, e) : e \in CommissionWindow(p)}, 0)

CalculateHistoricalCommission(truth) ==
  MaxOr({Commission(truth, e) : e \in Window("commission", FirstReliable, epoch)}, 0)

\* the average, rounded up
AverageUp(sum, n) == (sum + n - 1) \div n

CalculateAvgMevCommission(p, truth) ==
  LET known == MevWindow(p)
  IN  IF known = {} THEN BasisPointsMax
      ELSE AverageUp(BasisPointsMax * Cardinality({e \in known : <<"mev", e>> \in truth}),
                     Cardinality(known))

\* An epoch without a total was missed by the keepers; one without credits was
\* missed by the validator.
Delinquent(p) ==
  TotalBlocksRange(CreditsStart(p), epoch - 1)
    \ Window("credits", CreditsStart(p), epoch - 1) # {}

VoteCreditsAvg(p) ==
  ((CreditsWidth - 1) * Cardinality(Window("credits", CreditsStart(p), epoch - 1)))
    \div p.credits_range

\* The flag of the latest entry, or the newest one if there are no credits yet.
CalculateSuperminority(p, truth) ==
  LET flags == Window("stake", epoch - p.commission_range, epoch)
  IN  IF Latest("credits") THEN <<"superminority", Newest(account).epoch>> \in truth
      ELSE flags # {} /\ <<"superminority", Max(flags)>> \in truth

\* Only the authority of the latest entry counts.
BadAuthority(truth) == Latest("mev") /\ <<"authority", Newest(account).epoch>> \in truth
BadFeeAuthority == Latest("tips") /\ Newest(account).tips = "none"

\* No fees in the history are no commission; a missing account is all of it.
CalculateRealizedCommissionBps(entry, truth) ==
  IF \/ entry.tips = "none"
     \/ entry.blocks # Unset /\ <<"fees", entry.epoch>> \in truth
  THEN BasisPointsMax ELSE 0

CalculatePriorityFeeCommission(p, truth) ==
  LET end == Max({0, epoch - p.lookback_offset})
      start == Max({0, end - p.lookback_epochs})
      copied == {entry \in EpochRange(account, start, end) : entry.tips # Unset}
      bps(entry) == CalculateRealizedCommissionBps(entry, truth)
      known == \E entry \in EpochRange(account, start, start) :
                 entry.tips # Unset \/ entry.blocks # Unset
  IN  IF known /\ copied # {} /\ epoch >= p.scoring_start_epoch
      THEN AverageUp(MapThenSumSet(bps, copied), Cardinality(copied)) ELSE 0

\* Epochs without an upload lower the minimum.
CalculateRunningBam(p, truth) ==
  LET first == epoch - 1 - p.bam_window
      known == Window("bam", first, epoch - 1)
      missed_uploads == p.bam_window + 1 - Cardinality(known)
      connected == {e \in known : <<"bam", e>> \notin truth}
  IN  Cardinality(connected) >= p.bam_minimum - missed_uploads

\* The ways in which the score cannot be computed.
ScoreErrors(p) ==
  {x \in {"window", "credits", "blocks", "history", "stake"} :
     \/ x = "window" /\ Max({p.mev_range, p.credits_range, p.commission_range,
                             p.bam_window + 1}) > epoch
     \/ x = "credits" /\ p.credits_range = 0
     \/ x = "blocks" /\ TotalBlocksRange(CreditsStart(p), epoch - 1) = {}
     \/ x = "history" /\ account.is_empty
     \/ x = "stake" /\ Latest("credits") /\ ~Latest("stake")}

\* The filters a validator fails.
Filters(p, truth) ==
  {x \in {"mev", "commission", "historical", "blacklisted", "superminority",
          "delinquency", "bam", "authority", "fees", "fee_authority"} :
     \/ x = "mev" /\ CalculateMaxMevCommission(p, truth) > p.mev_bps_threshold
     \/ x = "commission" /\ CalculateMaxCommission(p, truth) > p.commission_threshold
     \/ x = "historical" /\ CalculateHistoricalCommission(truth) > p.historical_threshold
     \/ x = "blacklisted" /\ blacklisted
     \/ x = "superminority" /\ CalculateSuperminority(p, truth)
     \/ x = "delinquency" /\ Delinquent(p)
     \/ x = "bam" /\ ~CalculateRunningBam(p, truth)
     \/ x = "authority" /\ BadAuthority(truth)
     \/ x = "fees" /\ CalculatePriorityFeeCommission(p, truth)
                        > p.fee_max_bps + p.fee_margin_bps
     \/ x = "fee_authority" /\ BadFeeAuthority}

Score(p, truth) ==
  IF Filters(p, truth) # {} THEN 0
  ELSE EncodeValidatorScore(CalculateMaxCommission(p, truth),
                            CalculateAvgMevCommission(p, truth),
                            account.age, VoteCreditsAvg(p))
-----------------------------------------------------------------------------
(* instant_unstake_validator, in the second half of the epoch *)

\* With blocks in this epoch and no credits yet.
InstantDelinquency ==
  ~cluster.is_empty /\ Newest(cluster).total_blocks # 0 /\ ~Latest("credits")

InstantMevCommission(truth) ==
  MaxOr({MevCommission(truth, e) : e \in Window("mev", Max({0, epoch - 1}), epoch)}, 0)

InstantCommission(truth) ==
  IF Latest("commission") THEN Commission(truth, Newest(account).epoch) ELSE CommissionMax

InstantUnstake(p, truth) ==
  {x \in {"delinquency", "mev", "commission", "blacklisted", "authority", "fee_authority"} :
     \/ x = "delinquency" /\ InstantDelinquency
     \/ x = "mev" /\ InstantMevCommission(truth) > p.mev_bps_threshold
     \/ x = "commission" /\ InstantCommission(truth) > p.commission_threshold
     \/ x = "blacklisted" /\ blacklisted
     \/ x = "authority" /\ BadAuthority(truth)
     \/ x = "fee_authority" /\ BadFeeAuthority}
-----------------------------------------------------------------------------
(* The program and its readers *)

\* A setup with "score" has both accounts: every slot of an epoch has a block.
EpochsHaveBlocks ==
  /\ slot' = FirstSlot(epoch')
  /\ produced' = 0 .. slot' - 1
  /\ UNCHANGED <<cluster, seen>>

Scored == "score" \in setup.uploads

ScoredNext ==
  \/ ~Scored /\ ProgramNext /\ UNCHANGED scoreVars
  \/ Scored /\ Next /\ EpochsHaveBlocks /\ UNCHANGED scoreVars
  \/ Scored /\ CopyClusterInfo /\ UNCHANGED scoreVars
  \/ Scored /\ ConfigNext /\ UNCHANGED <<vars, clusterVars>>

ScoredInit == Init /\ ClusterInit /\ parameters = NoParameters /\ blacklisted = FALSE

ScoredSpec == ScoredInit /\ [][ScoredNext]_<<vars, clusterVars, scoreVars>>
-----------------------------------------------------------------------------
(* Properties *)

\* One thing that may have been bad, in one epoch, or nothing.
Truths ==
  {{}} \cup {{<<what, e>>} :
               what \in {"commission", "mev", "authority", "superminority", "fees", "bam"},
               e \in 0 .. epoch}

Scorable ==
  parameters # NoParameters /\ VoteRecent /\ ClusterRecent /\ ScoreErrors(parameters) = {}

\* A validator that is given a score now is not one to unstake at once for its
\* commissions, its authorities or the blacklist, although the two read different
\* windows, treat missing data differently and facts arrive in any order. A
\* mev_commission_range of 0 is exempt: the score then ignores the epoch before.
ScoredThenKept ==
  Scorable /\ parameters.mev_range >= 1 =>
    \A truth \in Truths :
      Score(parameters, truth) > 0 =>
        InstantUnstake(parameters, truth) \subseteq {"delinquency"}

\* Parameters that validate accepted, in whatever epoch, with a credits range of at
\* least 1, never keep a validator from being scored whose accounts were written in
\* this epoch: "If not, scoring fails and we wait for the stake oracle".
ScoringDefined ==
  /\ parameters # NoParameters
  /\ VoteRecent /\ ClusterRecent
  /\ parameters.credits_range >= 1
  /\ Latest("stake")
  => ScoreErrors(parameters) = {}

\* A validator that voted in every epoch of the window is not delinquent, however
\* late its vote account was copied, if its history reaches back to the window and a
\* vote account remembers as much as the window asks for.
ActiveNotDelinquent ==
  /\ Scorable
  /\ CreditsStart(parameters) .. epoch - 1 \subseteq voted
  /\ since \in 0 .. CreditsStart(parameters)
  /\ parameters.credits_range < CreditHistory
  => ~Delinquent(parameters)

\* "we retroactively fill credits for last 64 epochs": the same of a validator
\* whose history begins later. Its earlier epochs get no entry.
RetroactivelyFilled ==
  /\ Scorable
  /\ CreditsStart(parameters) .. epoch - 1 \subseteq voted
  => ~Delinquent(parameters)

\* "Validation will throw an error if any of the parameters are invalid": parameters
\* that are accepted can be scored with. A credits range of 0 cannot.
AdmissibleIsScorable ==
  /\ parameters # NoParameters
  /\ VoteRecent /\ ClusterRecent /\ Latest("stake")
  => ScoreErrors(parameters) = {}
=============================================================================
