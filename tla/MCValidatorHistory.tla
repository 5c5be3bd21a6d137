-------------------------- MODULE MCValidatorHistory --------------------------
(* Small instances of ValidatorHistory, ClusterHistory and ValidatorScore for TLC. *)
EXTENDS ValidatorScore

Explore(uploads, epochs, time) ==
  [uploads |-> uploads, epochs |-> epochs, time |-> time]

MCScored ==
  {Explore({"score"}, 3, 0), Explore({"score", "mev"}, 2, 0), Explore({"score", "stake"}, 2, 0),
   Explore({"score", "bam"}, 2, 0), Explore({"score", "tips"}, 2, 0)}
MCSetups == MCScored \cup
  {Explore({"mev"}, 4, 0), Explore({"tips"}, 4, 0), Explore({"gossip"}, 2, 2),
   Explore({"cluster"}, 2, 0), Explore({"stake", "blocks"}, 3, 0), Explore({"bam", "age"}, 3, 0)}
MCRefuted ==
  {Explore({"score", "stake"}, 2, 0), Explore({"cluster"}, 2, 0), Explore({"age"}, 3, 0)}

MCInitialParameters ==
  [mev_range |-> 1, credits_range |-> 1, commission_range |-> 1,
   mev_bps_threshold |-> 1, commission_threshold |-> 0, historical_threshold |-> 1,
   bam_window |-> 1, bam_minimum |-> 1, lookback_epochs |-> 1, lookback_offset |-> 1,
   fee_max_bps |-> 1, fee_margin_bps |-> 0, scoring_start_epoch |-> 0]
MCParameterUpdates ==
  {[credits_range |-> 2, commission_range |-> 0, historical_threshold |-> 0]}
MCFeeUpdates == {[lookback_offset |-> 0]}
MCEmptyWindow == {[credits_range |-> 0]}
=============================================================================
