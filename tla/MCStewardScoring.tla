--------------------------- MODULE MCStewardScoring ---------------------------
(* Small instances of StewardScoring for TLC. *)
EXTENDS StewardScoring, TLC

CONSTANTS v1, v2, v3

MCVotes == {v1, v2, v3}
MCTwoValidators == <<v1, v2>>
MCThreeValidators == <<v1, v2, v3>>
=============================================================================
