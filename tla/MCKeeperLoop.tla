---------------------------- MODULE MCKeeperLoop ----------------------------
\* Two epochs of 40 slots, looked at before and after each mark.
EXTENDS KeeperLoop

CONSTANT a

Marks == {0, 1, 18, 21, 38}
Flags == {{"ClusterHistory", "VoteAccount", "Steward"}, {"StakeUpload"}, {"GossipUpload"},
          {"MevCommission", "MevEarned"}, {"VoteAccount", "PriorityFeeCommission"},
          {"CopyIsBamConnected"}}
=============================================================================
