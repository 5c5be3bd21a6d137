------------------------------ MODULE MCRebalance ------------------------------
(* Small instances of Rebalance for TLC. *)
EXTENDS Rebalance

MCCaps == [deposit |-> 2000, instant |-> 2000, scoring |-> 2000]
MCHighCaps == [deposit |-> 5000, instant |-> 5000, scoring |-> 5000]
MCNoTargets == [i \in {} |-> 0]
MCTargets == [i \in {1} |-> 6]
MCIdentity == [i \in Indices |-> i]
MCNext == [i \in Indices |-> (i + 1) % NumPoolValidators]
MCStakes == {<<6, 2, 4>>, <<1, 9, 3>>}
MCInitialStakes == {[i \in Indices |-> s[i + 1]] : s \in MCStakes}
MCTwoStakes == {[i \in Indices |-> s[i + 1]] : s \in {<<2, 15>>, <<8, 5>>}}
MCWithdrawals == {{"withdraw"}}
MCReserves == {8}
MCLowReserves == {5}
MCInstant == {{}, {0}}
MCDeposits == {{"deposit"}}
MCAdmin == {{"admin", "deposit_sol"}}
MCMoves == {{"deposit", "withdraw"}, {"deposit", "withdraw_sol"}, {"admin", "deposit_sol"}}
MCNoMoves == {{}}
MCNoInstant == {{}}
=============================================================================
