---------------------------- MODULE MCDirectedStake ----------------------------
(* Small instances of DirectedStake and DirectedTickets for TLC. *)
EXTENDS DirectedTickets

CONSTANTS v1, v2, v3, s1, s2

MCVotes == {v1, v2, v3}
MCTwoVotes == {v1, v2}
MCNoValidator == <<>>
MCTwoValidators == <<v1, v2>>
MCStakers == {s1, s2}
MCOffers ==
  {<<>>} \cup {<<[vote |-> v, bps |-> 2]>> : v \in Votes}
    \cup {<<[vote |-> v, bps |-> 1], [vote |-> w, bps |-> b]>> :
            <<v, w, b>> \in {x \in Votes \X Votes \X (1 .. 2) : x[1] # x[2]}}
MCParts == {"amounts", "seats", "tickets"}
MCSeatsOnly == {"seats"}
MCTicketsOnly == {"tickets"}
Interchangeable == Permutations(Votes)
MCSyncOnly == {0}
MCMovesOfOne == -1 .. 1
MCNone == {}
=============================================================================
