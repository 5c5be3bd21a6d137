------------------------ MODULE MCStewardStateMachine ------------------------
(* Small instances of StewardStateMachine for TLC. *)
EXTENDS StewardStateMachine, TLC

CONSTANTS v1, v2, v3

MCVotes == {v1, v2, v3}
MCTwoVotes == {v1, v2}
MCOne == {v1}
MCNone == {}
MCOneValidator == <<v1>>
MCTwoValidators == <<v1, v2>>
MCThreeValidators == <<v1, v2, v3>>

\* The validators that are not in the pool at first are interchangeable.
Newcomers == Permutations({v2, v3})
=============================================================================
