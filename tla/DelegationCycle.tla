-------------------------- MODULE DelegationCycle ---------------------------
(***************************************************************************)
(* What a scoring cycle promises, without arrays and indices: validators   *)
(* are scored one at a time, then the best NumDelegationValidators of them *)
(* with a score above zero get an equal share of the pool, and keep it     *)
(* until the next cycle or until they leave.                               *)
(***************************************************************************)
EXTENDS Integers, FiniteSets

CONSTANTS
  Votes,                    \* vote accounts
  MaxScore,                 \* bound on scores
  NumDelegationValidators   \* num_delegation_validators

VARIABLES
  scored,    \* the scores of this cycle, a function on the validators scored
  shares     \* a function on the delegated validators: n for a share of 1/n

vars == <<scored, shares>>

Nobody == [v \in {} |-> 0]

Without(f, v) == [u \in DOMAIN f \ {v} |-> f[u]]

\* D is a best choice of delegates among the validators scored.
Best(D) ==
  LET positive == {v \in DOMAIN scored : scored[v] > 0}
  IN  /\ D \subseteq positive
      /\ \/ D = positive /\ Cardinality(D) <= NumDelegationValidators
         \/ Cardinality(D) = NumDelegationValidators
      /\ \A d \in D, u \in DOMAIN scored \ D : scored[u] <= scored[d]

Init == scored = Nobody /\ shares = Nobody

\* The first validator scored opens a cycle: everything before is forgotten.
Open(v, score) ==
  /\ scored' = [u \in {v} |-> score]
  /\ shares' = Nobody

Score(v, score) ==
  /\ v \notin DOMAIN scored
  /\ scored' = [u \in DOMAIN scored \cup {v} |-> IF u = v THEN score ELSE scored[u]]
  /\ UNCHANGED shares

Delegate ==
  /\ shares = Nobody
  /\ \E D \in SUBSET DOMAIN scored :
       /\ Best(D)
       /\ shares' = [d \in D |-> Cardinality(D)]
  /\ scored' = Nobody

Leave(v) ==
  /\ scored' = Without(scored, v)
  /\ shares' = Without(shares, v)

\* A cycle that is interrupted by the end of the epoch is scored again.
Abandon ==
  /\ scored' = Nobody
  /\ UNCHANGED shares

Next ==
  \/ \E v \in Votes, score \in 0 .. MaxScore : Open(v, score) \/ Score(v, score)
  \/ Delegate
  \/ \E v \in Votes : Leave(v)
  \/ Abandon

Spec == Init /\ [][Next]_vars
=============================================================================
