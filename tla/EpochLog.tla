------------------------------- MODULE EpochLog -------------------------------
(***************************************************************************)
(* What a validator's history promises its readers: a record for each of   *)
(* the latest epochs that anything is known about, at most Capacity of     *)
(* them.  Only the oldest records are given up, and only for younger ones  *)
(* when there is no room; a fact once recorded is not lost, and what is    *)
(* final is not changed either.                                            *)
(***************************************************************************)
EXTENDS Integers, FiniteSets, FiniteSetsExt

CONSTANTS
  Capacity,
  Unset,
  Facts,     \* names of the facts that a record holds
  Final      \* those that never change once recorded

VARIABLE log \* a record for each epoch that is known

Epochs == DOMAIN log

Init == Epochs = {}

\* The epochs after a step: the latest of the old ones and the new.
Latest(added) ==
  LET all == Epochs \cup added
  IN  {e \in all : Cardinality({f \in all : f >= e}) <= Capacity}

\* Epochs are added behind the oldest known one.
Extends(added) == Epochs # {} => \A e \in added : e > Min(Epochs)

Keeps(before, after) ==
  /\ \A f \in Facts : before[f] # Unset => after[f] # Unset
  /\ \A f \in Final : before[f] # Unset => after[f] = before[f]

Next ==
  LET added == DOMAIN log' \ Epochs
  IN  /\ Extends(added)
      /\ DOMAIN log' = Latest(added)
      /\ \A e \in Epochs \cap DOMAIN log' : Keeps(log[e], log'[e])

Spec == Init /\ [][Next]_log
=============================================================================
