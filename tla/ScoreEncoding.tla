---------------------------- MODULE ScoreEncoding ----------------------------
(***************************************************************************)
(* encode_validator_score: four numbers in one, compared tier by tier.      *)
(* The widths of the tiers are parameters; the program's are 2^14, 2^17     *)
(* and 2^25, with commissions of at most 100 per cent and 10000 bps.        *)
(***************************************************************************)
EXTENDS Integers

CONSTANTS
  CommissionMax,   \* COMMISSION_MAX
  BasisPointsMax,  \* BASIS_POINTS_MAX
  MevWidth, AgeWidth, CreditsWidth

ASSUME EncodingAssumption ==
  /\ CommissionMax \in Nat
  /\ BasisPointsMax \in Nat
  /\ MevWidth \in Nat /\ BasisPointsMax < MevWidth
  /\ AgeWidth \in Nat \ {0}
  /\ CreditsWidth \in Nat \ {0}

Capped(x, max) == IF x <= max THEN x ELSE max

\* Commissions are inverted: less is better.
InflationScore(commission) == CommissionMax - Capped(commission, CommissionMax)
MevScore(bps) == BasisPointsMax - Capped(bps, BasisPointsMax)
AgeScore(age) == Capped(age, AgeWidth - 1)
CreditsScore(credits) == Capped(credits, CreditsWidth - 1)

\* A shift by the width of a tier makes room for it.
Tier(upper, width, x) == upper * width + x

EncodeValidatorScore(commission, bps, age, credits) ==
  Tier(Tier(Tier(InflationScore(commission), MevWidth, MevScore(bps)),
            AgeWidth, AgeScore(age)),
       CreditsWidth, CreditsScore(credits))

\* "inflation commission > MEV commission > age > credits": what the comparison of
\* two scores is to mean, x and y being [commission, bps, age, credits].
Better(x, y) ==
  \/ InflationScore(x.commission) > InflationScore(y.commission)
  \/ /\ InflationScore(x.commission) = InflationScore(y.commission)
     /\ \/ MevScore(x.bps) > MevScore(y.bps)
        \/ /\ MevScore(x.bps) = MevScore(y.bps)
           /\ \/ AgeScore(x.age) > AgeScore(y.age)
              \/ /\ AgeScore(x.age) = AgeScore(y.age)
                 /\ CreditsScore(x.credits) > CreditsScore(y.credits)

Encode(x) == EncodeValidatorScore(x.commission, x.bps, x.age, x.credits)

Components == [commission : Nat, bps : Nat, age : Nat, credits : Nat]
=============================================================================
