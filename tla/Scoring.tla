------------------------------- MODULE Scoring -------------------------------
(***************************************************************************)
(* The arithmetic of points (utils/scoring.py), on integers.               *)
(*                                                                         *)
(* The code computes in floating point and rounds with round(): the exact  *)
(* quotient is modelled as a numerator over a positive denominator, ties   *)
(* go to the even neighbour.                                               *)
(***************************************************************************)
EXTENDS Integers

(* The larger of two points values, max(a, b).                             *)
AtLeast(a, b) == IF a >= b THEN a ELSE b

(* round(num / den), den > 0: half to even.                                *)
Round(num, den) ==
    LET q == (2 * num + den) \div (2 * den)
        tie == (2 * num + den) % (2 * den) = 0
    IN  IF tie /\ q % 2 = 1 THEN q - 1 ELSE q

(* Mutant: the floor is forgotten. *)
DynamicValue_NoFloor(initial, minimum, decay, solves) ==
    Round(initial * decay * decay + (minimum - initial) * solves * solves,
          decay * decay)

(* Mutant: the sign of the quadratic is swapped. *)
DynamicValue_Rising(initial, minimum, decay, solves) ==
    AtLeast(Round(initial * decay * decay
                    + (initial - minimum) * solves * solves, decay * decay),
            minimum)

(* dynamic_value: quadratic decay from initial to minimum over `decay`     *)
(* solves, then flat.                                                      *)
DynamicValue(initial, minimum, decay, solves) ==
    IF decay <= 0
    THEN AtLeast(initial, minimum)
    ELSE AtLeast(Round(initial * decay * decay
                         + (minimum - initial) * solves * solves,
                       decay * decay),
                 minimum)

(* The scoring fields of a Challenge row.                                  *)
ScoringTypes == {"static", "dynamic"}

(* challenge_value: what the challenge is worth after so many solves.      *)
ChallengeValue(ch, solves) ==
    IF ch.scoring = "dynamic"
    THEN DynamicValue(ch.points, ch.minimum, ch.decay, solves)
    ELSE ch.points

(* Mutant: the penalty is not floored. *)
PenalisedValue_Negative(base, pct, wrong) ==
    IF pct = 0 \/ wrong <= 0 THEN base
    ELSE base - Round(base * pct * wrong, 100)

(* Mutant: one wrong guess is free. *)
PenalisedValue_FirstFree(base, pct, wrong) ==
    IF pct = 0 \/ wrong <= 1 THEN base
    ELSE AtLeast(0, base - Round(base * pct * (wrong - 1), 100))

(* penalised_value: pct percent of the base per wrong guess, floored at 0. *)
PenalisedValue(base, pct, wrong) ==
    IF pct = 0 \/ wrong <= 0 THEN base
    ELSE AtLeast(0, base - Round(base * pct * wrong, 100))

(* Mutant: no floor. *)
Revalued_NoFloor(base, penalty) == base - penalty

(* The CASE of the re-value sweep: the new base less the solver's own      *)
(* recorded penalty, floored at 0.                                         *)
Revalued(base, penalty) == IF base - penalty < 0 THEN 0 ELSE base - penalty
=============================================================================
