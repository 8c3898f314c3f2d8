--------------------------------- MODULE Money ---------------------------------
(***************************************************************************)
(* Amounts in whole paise and the ways the code rounds them                *)
(* (packages/core/src/lib/money.ts).                                       *)
(***************************************************************************)
EXTENDS Integers, Sequences, FiniteSetsExt, SequencesExt

SumOf(s) == FoldLeft(+, 0, s)
Abs(n) == IF n < 0 THEN -n ELSE n

\* n / d to the nearest whole number: a half goes up (Math.round), or away from zero (roundHalfUp).
Nearest(n, d) == (2 * n + d) \div (2 * d)
HalfUp(n, d) == IF n < 0 THEN -Nearest(-n, d) ELSE Nearest(n, d)

Percent(a, pct) == HalfUp(a * pct, 100)
\* The tax inside a price that includes it.
InclusiveTax(gross, pct) == IF pct = 0 THEN 0 ELSE HalfUp(gross * pct, 100 + pct)
RoundToWholeUnit(a) == 100 * HalfUp(a, 100)

\* a in parts as the weights say; what the division leaves goes to the first parts, a paisa each.
Allocate(a, weights) ==
  LET whole == SumOf(weights)
      part(i) == (a * weights[i]) \div whole
      over == a - SumOf([i \in DOMAIN weights |-> part(i)])
      n == Len(weights)
  IN  [i \in DOMAIN weights |->
         IF whole <= 0 THEN 0 ELSE part(i) + over \div n + (IF i <= over % n THEN 1 ELSE 0)]
=============================================================================
