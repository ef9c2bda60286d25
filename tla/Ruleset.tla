------------------------------ MODULE Ruleset ------------------------------
(* The data-quality rule (resolver/uncertainty.py, RulesetReader): from the  *)
(* scores of a statement to its uncertainty, and from several statements to  *)
(* the uncertainty of an amount.  The numbers are data of the rule, so they  *)
(* are constants here.                                                       *)
(*                                                                           *)
(* A relative uncertainty u is kept as u2 = 48 u^2, an integer: a half-width *)
(* of l quarters gives l^2 (u = l/4/sqrt 3), a band of b quarters 3 b^2.  A   *)
(* combined uncertainty is [tot, var]: sqrt(var)/tot, never evaluated.       *)
EXTENDS Integers, Sequences, FiniteSets, FiniteSetsExt, SequencesExt

CONSTANTS Dims,          \* the scored dimensions the mean expects
          Weight,        \* [Dims -> Nat]: weights of the limit's sum
          ExtraDims,     \* the dimensions of the extra term of the mean
          LimitBands,    \* {[lo, hi, limit]}: weighted sum -> half-width in quarters
          DqsBands,      \* {[lo, hi, dqs, unc]}: mean score -> DQS, u in quarters
          None

ASSUME RulesetAssumption ==
  /\ Weight \in [Dims -> Nat] /\ ExtraDims \subseteq Dims
  /\ \A b \in LimitBands : b.lo < b.hi
  /\ \A b \in DqsBands : b.lo < b.hi /\ b.dqs \in Nat

(* op(value), with the value computed once.                                  *)
Once(value, op(_)) == CHOOSE result \in {op(x) : x \in {value}} : TRUE

Total(scores, dims) == MapThenSumSet(LAMBDA d : scores[d], dims)

(* The half-width of a complete score vector (a function on dimensions).     *)
limit_from_scores(scores) ==
  LET wsum == MapThenSumSet(LAMBDA d : Weight[d] * scores[d], Dims)
      band == {b \in LimitBands : b.lo <= wsum /\ wsum < b.hi}
  IN  IF Dims \subseteq DOMAIN scores /\ band # {}
      THEN (CHOOSE b \in band : TRUE).limit ELSE None

(* The mean over the scores and one more term, the mean of the extra         *)
(* dimensions, as [num, den]; a vector with a gap has none.                  *)
mean_data_quality(scores) ==
  LET n == Cardinality(Dims)
      k == Cardinality(ExtraDims)
  IN  IF DOMAIN scores = {} \/ ~(Dims \subseteq DOMAIN scores) THEN None
      ELSE IF k = 0 THEN [num |-> Total(scores, Dims), den |-> n]
      ELSE [num |-> k * Total(scores, Dims) + Total(scores, ExtraDims), den |-> k * (n + 1)]

band_for_mean(mean) ==
  LET band == {b \in DqsBands : b.lo * mean.den <= mean.num /\ mean.num < b.hi * mean.den}
  IN  IF band = {} THEN None ELSE CHOOSE b \in band : TRUE

OfLimit(limit) == limit * limit
OfBand(unc) == 3 * unc * unc

(* What the scores alone say of a statement.                                 *)
statement_uncertainty(scores) ==
  Once(mean_data_quality(scores), LAMBDA mean :
    IF mean = None THEN None
    ELSE Once(band_for_mean(mean), LAMBDA band :
           IF band = None THEN None ELSE [u2 |-> OfBand(band.unc), dqs |-> band.dqs]))

(* Root sum of squares weighted by contribution, over a set of terms         *)
(* [of, val, u2, dqs], `of` telling equal terms apart; the DQS is the worst. *)
combine(terms) ==
  LET tot == MapThenSumSet(LAMBDA t : t.val, terms)
      scored == {t.dqs : t \in terms} \ {None}
  IN  IF tot <= 0 THEN None
      ELSE [tot |-> tot,
            var |-> MapThenSumSet(LAMBDA t : t.val * t.val * t.u2, terms),
            dqs |-> IF scored = {} THEN None ELSE Max(scored)]
=============================================================================
