------------------------------ MODULE Conformal ------------------------------
(***************************************************************************)
(* Split-conformal calibration (ml/calibration/conformal.py) over whole    *)
(* numbers: scores, the finite-sample order statistic without              *)
(* interpolation, and the corrected intervals.  A sample is a function     *)
(* from its observations to their scores.                                  *)
(***************************************************************************)
EXTENDS Integers, FiniteSets

CoverageScale == 1000

\* _rank: the ceiling of (n + 1) times the coverage.
Rank(n, millis) == ((n + 1) * millis + CoverageScale - 1) \div CoverageScale

\* The database takes the ceiling of the exact quotient.
DatabaseRank(n, millis) == -((-((n + 1) * millis)) \div CoverageScale)

SampleSize(scores) == Cardinality(DOMAIN scores)

AtMost(scores, v) == Cardinality({i \in DOMAIN scores : scores[i] <= v})

Below(scores, v) == Cardinality({i \in DOMAIN scores : scores[i] < v})

\* The k-th smallest score: sorted(scores)[k - 1].
OrderStatistic(scores, k) ==
  CHOOSE v \in {scores[i] : i \in DOMAIN scores} : Below(scores, v) < k /\ k <= AtMost(scores, v)

\* finite_sample_quantile refuses (InsufficientCalibrationData) a rank beyond
\* the sample instead of taking its maximum.
HasQuantile(scores, millis) == Rank(SampleSize(scores), millis) <= SampleSize(scores)

FiniteSampleQuantile(scores, millis) ==
  LET n == SampleSize(scores) IN
  [sample |-> n, rank |-> Rank(n, millis), value |-> OrderStatistic(scores, Rank(n, millis))]

\* QuantileSelection and AbsoluteResidualCalibration accept a bucket.
Selected(method, b, millis) ==
  /\ b.sample >= 1 /\ b.rank = Rank(b.sample, millis) /\ b.rank <= b.sample
  /\ method = "empirical_residual" => b.value >= 0

Magnitude(v) == IF v < 0 THEN -v ELSE v

\* An observation is a record [truth, point, lower, upper].
\* absolute_residual_scores and cqr_scores.
Score(method, o) ==
  IF method = "empirical_residual" THEN Magnitude(o.truth - o.point)
  ELSE IF o.lower - o.truth >= o.truth - o.upper THEN o.lower - o.truth ELSE o.truth - o.upper

\* The corrected interval of AbsoluteResidualCalibration and CQRCalibration.
Interval(method, value, o) ==
  IF method = "empirical_residual" THEN <<o.point - value, o.point + value>>
  ELSE <<o.lower - value, o.upper + value>>

\* A negative correction must not empty the interval (ConformalValidationError).
Applies(method, value, o) == Interval(method, value, o)[1] <= Interval(method, value, o)[2]

\* Mutant: the bounds of the interval are excluded.
Covered_Open(method, value, o) ==
  LET i == Interval(method, value, o) IN i[1] < o.truth /\ o.truth < i[2]

\* ~ interval_missed.
Covered(method, value, o) ==
  LET i == Interval(method, value, o) IN i[1] <= o.truth /\ o.truth <= i[2]
=============================================================================
