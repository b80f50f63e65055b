----------------------------- MODULE WalkForward -----------------------------
(***************************************************************************)
(* The baseline forecasters with their empirical residual quantiles        *)
(* (ml/models/baselines.py), the expanding-window evaluation               *)
(* (ml/evaluation/walk_forward.py) with its metrics, and the assembly of a *)
(* served forecast (app/services/forecasting.py), over whole numbers.      *)
(* A coverage is in thousandths, a level in halves of them, so that the    *)
(* ends of every interval are whole; interpolation and slopes round down,  *)
(* and an averaged score is kept as the sum it averages.  Errors are put   *)
(* in order by their ranks (OrderStatistic).                               *)
(***************************************************************************)
EXTENDS Sums, Conformal

Median == 1000
Whole  == 2000

\* A model is [name, kind, season]; the season counts for "seasonal" only.
MinimumHistory(m) ==
  CASE m.kind = "naive" -> 1 [] m.kind = "drift" -> 2 [] m.kind = "seasonal" -> m.season

ForecastAt(m, h, step) ==
  CASE m.kind = "naive"    -> h[Len(h)]
    [] m.kind = "drift"    -> h[Len(h)] + ((h[Len(h)] - h[1]) * step) \div (Len(h) - 1)
    [] m.kind = "seasonal" -> h[(Len(h) - m.season + 1) + ((step - 1) % m.season)]

Prefix(h, n) == SubSeq(h, 1, n)

\* One error per prefix that has an actual value step observations later.
ExpandingOriginErrors(m, h, step) ==
  [k \in 1..(Len(h) - step - MinimumHistory(m) + 1) |->
     LET p == k + MinimumHistory(m) - 1 IN h[p + step] - ForecastAt(m, Prefix(h, p), step)]

Ordered(s) == [k \in DOMAIN s |-> OrderStatistic(s, k)]

\* Linear interpolation at position (n - 1) * level of the ordered values.
LinearQuantile(sorted, level) ==
  LET position == (Len(sorted) - 1) * level
      lower    == position \div Whole
      fraction == position % Whole
  IN IF fraction = 0 THEN sorted[lower + 1]
     ELSE sorted[lower + 1] + (fraction * (sorted[lower + 2] - sorted[lower + 1])) \div Whole

\* predict_quantiles refuses fewer than two errors, or errors without spread.
HasQuantiles(m, h, horizon) ==
  \A step \in 1..horizon :
    LET e == ExpandingOriginErrors(m, h, step)
    IN Len(e) >= 2 /\ \E i \in DOMAIN e : e[i] # e[1]

Fits(m, h) == Len(h) >= MinimumHistory(m)

\* The forecast, shifted by the recentred error at the level.
QuantileAt(m, h, step, level) ==
  LET e == Ordered(ExpandingOriginErrors(m, h, step))
  IN ForecastAt(m, h, step) + LinearQuantile(e, level) - LinearQuantile(e, Median)

LowerLevel(coverage) == Median - coverage
UpperLevel(coverage) == Median + coverage

\* The median and the endpoints of every central interval.
QuantileLevels(coverages) ==
  {Median} \cup {LowerLevel(c) : c \in coverages} \cup {UpperLevel(c) : c \in coverages}

Distribution(m, h, horizon, coverages) ==
  [point     |-> [step \in 1..horizon |-> ForecastAt(m, h, step)],
   quantiles |-> [level \in QuantileLevels(coverages) |->
                    [step \in 1..horizon |-> QuantileAt(m, h, step, level)]]]

\* _validate_distribution: no crossing, and the median is the point forecast.
ValidDistribution(d) ==
  /\ \A a, b \in DOMAIN d.quantiles : a < b =>
       \A step \in DOMAIN d.point : d.quantiles[a][step] <= d.quantiles[b][step]
  /\ d.quantiles[Median] = d.point

-----------------------------------------------------------------------------
(* Walk-forward evaluation under a configuration c = [initial, horizon,    *)
(* stride, coverages].                                                     *)

\* range(initial, n - horizon + 1, stride): the origins, in their order.
OriginCount(n, c) ==
  IF n < c.initial + c.horizon THEN 0 ELSE (n - c.horizon - c.initial) \div c.stride + 1

OriginAt(k, c) == c.initial + (k - 1) * c.stride

Origins(n, c) == {OriginAt(k, c) : k \in 1..OriginCount(n, c)}

\* Mutant: the training window reaches one observation into the targets.
Training_PeeksAhead(s, t) == Prefix(s, t + 1)

\* What the model is fitted to at origin t.
Training(s, t) == Prefix(s, t)

OriginForecast(s, m, t, c) ==
  [train_end |-> t, actual |-> SubSeq(s, t + 1, t + c.horizon),
   forecast |-> Distribution(m, Training(s, t), c.horizon, c.coverages)]

\* A failed origin fails the whole evaluation.
Evaluable(s, m, c) ==
  /\ Len(s) >= c.initial + c.horizon
  /\ \A t \in Origins(Len(s), c) :
       /\ Fits(m, Training(s, t))
       /\ HasQuantiles(m, Training(s, t), c.horizon)
       /\ ValidDistribution(Distribution(m, Training(s, t), c.horizon, c.coverages))

Evaluation(s, m, c) ==
  [k \in 1..OriginCount(Len(s), c) |-> OriginForecast(s, m, OriginAt(k, c), c)]

-----------------------------------------------------------------------------
(* Metrics.  Every horizon step is scored by itself, over all the origins  *)
(* of an evaluation; the means over steps and levels are left out.         *)

AbsoluteError(actual, point) == IF actual < point THEN point - actual ELSE actual - point

TotalAbsoluteError(evaluation, step) ==
  Total([k \in DOMAIN evaluation |->
           AbsoluteError(evaluation[k].actual[step], evaluation[k].forecast.point[step])])

Pinball(actual, quantile, level) ==
  IF actual >= quantile THEN level * (actual - quantile) ELSE (Whole - level) * (quantile - actual)

TotalPinball(evaluation, step, level) ==
  Total([k \in DOMAIN evaluation |->
           Pinball(evaluation[k].actual[step], evaluation[k].forecast.quantiles[level][step], level)])

\* The origins inside the inclusive central interval of a coverage.
CoveredOrigins(evaluation, step, coverage) ==
  {k \in DOMAIN evaluation :
     /\ evaluation[k].forecast.quantiles[LowerLevel(coverage)][step] <= evaluation[k].actual[step]
     /\ evaluation[k].actual[step] <= evaluation[k].forecast.quantiles[UpperLevel(coverage)][step]}

-----------------------------------------------------------------------------
(* A served forecast of a price: prices are never negative.                *)

Floored(v) == IF v < 0 THEN 0 ELSE v

Served(d) ==
  [point     |-> [step \in DOMAIN d.point |-> Floored(d.point[step])],
   quantiles |-> [level \in DOMAIN d.quantiles |->
                    [step \in DOMAIN d.point |-> Floored(d.quantiles[level][step])]]]
=============================================================================
