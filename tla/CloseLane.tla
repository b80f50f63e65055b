------------------------------ MODULE CloseLane ------------------------------
(***************************************************************************)
(* The daily life of one price lane: the scheduled and manual ingestion    *)
(* tasks with the fetch windows they resolve, the vendor's late answers,   *)
(* a client that pages through the stored bars, and what is computed from  *)
(* them.                                                                   *)
(*                                                                         *)
(* Time is counted in days; a bar is known by its session, its values are  *)
(* of interest only to the computations (Indicators, WalkForward), which   *)
(* are checked for every assignment of values to the stored sessions.      *)
(* A behaviour follows one lane: "closes" (ingest_forecast_closes.py, one  *)
(* vendor request per session, gaps repaired) or "prices"                  *)
(* (ingest_prices.py, one request per window, from the watermark).  The    *)
(* transactions and versions of an upsert are BarStore's.                  *)
(***************************************************************************)
EXTENDS Indicators, WalkForward, Adjustment

CONSTANTS
  FirstDay,         \* the day the lane is first ingested
  MaxDay,           \* bound: days
  Sessions,         \* the days on which the exchange trades
  Lookback,         \* DEFAULT_BOOTSTRAP_DAYS, DEFAULT_LOOKBACK_DAYS
  Overlap,          \* DEFAULT_TRAILING_OVERLAP_DAYS
  PageLimit,        \* filters.limit of the paging client
  MaxObservations,  \* MAX_OBSERVATIONS of the indicator window
  MaxFailures,      \* bound: crashes and failed requests
  Shapes,           \* the bars [high, low, close] the computations are checked with
  IndicatorConfig,  \* the periods of the indicator bundle
  EvaluationConfigs, Models,
  MaxRawInputs,     \* _MAX_RAW_INPUTS of a factor set
  Actions,          \* splits and dividends, without their session
  Operands          \* whole numbers the decimal functions are compared on

Days  == 1..MaxDay
Lanes == {"closes", "prices"}

ASSUME LaneAssumption ==
  /\ MaxDay \in Nat \ {0} /\ Sessions \subseteq Days /\ 1 \in Sessions /\ FirstDay \in Days
  /\ Lookback \in Nat /\ Overlap \in Nat /\ PageLimit \in Nat \ {0}
  /\ MaxObservations \in Nat \ {0} /\ MaxFailures \in Nat

\* Stored prices are positive and ordered (the bars' CHECK constraints); ratios and
\* cash amounts are positive decimals (_validated_splits, _validated_dividends).
ASSUME WindowAssumption ==
  LET Positives == [c: Nat \ {0}, e: Int] IN
  /\ \A s \in Shapes : /\ s \in [high: Nat \ {0}, low: Nat \ {0}, close: Nat \ {0}]
                        /\ s.low <= s.close /\ s.close <= s.high
  /\ Actions \subseteq [kind: {"split"}, from: Positives, to: Positives]
                      \cup [kind: {"dividend"}, cash: Positives]
  /\ Operands \subseteq Nat \ {0} /\ MaxRawInputs \in Nat

\* What the constructors of IndicatorConfig, WalkForwardConfig and the baselines accept.
ASSUME AnalysisAssumption ==
  LET Periods == Nat \ {0} IN
  /\ IndicatorConfig \in [lag: Periods, sma: Periods, ema: Periods, volatility: Periods, rsi: Periods,
                          fast: Periods, slow: Periods, signal: Periods, bollinger: Periods,
                          width: Periods, atr: Periods]
  /\ IndicatorConfig.fast < IndicatorConfig.slow /\ IndicatorConfig.volatility >= 2
  /\ EvaluationConfigs \subseteq
       [initial: Periods, horizon: Periods, stride: Periods, coverages: SUBSET (1..999)]
  /\ \A m \in Models : m.kind \in {"naive", "drift", "seasonal"} /\ m.season \in Periods

VARIABLES
  lane,       \* the lane this behaviour is about
  day,        \* today
  closed,     \* today's session, if there is one, has closed
  offered,    \* the sessions the vendor can answer for
  stored,     \* the sessions with a bar in the lane
  task,       \* the ingestion task: its phase, window and fetched sessions
  lock,       \* who holds the vendor lock: "nobody", the "task" or an "other" operation
  reader,     \* the paging client: is its walk open, the bars stored when it began that it has not
              \* received, its cursor, the oldest bar received, did each page only have older ones
  failures

laneVars == <<lane, day, closed, offered, stored, task, lock, reader, failures>>

Idle == [phase |-> "idle", start |-> 0, end |-> 0, batch |-> {}]
NoWalk == [open |-> FALSE, owed |-> {}, cursor |-> 0, last |-> 0, descends |-> TRUE]

LaneTypeOK ==
  /\ lane \in Lanes /\ day \in Days /\ closed \in BOOLEAN
  /\ offered \subseteq Sessions /\ stored \subseteq Sessions
  /\ task \in [phase: {"idle", "asking", "storing"}, start: Int, end: Int, batch: SUBSET Sessions]
  /\ lock \in {"nobody", "task", "other"}
  /\ reader \in [open: BOOLEAN, owed: SUBSET Sessions, cursor: Int, last: Int,
                descends: BOOLEAN]
  /\ failures \in Nat

LaneInit ==
  /\ lane \in Lanes
  /\ day = FirstDay /\ closed = (day \in Sessions)
  /\ offered = {s \in Sessions : s < FirstDay} /\ stored = {}
  /\ task = Idle /\ lock = "nobody"
  /\ reader = NoWalk
  /\ failures = 0

-----------------------------------------------------------------------------
(* Calendar and vendor.                                                    *)

Completed == {s \in Sessions : s < day \/ (s = day /\ closed)}

NextDay ==
  /\ day < MaxDay
  /\ day' = day + 1 /\ closed' = FALSE
  /\ UNCHANGED <<lane, offered, stored, task, lock, reader, failures>>

MarketCloses ==
  /\ day \in Sessions /\ ~ closed
  /\ closed' = TRUE
  /\ UNCHANGED <<lane, day, offered, stored, task, lock, reader, failures>>

\* The vendor makes a session's bar available, in any order and with any delay.
VendorPublishes(s) ==
  /\ s \in Completed \ offered
  /\ offered' = offered \cup {s}
  /\ UNCHANGED <<lane, day, closed, stored, task, lock, reader, failures>>

\* Another operation takes or releases the vendor lock.
OtherTakes ==
  /\ lock = "nobody" /\ lock' = "other"
  /\ UNCHANGED <<lane, day, closed, offered, stored, task, reader, failures>>

OtherReleases ==
  /\ lock = "other" /\ lock' = "nobody"
  /\ UNCHANGED <<lane, day, closed, offered, stored, task, reader, failures>>

-----------------------------------------------------------------------------
(* Fetch windows.                                                          *)

LatestCompleted == Max(Completed)

\* The default end: the latest completed session, or today.
DefaultEnd == IF lane = "closes" THEN LatestCompleted ELSE day

\* _effective_start_date: the day after the newest bar, but not later than
\* the trailing overlap.
EffectiveStart(requested, end) ==
  IF stored = {} THEN requested ELSE Min({end - Overlap, Max(stored) + 1})

MissingSessions(start, end) == {s \in Sessions : start <= s /\ s <= end} \ stored

\* Mutant: the watermark alone decides for the lane of closes, too.
FetchStart_NoRepair(requested, end) == EffectiveStart(requested, end)

\* _resolve_fetch_start of both tasks.
FetchStart(requested, end) ==
  IF lane = "closes" /\ MissingSessions(requested, end) # {}
  THEN Min(MissingSessions(requested, end)) ELSE EffectiveStart(requested, end)

\* A task holds the vendor lock while it runs; it is refused when it is taken.
BeginTask(start, end) ==
  /\ task.phase = "idle"
  /\ lock = "nobody" /\ lock' = "task"
  /\ task' = [phase |-> "asking", start |-> start, end |-> end, batch |-> {}]
  /\ UNCHANGED <<lane, day, closed, offered, stored, reader, failures>>

\* Beat, or an operator who names no start.
Scheduled == BeginTask(FetchStart(DefaultEnd - Lookback, DefaultEnd), DefaultEnd)

\* An operator's explicit window switches the watermark off.
Manual == \E start \in Sessions, end \in Sessions :
  start <= end /\ end <= DefaultEnd /\ BeginTask(start, end)

Wanted == {s \in Sessions : task.start <= s /\ s <= task.end}

Ends == task' = Idle /\ lock' = "nobody"

\* get_daily_bars of the two providers: one answer for every session of the
\* window, or the whole window at once with whatever the vendor has.  The
\* answers are those of one instant.
Ask ==
  /\ task.phase = "asking"
  /\ lane = "closes" => Wanted \subseteq offered
  /\ task' = [Idle EXCEPT !.phase = "storing", !.batch = Wanted \cap offered]
  /\ UNCHANGED <<lane, day, closed, offered, stored, lock, reader, failures>>

\* One session without an answer fails the task: nothing of it is stored.
Unanswered ==
  /\ task.phase = "asking" /\ lane = "closes" /\ ~ (Wanted \subseteq offered)
  /\ Ends
  /\ UNCHANGED <<lane, day, closed, offered, stored, reader, failures>>

\* _upsert_symbol_bars.
Store ==
  /\ task.phase = "storing"
  /\ stored' = stored \cup task.batch
  /\ Ends
  /\ UNCHANGED <<lane, day, closed, offered, reader, failures>>

\* A failed request or transaction, or the death of the worker.
TaskFails ==
  /\ task.phase # "idle" /\ failures < MaxFailures
  /\ failures' = failures + 1
  /\ Ends
  /\ UNCHANGED <<lane, day, closed, offered, stored, reader>>

-----------------------------------------------------------------------------
(* A client reads the stored bars page by page (app/services/prices.py).   *)

Newest(n, rows) == {s \in rows : Cardinality({t \in rows : t > s}) < n}

\* Mutant: the walk goes on before the extra row that showed there is more.
NextEnd_ExtraRow(rows) == Min(rows)

\* The next page ends before the last row of this one.
NextEnd(rows) == Min(Newest(PageLimit, rows))

ReadPage(cursor, owed, last, descends) ==
  LET rows == Newest(PageLimit + 1, {s \in stored : s < cursor})
      more == Cardinality(rows) > PageLimit
      page == Newest(PageLimit, rows)
  IN reader' = [open |-> more, owed |-> owed \ page,
                cursor |-> IF more THEN NextEnd(rows) ELSE 0,
                last |-> IF more THEN Min(page) ELSE 0,
                descends |-> descends /\ \A s \in page : s < last]

StartWalk ==
  /\ ~ reader.open
  /\ ReadPage(MaxDay + 1, stored, MaxDay + 1, TRUE)
  /\ UNCHANGED <<lane, day, closed, offered, stored, task, lock, failures>>

FollowWalk ==
  /\ reader.open
  /\ ReadPage(reader.cursor, reader.owed, reader.last, reader.descends)
  /\ UNCHANGED <<lane, day, closed, offered, stored, task, lock, failures>>

-----------------------------------------------------------------------------
LaneNext ==
  \/ NextDay \/ MarketCloses \/ OtherTakes \/ OtherReleases
  \/ \E s \in Sessions : VendorPublishes(s)
  \/ Scheduled \/ Manual \/ Ask \/ Unanswered \/ Store \/ TaskFails
  \/ StartWalk \/ FollowWalk

\* Days pass, sessions close and the vendor answers for each in the end; the
\* schedule starts the task again and again and is not refused for ever; a
\* task that runs goes on, and other operations release the lock.
LaneFairness ==
  /\ WF_laneVars(NextDay) /\ WF_laneVars(MarketCloses)
  /\ \A s \in Sessions : WF_laneVars(VendorPublishes(s))
  /\ SF_laneVars(Scheduled) /\ WF_laneVars(Ask) /\ WF_laneVars(Unanswered) /\ WF_laneVars(Store)
  /\ WF_laneVars(OtherReleases)

LaneSpec == LaneInit /\ [][LaneNext]_laneVars /\ LaneFairness

-----------------------------------------------------------------------------
(* What is computed from the stored closes.                                *)

\* read_indicators: the newest rows, if they are consecutive sessions.
Consecutive(rows) == rows = {} \/ rows = {s \in Sessions : Min(rows) <= s /\ s <= Max(rows)}

IndicatorInput == LET rows == Newest(MaxObservations, stored)
                  IN IF Consecutive(rows) THEN rows ELSE {}

\* _verify_and_order_bars: the consecutive sessions up to the latest completed one.
ForecastInput ==
  {s \in stored : {t \in Sessions : s <= t /\ t <= LatestCompleted} \subseteq stored}

SeriesOf(n) == [1..n -> Shapes]
Closes(bars) == [i \in DOMAIN bars |-> bars[i].close]

\* What the indicators say at a bar does not depend on the bars after it, and
\* the bundle is complete from exactly the number of observations it requires.
CausalIndicators(bars) ==
  LET n == Len(bars)
      out == Outputs(bars, IndicatorConfig)
      early == Outputs(SubSeq(bars, 1, n - 1), IndicatorConfig)
  IN /\ n > 1 => \A name \in DOMAIN out : early[name] = SubSeq(out[name], 1, n - 1)
     /\ Calculable(bars, IndicatorConfig) <=> \A name \in DOMAIN out : out[name][n] # None

\* Wherever a baseline has quantiles they are valid, and served as such; its
\* forecasts do not depend on what follows their origin.
CausalForecasts(s, m, c) ==
  \A t \in Origins(Len(s), c) :
    Fits(m, Prefix(s, t)) /\ HasQuantiles(m, Prefix(s, t), c.horizon) =>
      LET d == OriginForecast(s, m, t, c).forecast IN
      /\ ValidDistribution(d) /\ ValidDistribution(Served(d))
      /\ \A i \in (t + 1)..Len(s), x \in {b.close : b \in Shapes} :
           OriginForecast([s EXCEPT ![i] = x], m, t, c).forecast = d

\* The scores of one step agree with each other: the median's pinball loss is
\* half the absolute error, and a wider interval covers no less.
ScoresAgree(s, m, c) ==
  Evaluable(s, m, c) =>
    LET e == Evaluation(s, m, c) IN
    \A step \in 1..c.horizon :
      /\ TotalPinball(e, step, Median) = Median * TotalAbsoluteError(e, step)
      /\ \A a, b \in c.coverages :
           a < b => CoveredOrigins(e, step, a) \subseteq CoveredOrigins(e, step, b)

SoundLengths ==
  {n \in 1..Cardinality(Sessions) : \A bars \in SeriesOf(n) :
     /\ CausalIndicators(bars)
     /\ \A m \in Models, c \in EvaluationConfigs :
          CausalForecasts(Closes(bars), m, c) /\ ScoresAgree(Closes(bars), m, c)}

-----------------------------------------------------------------------------
(* What is adjusted: the whole window of a factor set.                     *)

Dated(a, i) == [field \in DOMAIN a \cup {"at"} |-> IF field = "at" THEN i ELSE a[field]]

\* At most two actions, some of them outside the window of n sessions.
DatedActions(n) == {Dated(a, i) : a \in Actions, i \in 1..(n + 1)}

ActionSets(n) == {{a, b} : a \in DatedActions(n), b \in DatedActions(n)} \cup {{}}

Decimals(bars) == [i \in DOMAIN bars |-> [field \in DOMAIN bars[i] |-> Number(bars[i][field], 0)]]

FunctionsAgree ==
  \A n, d \in Operands :
    /\ Decimal34(n * d, 0) = Rounded(n * d, 0)
    /\ Divide34(Number(n, 0), Number(d, 0)) = Nearest(n, d)

\* Client and database admit the same actions and derive the same factors, which
\* are one at the anchor, not changed by older sessions, and keep bars in order.
FactorsAgree(bars, actions) ==
  LET n == Len(bars)
      closes == Closes(bars)
      factors == ClientFactors(closes, actions)
  IN /\ ClientAdmits(actions, n) <=> DatabaseAdmits(actions, n)
     /\ ClientAdmits(actions, n) =>
          /\ DatabaseFactors(closes, actions) = factors
          /\ factors[n] = [price |-> One, volume |-> One]
          /\ \A i \in DOMAIN bars : Consistent(AdjustWindow(bars, factors)[i])

AgreeingWindows ==
  {n \in 1..MaxRawInputs :
     FunctionsAgree /\ \A bars \in SeriesOf(n), actions \in ActionSets(n) :
       FactorsAgree(Decimals(bars), actions)}

-----------------------------------------------------------------------------
(* Properties.                                                             *)

\* Whatever values the stored bars have: no indicator, and no forecast a
\* baseline is judged or served by, depends on bars later than its own time
\* (values[:t] of the evaluation, the alignment of every indicator), the bundle
\* is calculable from the first length that has every indicator, quantiles
\* never cross and keep the point forecast as their median, also after prices
\* are floored at zero.
AnalysisIsCausal ==
  \A input \in {IndicatorInput, ForecastInput} :
    input # {} => Cardinality(input) \in SoundLengths

\* The factor set a client derives over the stored window is the one the database
\* derives, digit by digit, whatever the closes and the actions (the pinned kernel
\* of publish_adjustment_factor_set): it is never refused for its arithmetic.
AdjustmentAgrees ==
  Cardinality(ForecastInput) \in 1..MaxRawInputs => Cardinality(ForecastInput) \in AgreeingWindows

\* A finished walk over the pages has returned every bar that was stored when
\* it began, and each page only has bars older than the page before, although repairs of
\* older gaps and new sessions are stored between them (limit + 1 rows are read,
\* the end of a page is exclusive).
WalkComplete ==
  /\ reader.descends
  /\ ~ reader.open => reader.owed = {}

\* In the end the lane holds what it owes: every session of the look-back for
\* the lane of closes, whatever manual windows and failed tasks left out, and
\* every session of the trailing overlap for the lane of prices.
Owed == {s \in Sessions : s >= MaxDay - (IF lane = "closes" THEN Lookback ELSE Overlap)}

LaneCatchesUp == <>[](Owed \subseteq stored)
=============================================================================
