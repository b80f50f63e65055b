----------------------------- MODULE Indicators -----------------------------
(***************************************************************************)
(* The owned technical indicators (ml/features/technical.py) over whole    *)
(* numbers.  A series is a sequence, oldest value first; an indicator is a *)
(* sequence of the same length whose warm-up holds None and whose other    *)
(* elements hold Some(value).  Division rounds down, as floating point     *)
(* rounds: what matters here is which observations a value depends on.     *)
(* Logarithmic returns are left out.                                       *)
(***************************************************************************)
EXTENDS Sums, FiniteSets, FiniteSetsExt

None    == <<>>
Some(v) == <<v>>

Hundred == 100   \* returns and RSI in percent
Neutral == 50    \* RSI of a flat window

\* None up to position first - 1, then the values of v, a function on first..n.
Aligned(n, first, v) == [i \in 1..n |-> IF i < first THEN None ELSE Some(v[i])]

Mean(s)   == Total(s) \div Len(s)
AbsVal(v) == IF v < 0 THEN -v ELSE v

\* The last w values up to position i.
Trailing(s, i, w) == SubSeq(s, i - w + 1, i)

Root(v) == CHOOSE r \in 0..v : r * r <= v /\ v < (r + 1) * (r + 1)

StandardDeviation(s, ddof) ==
  Root(Total([i \in 1..Len(s) |-> (s[i] - Mean(s)) * (s[i] - Mean(s))]) \div (Len(s) - ddof))

SimpleReturn(s, i, lag) == (Hundred * (s[i] - s[i - lag])) \div s[i - lag]

SimpleReturns(s, lag) ==
  Aligned(Len(s), lag + 1, [i \in (lag + 1)..Len(s) |-> SimpleReturn(s, i, lag)])

SMA(s, w) == Aligned(Len(s), w, [i \in w..Len(s) |-> Mean(Trailing(s, i, w))])

\* Seeded by the mean of the first span values, alpha = 2 / (span + 1).
EMA(s, span) ==
  LET e[i \in span..Len(s)] ==
        IF i = span THEN Mean(SubSeq(s, 1, span))
        ELSE (2 * s[i] + (span - 1) * e[i - 1]) \div (span + 1)
  IN Aligned(Len(s), span, e)

\* Wilder's average of the values from position 2 on, seeded by the first w
\* of them.
Wilder(s, w) ==
  [i \in (w + 1)..Len(s) |->
     LET a[j \in (w + 1)..i] == IF j = w + 1 THEN Mean(SubSeq(s, 2, w + 1))
                                ELSE a[j - 1] + (s[j] - a[j - 1]) \div w
     IN a[i]]

\* Sample deviation of the last w one-step returns.
ReturnVolatility(s, w) ==
  Aligned(Len(s), w + 1, [i \in (w + 1)..Len(s) |->
    StandardDeviation([k \in 1..w |-> SimpleReturn(s, i - w + k, 1)], 1)])

RSIValue(gain, loss) ==
  IF gain + loss = 0 THEN Neutral ELSE (Hundred * gain) \div (gain + loss)

RSI(s, w) ==
  LET change(i) == IF i = 1 THEN 0 ELSE s[i] - s[i - 1]
      gains  == Wilder([i \in 1..Len(s) |-> IF change(i) > 0 THEN change(i) ELSE 0], w)
      losses == Wilder([i \in 1..Len(s) |-> IF change(i) < 0 THEN -change(i) ELSE 0], w)
  IN Aligned(Len(s), w + 1, [i \in (w + 1)..Len(s) |-> RSIValue(gains[i], losses[i])])

\* The line starts where the slow average does; the signal is the average of
\* the line's own values, put back into the positions of the series.
MACD(s, fast, slow, signal) ==
  LET first == slow + signal - 1
      line  == [i \in slow..Len(s) |-> EMA(s, fast)[i][1] - EMA(s, slow)[i][1]]
      tail  == EMA([k \in 1..(Len(s) - slow + 1) |-> line[slow + k - 1]], signal)
      sig   == [i \in first..Len(s) |-> tail[i - slow + 1][1]]
  IN [line      |-> Aligned(Len(s), slow, line),
      signal    |-> Aligned(Len(s), first, sig),
      histogram |-> Aligned(Len(s), first, [i \in first..Len(s) |-> line[i] - sig[i]])]

Bollinger(s, w, width) ==
  LET middle == [i \in w..Len(s) |-> Mean(Trailing(s, i, w))]
      dev    == [i \in w..Len(s) |-> StandardDeviation(Trailing(s, i, w), 0)]
  IN [lower  |-> Aligned(Len(s), w, [i \in w..Len(s) |-> middle[i] - width * dev[i]]),
      middle |-> Aligned(Len(s), w, middle),
      upper  |-> Aligned(Len(s), w, [i \in w..Len(s) |-> middle[i] + width * dev[i]])]

\* Of bars [high, low, close]; the first bar has no true range.
TrueRange(bars, i) ==
  Max({bars[i].high - bars[i].low, AbsVal(bars[i].high - bars[i - 1].close),
       AbsVal(bars[i].low - bars[i - 1].close)})

ATR(bars, w) ==
  Aligned(Len(bars), w + 1,
          Wilder([i \in 1..Len(bars) |-> IF i = 1 THEN 0 ELSE TrueRange(bars, i)], w))

-----------------------------------------------------------------------------
(* A configuration c gives every indicator its period.                     *)

RequiredObservations(c) ==
  Max({c.lag + 1, c.sma, c.ema, c.volatility + 1, c.rsi + 1, c.slow + c.signal - 1,
       c.bollinger, c.atr + 1})

\* Every output, as one sequence per indicator.
Outputs(bars, c) ==
  LET s    == [i \in 1..Len(bars) |-> bars[i].close]
      macd == MACD(s, c.fast, c.slow, c.signal)
      band == Bollinger(s, c.bollinger, c.width)
  IN [return |-> SimpleReturns(s, c.lag), sma |-> SMA(s, c.sma), ema |-> EMA(s, c.ema),
      volatility |-> ReturnVolatility(s, c.volatility), rsi |-> RSI(s, c.rsi),
      line |-> macd.line, signal |-> macd.signal, histogram |-> macd.histogram,
      lower |-> band.lower, middle |-> band.middle, upper |-> band.upper,
      atr |-> ATR(bars, c.atr)]

\* calculate_indicators refuses too short a series.
Calculable(bars, c) == Len(bars) >= RequiredObservations(c)
=============================================================================
