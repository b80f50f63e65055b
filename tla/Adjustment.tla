------------------------------ MODULE Adjustment ------------------------------
(***************************************************************************)
(* Split and dividend adjustment factors.  They are derived twice: by the  *)
(* client with Python's decimal module (adjustment_factors.py) and by the  *)
(* database, which refuses any other result, with two hand-written         *)
(* functions that work on digits (migration 0013).  Both round to          *)
(* Precision significant digits after every operation.  The factors are    *)
(* then applied to whole bars (adjusted_prices.py).                        *)
(*                                                                         *)
(* A decimal [c, e] is c * 10^e, positive and without trailing zeros.      *)
(* Binary64, to which the factors are published, is a decimal here, too.   *)
(***************************************************************************)
EXTENDS Integers, Sequences, FiniteSets, FiniteSetsExt

CONSTANT Precision   \* DECIMAL_PRECISION: significant digits

ASSUME PrecisionAssumption == Precision \in Nat \ {0}

\* 10^k
Power[k \in Nat] == IF k = 0 THEN 1 ELSE 10 * Power[k - 1]

Digits(c) == CHOOSE k \in 1..c : Power[k - 1] <= c /\ c < Power[k]

Number(c, e) ==
  LET zeros == Max({k \in 0..(Digits(c) - 1) : c % Power[k] = 0})
  IN [c |-> c \div Power[zeros], e |-> e + zeros]

One == Number(1, 0)

Shift(x, e) == [x EXCEPT !.e = @ + e]

\* n / d * 10^k as a pair of whole numbers.
Scaled(n, d, k) == IF k >= 0 THEN <<n * Power[k], d>> ELSE <<n, d * Power[-k]>>

Distance(a, b) == IF a < b THEN b - a ELSE a - b

-----------------------------------------------------------------------------
(* The client: decimal's ROUND_HALF_EVEN, by its definition.               *)

\* The nearest decimal to n / d, the even one of two.
Nearest(n, d) ==
  LET k == CHOOSE k \in -Digits(n)..(Digits(d) + Precision) : LET s == Scaled(n, d, k) IN
             Power[Precision - 1] * s[2] <= s[1] /\ s[1] < Power[Precision] * s[2]
      s == Scaled(n, d, k)
      off(c) == Distance(s[1], c * s[2])
      c == CHOOSE c \in Power[Precision - 1]..Power[Precision] :
             \A b \in {c - 1, c + 1} : off(c) < off(b) \/ (off(c) = off(b) /\ c % 2 = 0)
  IN Number(c, -k)

Rounded(c, e) == Shift(Nearest(c, 1), e)

Times(x, y) == Rounded(x.c * y.c, x.e + y.e)

MulDiv(x, n, d) ==
  LET p == Times(x, n) IN Shift(Nearest(p.c, d.c), p.e - d.e)

\* x + y before rounding.
Sum(x, y) == LET e == Min({x.e, y.e}) IN [c |-> x.c * Power[x.e - e] + y.c * Power[y.e - e], e |-> e]

Add(x, y) == Rounded(Sum(x, y).c, Sum(x, y).e)

-----------------------------------------------------------------------------
(* The database: digits by hand.                                           *)

\* Mutant: the digits after the deciding one are forgotten.
Decimal34_TieBlind(c, e) ==
  IF Digits(c) <= Precision THEN Number(c, e)
  ELSE LET cut == Digits(c) - Precision
           lead == c \div Power[cut]
           next == (c \div Power[cut - 1]) % 10
       IN Number(IF next > 5 \/ (next = 5 /\ lead % 2 = 1) THEN lead + 1 ELSE lead, e + cut)

\* adjustment_decimal34: the leading digits, rounded by those that follow.
Decimal34(c, e) ==
  IF Digits(c) <= Precision THEN Number(c, e)
  ELSE LET cut == Digits(c) - Precision
           lead == c \div Power[cut]
           next == (c \div Power[cut - 1]) % 10
           rest == c % Power[cut - 1]
           up == next > 5 \/ (next = 5 /\ (rest # 0 \/ lead % 2 = 1))
       IN Number(IF up THEN lead + 1 ELSE lead, e + cut)

\* adjustment_divide34: an estimated exponent, corrected once, then one whole
\* division whose remainder decides the last digit.
Divide34(n, d) ==
  LET estimate == (Digits(n.c) + n.e) - (Digits(d.c) + d.e)
      trial == Scaled(n.c, d.c, n.e - d.e - estimate)
      exponent == IF trial[1] < trial[2] THEN estimate - 1 ELSE estimate
      places == Precision - 1 - exponent
      s == Scaled(n.c, d.c, n.e - d.e + places)
      coefficient == s[1] \div s[2]
      twice == 2 * (s[1] % s[2])
      up == twice > s[2] \/ (twice = s[2] /\ coefficient % 2 = 1)
  IN Number(IF up THEN coefficient + 1 ELSE coefficient, -places)

DatabaseMulDiv(x, n, d) == Divide34(Decimal34(x.c * n.c, x.e + n.e), d)

DatabaseAdd(x, y) == Decimal34(Sum(x, y).c, Sum(x, y).e)

-----------------------------------------------------------------------------
(* Factor sets.  An action is [kind, at, from, to] or [kind, at, cash]; at *)
(* is the ordinal of its session in the window of n closes.                *)

\* _validated_splits, _validated_dividends and the cardinality rule.
ClientAdmits(actions, n) ==
  /\ \A a \in actions : a.at \in 1..n
  /\ Cardinality({a.at : a \in actions}) = Cardinality(actions)

\* The checks of publish_adjustment_factor_set: each split and each dividend has
\* a raw row, and no session has two actions.
HasRawRow(kind, actions, n) ==
  \A a \in {a \in actions : a.kind = kind} : \E i \in 1..n : i = a.at

OnePerSession(actions) ==
  \A i \in {a.at : a \in actions} : ~ Cardinality({a \in actions : a.at = i}) > 1

DatabaseAdmits(actions, n) ==
  HasRawRow("split", actions, n) /\ HasRawRow("dividend", actions, n) /\ OnePerSession(actions)

\* From the anchor backwards: an action changes the factors of earlier sessions.
ClientFactors(closes, actions) ==
  LET f[i \in 1..Len(closes)] ==
        IF i = Len(closes) THEN [price |-> One, volume |-> One]
        ELSE LET later == f[i + 1]
                 close == closes[i + 1]
                 today == {a \in actions : a.at = i + 1}
             IN IF \E a \in today : a.kind = "split"
                THEN LET a == CHOOSE a \in today : TRUE IN
                     [price  |-> MulDiv(later.price, a.from, a.to),
                      volume |-> MulDiv(later.volume, a.to, a.from)]
                ELSE IF today # {}
                THEN LET a == CHOOSE a \in today : TRUE IN
                     [later EXCEPT !.price = MulDiv(@, close, Add(close, a.cash))]
                ELSE later
  IN f

\* The loop over expected_price and expected_volume.
DatabaseFactors(closes, actions) ==
  LET n == Len(closes)
      after[k \in 0..(n - 1)] ==
        IF k = 0 THEN [price |-> One, volume |-> One]
        ELSE LET expected == after[k - 1]
                 close == closes[n - k + 1]
                 splits == {a \in actions : a.kind = "split" /\ a.at = n - k + 1}
                 dividends == {a \in actions : a.kind = "dividend" /\ a.at = n - k + 1}
             IN IF splits # {}
                THEN LET a == CHOOSE a \in splits : TRUE IN
                     [price  |-> DatabaseMulDiv(expected.price, a.from, a.to),
                      volume |-> DatabaseMulDiv(expected.volume, a.to, a.from)]
                ELSE IF dividends # {}
                THEN LET a == CHOOSE a \in dividends : TRUE IN
                     [expected EXCEPT !.price =
                        DatabaseMulDiv(@, close, DatabaseAdd(close, a.cash))]
                ELSE expected
  IN [i \in 1..n |-> after[n - i]]

-----------------------------------------------------------------------------
(* Applying the factors.                                                   *)

NotAbove(x, y) == LET e == Min({x.e, y.e}) IN x.c * Power[x.e - e] <= y.c * Power[y.e - e]

\* _validate_ohlc.
Consistent(bar) ==
  NotAbove(bar.low, bar.high) /\ NotAbove(bar.low, bar.close) /\ NotAbove(bar.close, bar.high)

\* _adjust_row: the prices of a bar.
AdjustRow(bar, factor) == [field \in DOMAIN bar |-> Times(bar[field], factor.price)]

AdjustWindow(bars, factors) == [i \in DOMAIN bars |-> AdjustRow(bars[i], factors[i])]
=============================================================================
