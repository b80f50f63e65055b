---------------------------- MODULE MCCloseLane ----------------------------
(* A small instance of CloseLane for TLC. *)
EXTENDS CloseLane

\* Falling, flat and rising prices, with and without a range.
MCShapes == {[high |-> 4, low |-> 4, close |-> 4], [high |-> 9, low |-> 5, close |-> 6],
             [high |-> 12, low |-> 7, close |-> 12]}

MCIndicatorConfig ==
  [lag |-> 1, sma |-> 2, ema |-> 3, volatility |-> 2, rsi |-> 2, fast |-> 1, slow |-> 2,
   signal |-> 3, bollinger |-> 2, width |-> 2, atr |-> 2]

MCEvaluationConfigs ==
  {[initial |-> 4, horizon |-> 1, stride |-> 1, coverages |-> {500, 800}],
   [initial |-> 4, horizon |-> 2, stride |-> 2, coverages |-> {800}]}

MCModels ==
  {[name |-> 1, kind |-> "naive", season |-> 1], [name |-> 2, kind |-> "drift", season |-> 1],
   [name |-> 3, kind |-> "seasonal", season |-> 2]}

MCActions ==
  {[kind |-> "split", from |-> Number(1, 0), to |-> Number(3, 0)],
   [kind |-> "split", from |-> Number(7, 0), to |-> Number(2, 0)],
   [kind |-> "dividend", cash |-> Number(35, -2)], [kind |-> "dividend", cash |-> Number(2, 0)]}

MCOperands == 1..130
=============================================================================
