------------------------------ MODULE Backtest ------------------------------
(***************************************************************************)
(* The deterministic part of the backtest stage: which price caches        *)
(* load_btc_ohlcv_records takes, and the moving-average baseline and the   *)
(* drawdowns compute_btc_baseline_backtests reports, in exact fractions    *)
(* (what rounding does to them, and sums too large for a float, is left    *)
(* out).                                                                   *)
(*                                                                         *)
(* A record has a date and a close.  The date is any text: it stands as    *)
(* its place in the order of texts, 0 for the empty one, for nothing asks  *)
(* for an ISO date.  The close is a whole number, or of a class Python     *)
(* treats apart: "inf" and "nan" (floats both, and JSON to Python), "huge" *)
(* (an integer too large for a float), "text" (or none).                   *)
(***************************************************************************)
EXTENDS Integers, SequencesExt

CONSTANTS
  ShortWindow,   \* 50 days
  LongWindow,    \* 200 days
  MinRecords,    \* 220 records before moving averages are tried
  YearDays,      \* 365 days
  FloatLimit,    \* d days of growth by more than FloatLimit^d overflow _cagr
  SquareLimit    \* a return further than this from their mean has no square

ASSUME WindowAssumption ==
  /\ {ShortWindow, LongWindow, MinRecords, YearDays, FloatLimit, SquareLimit} \subseteq Nat \ {0}
  /\ ShortWindow <= LongWindow

Rejected == "rejected"   \* ValueError: the executor reports a failed task run
Raised == "raised"       \* OverflowError: nobody catches it
Fine == "fine"

(***************************************************************************)
(* Floats as pairs, fractions unless the denominator is 0.  The arithmetic *)
(* is theirs: what is compared with NaN is not less, 0 * Inf, Inf / Inf    *)
(* and whatever is made of NaN is NaN; max and min keep the first of two   *)
(* unless the second is better.                                            *)
(***************************************************************************)
Frac(n, d) == <<n, d>>
Inf == <<1, 0>>
NaN == <<0, 0>>
IsNaN(a) == a[1] = 0 /\ a[2] = 0
IsFinite(a) == a[2] > 0
Less(a, b) == a[1] * b[2] < b[1] * a[2]
Same(a, b) == a[1] * b[2] = b[1] * a[2]
Times(a, b) == <<a[1] * b[1], a[2] * b[2]>>
Over(a, b) == <<a[1] * b[2], a[2] * b[1]>>
Plus(a, b) ==
  IF a[2] = 0 /\ b[2] = 0 THEN <<a[1] * b[1], 0>> ELSE <<a[1] * b[2] + b[1] * a[2], a[2] * b[2]>>
Larger(a, b) == IF Less(a, b) THEN b ELSE a
Smaller(a, b) == IF Less(b, a) THEN b ELSE a

(***************************************************************************)
(* load_btc_ohlcv_records                                                  *)
(***************************************************************************)
(* Mutant: a date may occur twice. *)
InOrderLoosely(earlier, later) == earlier <= later

(* Dates are compared as text. *)
InOrder(earlier, later) == earlier < later

(* The checks of one record, in their order.  Neither NaN nor Inf is at or *)
(* below zero.                                                             *)
CheckRecord(rows, i) ==
  LET row == rows[i]
      negative == row.kind = "number" /\ row.close <= 0
      late == i > 1 /\ ~InOrder(rows[i - 1].date, row.date)
  IN IF row.date = 0 \/ row.kind = "text" THEN Rejected
     ELSE IF row.kind = "huge" THEN Raised
     ELSE IF negative \/ late THEN Rejected ELSE Fine

LoadRecords(rows) ==
  LET faulty == {i \in DOMAIN rows : CheckRecord(rows, i) # Fine} IN
  IF faulty # {} THEN CheckRecord(rows, CHOOSE i \in faulty : \A j \in faulty : i <= j)
  ELSE IF Len(rows) < 2 THEN Rejected ELSE Fine

(***************************************************************************)
(* compute_btc_baseline_backtests                                          *)
(***************************************************************************)
Price(row) ==
  CASE row.kind = "number" -> Frac(row.close, 1)
    [] row.kind = "inf" -> Inf
    [] OTHER -> NaN
Closes(rows) == [i \in DOMAIN rows |-> Price(rows[i])]

(* _max_drawdown, as the share that is left at the worst of it.            *)
Fall(acc, value) ==
  LET peak == Larger(acc.peak, value) IN
  [peak |-> peak, worst |-> Smaller(acc.worst, Over(value, peak))]
Falls(values) ==
  LET fall[i \in 0..Len(values)] ==
        IF i = 0 THEN [peak |-> values[1], worst |-> Frac(1, 1)] ELSE Fall(fall[i - 1], values[i])
  IN fall
MaxDrawdown(values) == Falls(values)[Len(values)].worst

(* The average of the last closes up to day i.                             *)
Total(values) ==
  LET total[i \in 0..Len(values)] ==
        IF i = 0 THEN Frac(0, 1) ELSE Plus(total[i - 1], values[i])
  IN total[Len(values)]
Mean(values) == Over(Total(values), Frac(Len(values), 1))
Window(closes, i, days) == Mean(SubSeq(closes, IF i > days THEN i - days + 1 ELSE 1, i))

(* short > long, short <= long: neither when one of them is NaN.           *)
Bullish(closes, i) ==
  i >= LongWindow /\ Less(Window(closes, i, LongWindow), Window(closes, i, ShortWindow))
Bearish(closes, i) ==
  /\ i >= LongWindow
  /\ ~Less(Window(closes, i, LongWindow), Window(closes, i, ShortWindow))
  /\ ~IsNaN(Window(closes, i, LongWindow)) /\ ~IsNaN(Window(closes, i, ShortWindow))

(* Mutant: what is bought is never sold. *)
PositionHeld(closes, i, invested) == invested \/ Bullish(closes, i)

(* Whether the strategy is in the market after day i.                      *)
Position(closes, i, invested) ==
  Bullish(closes, i) \/ (invested /\ ~Bearish(closes, i))

(* One day of the moving-average loop: all in or all out.                  *)
CrossDay(closes, acc, i) ==
  LET price == closes[i]
      invested == acc.btc[1] > 0
      buy == ~invested /\ Position(closes, i, invested)
      sell == invested /\ ~Position(closes, i, invested)
      cash == IF sell THEN Times(acc.btc, price) ELSE IF buy THEN Frac(0, 1) ELSE acc.cash
      btc == IF buy THEN Over(acc.cash, price) ELSE IF sell THEN Frac(0, 1) ELSE acc.btc
  IN [cash |-> cash, btc |-> btc,
      trades |-> acc.trades + (IF buy \/ sell THEN 1 ELSE 0),
      equity |-> Append(acc.equity, Plus(cash, Times(btc, price)))]

Crossover(closes) ==
  LET day[i \in 0..Len(closes)] ==
        IF i = 0 THEN [cash |-> Frac(1, 1), btc |-> Frac(0, 1), trades |-> 0, equity |-> <<>>]
        ELSE CrossDay(closes, day[i - 1], i)
  IN day

(* _cagr raises growth to the power 365 / days, where days is one less     *)
(* than the number of records.  Inf and NaN have all their powers.         *)
CagrOverflows(rows) ==
  LET first == rows[1]  last == rows[Len(rows)] IN
  /\ first.kind = "number" /\ last.kind = "number"
  /\ last.close^YearDays > FloatLimit^(Len(rows) - 1) * first.close^YearDays

(* _annualized_volatility squares how far each return is from their mean.  *)
VolatilityOverflows(closes) ==
  LET returns == [i \in 1..(Len(closes) - 1) |-> Over(closes[i + 1], closes[i])]
      far == Frac(SquareLimit, 1)
  IN /\ Len(returns) >= 2
     /\ \A i \in DOMAIN returns : IsFinite(returns[i])
     /\ \E i \in DOMAIN returns : \/ Less(Plus(Mean(returns), far), returns[i])
                                  \/ Less(Plus(returns[i], far), Mean(returns))

(* The evidence.                                                           *)
Compute(rows) ==
  LET closes == Closes(rows)
      cross == Crossover(closes)[Len(closes)]
  IN [drawdown |-> MaxDrawdown([i \in DOMAIN closes |-> Over(closes[i], closes[1])]),
      sma |-> IF Len(rows) >= MinRecords
              THEN [verdict |-> "BASELINE_RESULT", equity |-> cross.equity[Len(rows)],
                    drawdown |-> MaxDrawdown(cross.equity), trades |-> cross.trades]
              ELSE [verdict |-> "INSUFFICIENT"]]

(* What the executor makes of a cache that is there and is JSON.           *)
Run(rows) ==
  IF LoadRecords(rows) # Fine THEN LoadRecords(rows)
  ELSE IF CagrOverflows(rows) \/ VolatilityOverflows(Closes(rows)) THEN Raised ELSE Fine

-----------------------------------------------------------------------------
(***************************************************************************)
(* What the numbers are meant to be, without the loops.                    *)
(***************************************************************************)
(* Dates that rise as text, each with a close above zero, infinite or NaN. *)
Series(rows) ==
  /\ Len(rows) >= 2
  /\ \A i, j \in DOMAIN rows : i < j => rows[i].date < rows[j].date
  /\ \A i \in DOMAIN rows :
       /\ rows[i].date > 0
       /\ \/ rows[i].kind \in {"inf", "nan"}
          \/ rows[i].kind = "number" /\ rows[i].close > 0

(* The worst ratio of a later value to an earlier one.                     *)
IsWorstFall(values, fall) ==
  /\ \A i, j \in DOMAIN values : i <= j => ~Less(Over(values[j], values[i]), fall)
  /\ \E i, j \in DOMAIN values :
       i <= j /\ ~IsNaN(Over(values[j], values[i])) /\ Same(Over(values[j], values[i]), fall)

(* In the market since a day the short average was above the long one,     *)
(* unless it has been seen at or below it since.                           *)
Holds(closes, i) ==
  \E j \in 1..i : Bullish(closes, j) /\ \A k \in (j + 1)..i : ~Bearish(closes, k)

(* Money grows with the price in the nights in the market; a trade is      *)
(* where a day ends in the market after one out of it, or the reverse.     *)
Night(closes, i) ==
  IF i > 1 /\ Holds(closes, i - 1) THEN Over(closes[i], closes[i - 1]) ELSE Frac(1, 1)
Growth(closes) ==
  LET grown[i \in 0..Len(closes)] ==
        IF i = 0 THEN Frac(1, 1) ELSE Times(grown[i - 1], Night(closes, i))
  IN grown
Worth(closes) == [i \in DOMAIN closes |-> Growth(closes)[i]]
Changes(closes) ==
  Cardinality({i \in DOMAIN closes : Holds(closes, i) # (i > 1 /\ Holds(closes, i - 1))})
=============================================================================
