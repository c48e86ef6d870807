------------------------------- MODULE Backtest -------------------------------
(***************************************************************************)
(* The backtest engine walking the bars of one symbol, its five built-in   *)
(* strategies and the strategies users compose from clauses.  Money and    *)
(* quantities are exact fractions; the adjusted close of a bar is its      *)
(* close.                                                                  *)
(***************************************************************************)
EXTENDS Indicators, FiniteSets

CONSTANTS
    BarChoices,     \* bars a day may have
    NumBars,        \* bound: length of the history
    WarmupCap,      \* the 200 of min(200, len(bars) // 2)
    MinBars,        \* the 30 bars run() asks for
    Capital,        \* initial capital
    Commission,     \* commission rate per side, a fraction
    Builtin,        \* built-in strategies in use
    Rules           \* custom rules in use

\* Traded prices are positive, a close may have been rounded to nothing, the
\* request's commission is at most five percent.
ASSUME BktAssumption ==
    /\ NumBars \in Nat \ {0} /\ WarmupCap \in Nat /\ Capital \in Nat \ {0}
    /\ \A b \in BarChoices : b.open \in Nat \ {0} /\ b.close \in Nat
    /\ Commission \in [tag : {"num"}, n : Nat, d : Nat \ {0}] /\ Commission.n < Commission.d
    /\ Builtin \subseteq {"sma_crossover", "rsi_oversold", "macd_signal", "bollinger_revert", "buy_and_hold"}
    /\ \A r \in Rules : /\ r.entry.clauses \in Seq(ToSet(r.entry.clauses))
                       /\ r.exit.clauses \in Seq(ToSet(r.exit.clauses))
                       /\ \A c \in ToSet(r.entry.clauses) \cup ToSet(r.exit.clauses) :
                            c.left.value \in Int /\ c.right.value \in Int

VARIABLE bt    \* the run: bars, strategy and its state, and the books of the engine

btVars == <<bt>>

\* A column of the bars.
Column(bars, field) == [j \in DOMAIN bars |-> Num(bars[j][field])]
BarsUpTo(bars, i) == [j \in 1 .. i |-> bars[j]]

-----------------------------------------------------------------------------
\* Built-in strategies: 1 long, 0 flat, or Hold, over the closes so far.
Hold == 2
Flag(b) == IF b THEN 1 ELSE 0

sma_crossover(xs) ==
    IF Len(xs) < 3 THEN 0 ELSE Flag(Less(LastOf(sma(xs, 2)), LastOf(sma(xs, 1))))

rsi_oversold(xs) ==
    IF Len(xs) < 3 THEN 0
    ELSE LET now == LastOf(rsi(xs, 1))
         IN  IF Less(now, Num(30)) THEN 1 ELSE IF Less(Num(70), now) THEN 0 ELSE Hold

macd_signal(xs) ==
    IF Len(xs) < 4 THEN 0
    ELSE LET m == macd(xs, 1, 2, 2) IN Flag(Less(LastOf(m.signal), LastOf(m.macd)))

\* One standard deviation: lower band at or above the price.
bollinger_revert(xs) ==
    IF Len(xs) < 3 THEN 0
    ELSE LET b == bollinger_bands(xs, 2)
             below == Minus(LastOf(b.middle), LastOf(xs))
         IN  IF AtMost(Zero, below) /\ AtMost(LastOf(b.variance), Times(below, below)) THEN 1
             ELSE IF AtMost(LastOf(b.middle), LastOf(xs)) THEN 0 ELSE Hold

buy_and_hold(xs) == Flag(Len(xs) > 1)

BuiltinDecision(key, xs) ==
    CASE key = "sma_crossover" -> sma_crossover(xs) [] key = "rsi_oversold" -> rsi_oversold(xs)
      [] key = "macd_signal" -> macd_signal(xs) [] key = "bollinger_revert" -> bollinger_revert(xs)
      [] key = "buy_and_hold" -> buy_and_hold(xs)

\* The wrapper of the two reverting strategies: no opinion keeps the last one.
Stateful(target, long) == IF target = Hold THEN Flag(long) ELSE target

-----------------------------------------------------------------------------
\* Custom rules: an operand is a constant, the price or an indicator.  An
\* unknown one raises, and so does a period that is not positive; atr, which
\* has no test for it, raises when it divides by nothing and when the indices
\* of a negative period leave the history.
OperandRaises(o, n) ==
    \/ o.kind \notin {"constant", "price", "rsi", "sma", "ema", "macd_histogram", "stochastic_k", "atr", "volume"}
    \/ o.kind \in {"rsi", "sma", "ema", "stochastic_k"} /\ o.value <= 0
    \/ o.kind = "atr" /\ (o.value = 0 \/ o.value <= -n)

_eval_operand(o, bars) ==
    LET closes == Column(bars, "close")
        highs == Column(bars, "high")
        lows == Column(bars, "low")
    IN  CASE o.kind = "constant" -> Num(o.value)
          [] o.kind = "price" -> LastOf(closes)
          [] o.kind = "rsi" -> LastOf(rsi(closes, o.value))
          [] o.kind = "sma" -> LastOf(sma(closes, o.value))
          [] o.kind = "ema" -> LastOf(ema(closes, o.value))
          [] o.kind = "macd_histogram" -> LastOf(macd(closes, 12, 26, 9).histogram)
          [] o.kind = "stochastic_k" -> LastOf(stochastic(highs, lows, closes, o.value, 3).k)
          [] o.kind = "atr" -> LastOf(atr(highs, lows, closes, o.value))
          [] o.kind = "volume" -> LastOf(Column(bars, "volume"))

\* A value still missing makes the clause false.
Compared(operator, left, right) ==
    \/ operator = "<" /\ Less(left, right)
    \/ operator = "<=" /\ AtMost(left, right)
    \/ operator = ">" /\ Less(right, left)
    \/ operator = ">=" /\ AtMost(right, left)
    \/ operator = "==" /\ Same(left, right)

\* holding_days_gt is false here.
_eval_condition(c, bars) ==
    IF c.operator = "holding_days_gt" THEN "false"
    ELSE IF \/ c.operator \notin {"<", "<=", ">", ">=", "=="}
            \/ OperandRaises(c.left, Len(bars)) \/ OperandRaises(c.right, Len(bars)) THEN "raise"
    ELSE IF Compared(c.operator, _eval_operand(c.left, bars), _eval_operand(c.right, bars)) THEN "true"
    ELSE "false"

\* all() and any() stop at the first clause that decides; a single condition
\* in place of a group is a group of one, anything else raises.
Modes == {"all_of", "any_of", "condition"}
FirstDecides(answers, goesOn) ==
    LET stops == {j \in DOMAIN answers : answers[j] # goesOn}
    IN  IF stops = {} THEN goesOn ELSE answers[Min(stops)]
_eval_group(g, kept, bars) ==
    IF g.mode \notin Modes THEN "raise"
    ELSE FirstDecides([j \in kept |-> _eval_condition(g.clauses[j], bars)],
                      IF g.mode = "any_of" THEN "false" ELSE "true")

EntryHits(rules, bars) == _eval_group(rules.entry, DOMAIN rules.entry.clauses, bars)

\* The clauses that are left without the time stops.
_strip_meta(g) == {j \in DOMAIN g.clauses : g.clauses[j].operator # "holding_days_gt"}

\* The first time stop of the exit, in either kind of group, if there is one.
_holding_days_max(g) ==
    LET stops == DOMAIN g.clauses \ _strip_meta(g)
    IN  IF stops = {} THEN {} ELSE {g.clauses[Min(stops)].left.value}

\* Rules without an exit have an empty one; both are tried on twenty equal bars.
ExitHits(rules, bars) ==
    LET kept == _strip_meta(rules.exit)
    IN  IF rules.exit.mode \in Modes /\ kept = {} THEN "false" ELSE _eval_group(rules.exit, kept, bars)
Synthetic == [j \in 1 .. 20 |-> [open |-> 100, high |-> 101, low |-> 99, close |-> 100, volume |-> 1000]]
validate(rules) == "raise" \notin {EntryHits(rules, Synthetic), ExitHits(rules, Synthetic)}

\* The closure of build_strategy: target and new state, or the error of a clause.
WhileFlat(enter, i, s) ==
    [target |-> IF enter = "raise" THEN -1 ELSE Flag(enter = "true"),
     state |-> IF enter = "true" THEN [long |-> TRUE, entry_index |-> i + 1] ELSE s]

WhileLong(leave, held, s) ==
    [target |-> IF leave = "raise" THEN -1 ELSE Flag(leave # "true" /\ ~held),
     state |-> IF leave = "true" \/ held THEN [s EXCEPT !.long = FALSE] ELSE s]

Custom(rules, bars, i, s) ==
    LET limit == _holding_days_max(rules.exit)
    IN  IF s.long THEN WhileLong(ExitHits(rules, bars), \E n \in limit : i - s.entry_index >= n, s)
        ELSE WhileFlat(EntryHits(rules, bars), i, s)

Decide(i) ==
    LET bars == BarsUpTo(bt.bars, i)
    IN  IF bt.strategy.custom THEN Custom(bt.strategy.rules, bars, i, bt.state)
        ELSE LET t == Stateful(BuiltinDecision(bt.strategy.key, Column(bars, "close")), bt.state.long)
             IN  [target |-> t, state |-> [bt.state EXCEPT !.long = (t = 1)]]

-----------------------------------------------------------------------------
\* What the engine is run with: BacktestService.run selects a built-in strategy
\* with get_strategy; build_strategy, which validates, has no caller in the
\* services (the tests run its strategies on the engine).
Selectable ==
    [custom : {FALSE}, key : Builtin]
        \cup {[custom |-> TRUE, rules |-> r] : r \in {r \in Rules : validate(r)}}

BtInit ==
    \E bars \in [1 .. NumBars -> BarChoices], s \in Selectable :
       bt = [pc |-> IF NumBars < MinBars THEN "refused" ELSE "bar", bars |-> bars, i |-> 1, strategy |-> s,
             state |-> [long |-> FALSE, entry_index |-> 0],
             cash |-> Num(Capital), quantity |-> Zero, entry |-> [price |-> 0, commission |-> Zero],
             high |-> Num(Capital), curve |-> <<>>, trades |-> <<>>]

Warmup == IF WarmupCap < NumBars \div 2 THEN WarmupCap ELSE NumBars \div 2
InPosition == Less(Zero, bt.quantity)

\* Mark to market: equity, high-water mark, drawdown.
Marked ==
    LET equity == Plus(bt.cash, Times(bt.quantity, Num(bt.bars[bt.i].close)))
        high == Larger(bt.high, equity)
    IN  [bt EXCEPT !.high = high, !.i = @ + 1,
                   !.curve = Append(@, [equity |-> equity, drawdown |-> Minus(high, equity)])]

\* Fault: the commission of the entry is left out of the trade.
TradeExitFee(price) ==
    LET commission == Times(Times(Num(price), bt.quantity), Commission)
        gross == Times(Num(price - bt.entry.price), bt.quantity)
    IN  [net |-> Minus(gross, commission), exit_commission |-> commission]

\* gross less the commissions of both sides.
ClosedTrade(price) ==
    LET commission == Times(Times(Num(price), bt.quantity), Commission)
        gross == Times(Num(price - bt.entry.price), bt.quantity)
    IN  [net |-> Minus(gross, Plus(bt.entry.commission, commission)), exit_commission |-> commission]

Sold(b, price) ==
    LET trade == ClosedTrade(price)
    IN  [b EXCEPT !.cash = Plus(@, Minus(Times(Num(price), bt.quantity), trade.exit_commission)),
                  !.trades = Append(@, trade), !.quantity = Zero]

\* As much as the cash buys after commission.
Bought(b, price) ==
    LET quantity == Ratio(bt.cash, Times(Num(price), Plus(Num(1), Commission)))
        commission == Times(Times(Num(price), quantity), Commission)
    IN  [b EXCEPT !.cash = Minus(@, Plus(Times(Num(price), quantity), commission)),
                  !.quantity = quantity, !.entry = [price |-> price, commission |-> commission]]

WarmupBar == bt.pc = "bar" /\ bt.i <= Warmup /\ bt' = Marked

\* Last bar: an open position is closed at its close, after the equity was marked.
LastBar ==
    /\ bt.pc = "bar" /\ bt.i > Warmup /\ bt.i = NumBars
    /\ bt' = [IF InPosition THEN Sold(Marked, bt.bars[NumBars].close) ELSE Marked EXCEPT !.pc = "done"]

\* The signal of a bar fills at the open of the next.
Filled(decision, price) ==
    LET b == [Marked EXCEPT !.state = decision.state]
    IN  CASE decision.target = -1 -> [bt EXCEPT !.pc = "raised"]
          [] decision.target = 1 /\ ~InPosition -> Bought(b, price)
          [] decision.target = 0 /\ InPosition -> Sold(b, price)
          [] OTHER -> b

TradingBar ==
    /\ bt.pc = "bar" /\ bt.i > Warmup /\ bt.i < NumBars
    /\ bt' = Filled(Decide(bt.i), bt.bars[bt.i + 1].open)

BtNext == WarmupBar \/ TradingBar \/ LastBar

BtSpec == BtInit /\ [][BtNext]_btVars

\* compute_metrics: what is exact of it.
final_equity == bt.curve[Len(bt.curve)].equity
Nets == FoldLeft(LAMBDA acc, t : Plus(acc, t.net), Zero, bt.trades)
WinsAndLosses ==
    <<Cardinality({k \in DOMAIN bt.trades : Less(Zero, bt.trades[k].net)}),
      Cardinality({k \in DOMAIN bt.trades : AtMost(bt.trades[k].net, Zero)})>>
compute_metrics == [gain |-> Minus(final_equity, Num(Capital)), wins |-> WinsAndLosses,
                    max_drawdown |-> FoldLeft(LAMBDA m, p : Larger(m, p.drawdown), Zero, bt.curve)]

-----------------------------------------------------------------------------
(***************************************************************************)
(* The books balance after every bar: what is in cash or was paid for the  *)
(* open position is the capital and the net of the closed trades; the      *)
(* reported final value exceeds that sum by exactly the exit commission of *)
(* a forced close.  A strategy that remembers whether it is long agrees    *)
(* with the engine, a time stop of n bars is never overrun, and rules that *)
(* passed validation raise during a run only where validate cannot see it: *)
(* in a group of several clauses, of which all() or any() had skipped one, *)
(* or at an atr with a negative period, on fewer bars than validate has.   *)
(***************************************************************************)
Paid == IF InPosition THEN Plus(Times(bt.quantity, Num(bt.entry.price)), bt.entry.commission) ELSE Zero
Books == Same(Plus(bt.cash, Paid), Plus(Num(Capital), Nets))
ForcedFee ==
    IF bt.trades # <<>> /\ bt.state.long THEN LastOf(bt.trades).exit_commission ELSE Zero

CountsBack(c) == \E o \in {c.left, c.right} : o.kind = "atr" /\ o.value < 0
UnseenByValidate(g) == Len(g.clauses) > 1 \/ \E c \in ToSet(g.clauses) : CountsBack(c)

BacktestBalanced ==
    /\ Books
    /\ InPosition => Same(bt.cash, Zero)
    /\ bt.pc = "done" => Same(final_equity, Plus(Plus(Num(Capital), Nets), ForcedFee))
    /\ bt.pc = "done" => compute_metrics.wins[1] + compute_metrics.wins[2] = Len(bt.trades)
    /\ bt.pc = "bar" => (bt.state.long <=> InPosition)
    /\ bt.strategy.custom /\ bt.pc = "bar" /\ InPosition =>
         \A n \in _holding_days_max(bt.strategy.rules.exit) :
           bt.i - 1 - bt.state.entry_index < (IF n > 0 THEN n ELSE 0)
    /\ bt.pc = "raised" => UnseenByValidate(IF bt.state.long THEN bt.strategy.rules.exit
                                             ELSE bt.strategy.rules.entry)
=============================================================================
