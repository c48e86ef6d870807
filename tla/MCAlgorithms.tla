----------------------------- MODULE MCAlgorithms -----------------------------
(***************************************************************************)
(* The pure algorithms over bounded inputs.  A behaviour is about one of   *)
(* them: it starts with an input (case), or grows the lots of the tax      *)
(* engine, or walks the bars of a backtest.                                *)
(***************************************************************************)
EXTENDS MCTaxCgt, PriceAdjust, MarketQueries, Backtest, RiskProfile, GoalPlan, Predictions, AlertRules

VARIABLE case

algVars == <<lots, bt, case>>

Case(of, input) == [of |-> of, input |-> input]

-----------------------------------------------------------------------------
\* Two closes and up to three corporate actions, before, on and after their days.
AdjustEvents ==
    {[ex_date |-> e, action_type |-> "split", num |-> n, den |-> 2, amount |-> 0] : e \in 1 .. 3, n \in {0, 1}}
      \cup {[ex_date |-> e, action_type |-> "dividend_cash", num |-> 0, den |-> 0, amount |-> a] :
              e \in 1 .. 3, a \in {0, 150, 400}}
AdjustInputs ==
    [prices : [1 .. 2 -> {101, 755}], events : UNION {[1 .. n -> AdjustEvents] : n \in 0 .. 2}]
      \cup [prices : {<<101, 755>>}, events : [1 .. 3 -> AdjustEvents]]

\* Up to three securities; every date of a leap year and its neighbours; bars with a missing close.
SecurityRows ==
    [symbol : 1 .. 3, is_active : BOOLEAN, sector : {"s"}, is_kmi_compliant : {TRUE}, mcap : {Missing, 1, 2}]
RowInputs ==
    {rows \in UNION {kSubset(k, SecurityRows) : k \in 0 .. 3} : \A a, b \in rows : a.symbol = b.symbol => a = b}
DateInputs ==
    {t \in [year : {2023, 2024, 2025}, month : 1 .. 12, day : 1 .. 31] : t.day <= DaysIn(t.year, t.month)}
BarInputs == UNION {[dates -> {-1, 2, 3}] : dates \in SUBSET (1 .. 3)}
AnyActive == [active_only |-> TRUE, sector |-> "any", kmi_only |-> FALSE]

\* Series of up to four values, one of them possibly not a number.
SeriesInputs == UNION {[1 .. n -> {Num(1), Num(2), Num(4), NaN}] : n \in 0 .. 4}
SeriesBars(xs) == [i \in DOMAIN xs |-> [close |-> xs[i], high |-> Plus(xs[i], Num(1)), low |-> xs[i]]]
IndicatorKinds == {"rsi", "macd", "sma", "ema", "bbands", "stochastic", "obv", "atr"}

\* Answer sheets that differ in one axis' answers, the others all cautious or all bold.
AnswerInputs ==
    UNION {[axis : {a}, answers : {[q \in QuestionIds |-> IF q[1] = a THEN w[q[2]] ELSE rest] :
                                     w \in [1 .. QUESTIONS[a] -> OptionWeights(a)], rest \in {1, 5}}] :
             a \in DOMAIN QUESTIONS}

GoalInputs ==
    [target : {Num(n) : n \in {1, 4, 8, 9, 51, 61}}, pv : {Num(0), Num(4), Num(50), Num(60)},
     pmt : {Num(0), Num(1), Num(4)}, months : 0 .. 2]

\* Percentages around the contraction's and the labels' edges; a history of a feature.
ProbabilityInputs == LET p == {0, 5, 10, 45, 50, 55, 75, 100} IN {<<x, y, z>> : x \in p, y \in p, z \in p}
HistoryInputs == [1 .. 5 -> {<<Num(1), Num(1)>>, <<Num(3), Num(1)>>}]

-----------------------------------------------------------------------------
\* Strategies and bars of the backtests.
Price == [kind |-> "price", value |-> 0]
Constant(n) == [kind |-> "constant", value |-> n]
Clause(l, o, r) == [left |-> l, operator |-> o, right |-> r]
HeldLonger(n) == Clause(Constant(n), "holding_days_gt", Constant(0))
BadClause == Clause([kind |-> "nope", value |-> 0], "<", Constant(1))
Group(mode, clauses) == [mode |-> mode, clauses |-> clauses]
Indicator(name, period) == [kind |-> name, value |-> period]
MCRules ==
    {[entry |-> Group("condition", <<Clause(Indicator("volume", 14), ">", Indicator("atr", 1))>>),
      exit |-> Group("condition", <<Clause(Indicator("ema", 2), "<=", Indicator("stochastic_k", 2))>>)],
     [entry |-> Group("all_of", <<Clause(Indicator("macd_histogram", 14), "<", Indicator("atr", -4))>>),
      exit |-> Group("any_of", <<Clause(Indicator("macd_histogram", 14), ">", Constant(0)),
                                 Clause(Indicator("atr", -1), "<", Constant(0))>>)],
     [entry |-> Group("all_of", <<Clause(Indicator("volume", 14), ">", Constant(2))>>),
      exit |-> Group("condition", <<Clause(Indicator("atr", -1), "<", Constant(0))>>)],
     [entry |-> Group("all_of", <<Clause(Indicator("atr", -20), "<", Price)>>), exit |-> Group("all_of", <<>>)],
     [entry |-> Group("none_of", <<>>), exit |-> Group("all_of", <<>>)],
     [entry |-> Group("all_of", <<Clause(Price, ">", Constant(1))>>),
      exit |-> Group("any_of", <<Clause(Price, "<", [kind |-> "sma", value |-> 2]), HeldLonger(1)>>)],
     [entry |-> Group("all_of", <<Clause(Price, "<", Constant(3)), BadClause>>),
      exit |-> Group("all_of", <<HeldLonger(2)>>)],
     [entry |-> Group("any_of", <<Clause(Price, "<=", Constant(1)), Clause(Price, "==", Constant(3))>>),
      exit |-> Group("all_of", <<HeldLonger(0), Clause(Price, ">=", Constant(4))>>)],
     [entry |-> Group("all_of", <<Clause(Price, "<", [kind |-> "rsi", value |-> 0])>>), exit |-> Group("all_of", <<>>)],
     [entry |-> Group("all_of", <<BadClause>>), exit |-> Group("all_of", <<>>)]}
DayBar(open, close) == [open |-> open, close |-> close, low |-> IF open < close THEN open ELSE close,
                       high |-> IF open < close THEN close ELSE open, volume |-> 2 * open]
MCBars == {DayBar(1, 2), DayBar(2, 1), DayBar(2, 3)}
MCCommission == Fraction(1, 4)

-----------------------------------------------------------------------------
NoCase == Case("none", 0)
NoRun == [pc |-> "unused"]

Cases ==
    {Case("adjust", x) : x \in AdjustInputs} \cup {Case("rows", x) : x \in RowInputs}
      \cup {Case("date", x) : x \in DateInputs} \cup {Case("bars", x) : x \in BarInputs}
      \cup {Case("series", x) : x \in SeriesInputs} \cup {Case("answers", x) : x \in AnswerInputs}
      \cup {Case("scores", x) : x \in Scores} \cup {Case("goal", x) : x \in GoalInputs}
      \cup {Case("ensemble", x) : x \in ProbabilityInputs} \cup {Case("history", x) : x \in HistoryInputs}
      \cup {Case("severity", x) : x \in {0, 24, 25, 40, 49, 50, 70} \X {0, 24, 25, 40, 49, 50, 70}}

AlgInit ==
    \/ case \in Cases /\ lots = << >> /\ bt = NoRun
    \/ case = Case("lots", 0) /\ Init /\ bt = NoRun
    \/ case = Case("backtest", 0) /\ lots = << >> /\ BtInit

AlgNext ==
    \/ case.of = "lots" /\ Next /\ UNCHANGED <<bt, case>>
    \/ case.of = "backtest" /\ BtNext /\ UNCHANGED <<lots, case>>

AlgSpec == AlgInit /\ [][AlgNext]_algVars

-----------------------------------------------------------------------------
(***************************************************************************)
(* compute_adjusted_prices gives what its docstring documents, for several *)
(* events on the same and on different days: each earlier price times the  *)
(* ratios after it, less the dividends scaled by the ratios after them.    *)
(***************************************************************************)
AdjustExact ==
    case.of = "adjust" =>
        compute_adjusted_prices(case.input.prices, case.input.events)
            = DocumentedPrices(case.input.prices, case.input.events)

(***************************************************************************)
(* A backtest's books balance, bar by bar and after the forced exit.       *)
(***************************************************************************)
BacktestSound == case.of = "backtest" => BacktestBalanced

(***************************************************************************)
(* The services that compute an answer from what is stored: pages of the   *)
(* screener, ranks, quotes and reporting windows; indicators against their *)
(* definitions; risk profiles never lowered by a bolder answer nor by a    *)
(* refused sheet; goal plans against a month-by-month balance, to the      *)
(* paisa they are rounded to; the prediction ensemble and its fallback;    *)
(* severities and anomaly scores.                                          *)
(***************************************************************************)
AnswersExact ==
    LET x == case.input
    IN  /\ case.of = "rows" => (\A n \in 1 .. 3 : PagesExact(x, AnyActive, n)) /\ RanksOrdered(x, "s") /\ ListingsAgree(x, "s")
        /\ case.of = "date" => WindowDefined(x)
        /\ case.of = "bars" => QuoteNewest(x) /\ WindowsAgree(x)
        /\ case.of = "series" =>
             /\ IndicatorsExact(x, 2)
             /\ \A k \in IndicatorKinds :
                  compute_indicator(k, SeriesBars(x), 2) \in {"bearish", "bullish", "neutral"}
        /\ case.of = "answers" => ProfileMonotone(x.answers, x.axis)
        /\ case.of = "scores" => ArchetypeMonotone(x)
        /\ case.of = "goal" => GoalSound(x)
        /\ case.of = "ensemble" => EnsembleSound(x, 5) /\ (x[1] = x[2] /\ x[2] = x[3] => PredictionSound(x))
        /\ case.of = "severity" => SeverityOrdered(x[1], x[2])
        /\ case.of = "history" => ScoreSound(x)
=============================================================================
