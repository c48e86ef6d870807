------------------------------ MODULE TaxReports ------------------------------
(***************************************************************************)
(* What the filer/non-filer simulator and the portfolio summary make of    *)
(* the committed trades of a symbol.  Both walk the history again; neither *)
(* uses the tax stored with each sell.  Brokerage, FED and CVT are sums of *)
(* stored columns and left out.                                            *)
(***************************************************************************)
EXTENDS TradeLedger

\* Reports are asked for between a first and a last day.
ASSUME ReportAssumption ==
    \E first, last \in Days : \A day \in Days : first <= day /\ day <= last

-----------------------------------------------------------------------------
(***************************************************************************)
(* TaxSimulatorService._simulate_portfolio: one sell of the walk.  A sell  *)
(* without lots, or without a rule, is passed over and consumes nothing;   *)
(* too few lots raise InsufficientLotsError, which nobody catches.         *)
(***************************************************************************)
\* Fault: the sells' lots stay open.
SimulateSellKeepsLots(w, t, from, to) ==
    LET filer == match_fifo(w.lots, t.qty, t.price, t.date, TRUE, SeedBrackets)
        nonfiler == match_fifo(w.lots, t.qty, t.price, t.date, FALSE, SeedBrackets)
        counted == IF t.date \in from .. to THEN 1 ELSE 0
    IN  IF w.lots = <<>> \/ "no_rule" \in {filer.error, nonfiler.error} THEN w
        ELSE IF filer.error = "insufficient" THEN [w EXCEPT !.raised = TRUE]
        ELSE [w EXCEPT !.filer = @ + counted * filer.cgt, !.nonfiler = @ + counted * nonfiler.cgt,
                       !.gain = @ + counted * filer.gain, !.sells = @ + counted]

SimulateSell(w, t, from, to) ==
    LET filer == match_fifo(w.lots, t.qty, t.price, t.date, TRUE, SeedBrackets)
        nonfiler == match_fifo(w.lots, t.qty, t.price, t.date, FALSE, SeedBrackets)
        counted == IF t.date \in from .. to THEN 1 ELSE 0
    IN  IF w.lots = <<>> \/ "no_rule" \in {filer.error, nonfiler.error} THEN w
        ELSE IF filer.error = "insufficient" THEN [w EXCEPT !.raised = TRUE]
        ELSE [w EXCEPT !.lots = OpenLots(@, t.qty), !.filer = @ + counted * filer.cgt,
                       !.nonfiler = @ + counted * nonfiler.cgt, !.gain = @ + counted * filer.gain,
                       !.sells = @ + counted]

\* One row of the history; dividends are ignored.
SimulateRow(w, t, from, to) ==
    IF w.raised \/ t.kind = "dividend" THEN w
    ELSE IF t.kind = "sell" THEN SimulateSell(w, t, from, to)
    ELSE [w EXCEPT !.lots = Append(@, t)]

\* The walk over the whole history.
simulate(rows, from, to) ==
    FoldLeft(LAMBDA w, t : SimulateRow(w, t, from, to),
             [lots |-> <<>>, filer |-> 0, nonfiler |-> 0, gain |-> 0, sells |-> 0, raised |-> FALSE],
             Sorted(rows))

-----------------------------------------------------------------------------
NoClose == -1   \* the newest row has no close, or there is no row

\* _holdings_with_market: value and profit of a holding, not rounded (Paisa of
\* these units are a paisa); None without a close counts as nothing in the sums.
market_value(holding, close) == IF close = NoClose THEN 0 ELSE close * holding.quantity
unrealized_pnl(holding, close) ==
    IF close = NoClose THEN 0 ELSE (close - holding.avg_cost) * holding.quantity

\* The tax if every open lot were sold at the latest close.
cgt_if_sold(rows, holding, close, today, filer) ==
    LET lots == OpenLots(Sorted(Acquisitions(rows)), Quantity(Sells(rows)))
        all == SumFunction([k \in DOMAIN lots |-> lots[k].qty])
        m == match_fifo(lots, all, close, today, filer, SeedBrackets)
    IN  IF close = NoClose \/ holding.quantity = 0 \/ lots = <<>> \/ m.error = "no_rule" THEN 0 ELSE m.cgt

\* _ytd_aggregates: dividends and fees since the first day of the year, but
\* the realized profit of the snapshot's whole life.
_ytd_aggregates(rows, holding, yearStart) ==
    LET year == {t \in rows : t.date >= yearStart}
    IN  [realized |-> holding.realized,
         dividends |-> HalfEven(Paid({t \in year : t.kind = "dividend"}), Paisa),
         fees |-> SumFunction([t \in year |-> t.cgt])]

\* PortfolioSummaryService.summary, each figure rounded to a paisa at the end.
\* total_invested is what was ever paid for shares, also for those sold since.
summary(rows, holding, close, today, filer, yearStart) ==
    LET cgt == cgt_if_sold(rows, holding, close, today, filer)
    IN  [unrealized |-> HalfEven(market_value(holding, close) - Paisa * holding.invested, Paisa),
         after_tax |-> HalfEven(unrealized_pnl(holding, close) - Paisa * cgt, Paisa),
         cgt |-> cgt,
         ytd |-> _ytd_aggregates(rows, holding, yearStart)]

-----------------------------------------------------------------------------
(***************************************************************************)
(* The tax simulator retells what really happened.  For trades entered in  *)
(* the order of their dates it never raises, counts every sell, its tax    *)
(* for the user's own status is the sum of what was stored with each sell, *)
(* and the lots it ends with are the open ones.  For any history the tax   *)
(* of two adjoining windows adds up to that of both, and filers never pay  *)
(* more; it raises only for trades entered out of order.                   *)
(***************************************************************************)
SimulatorAgrees ==
    LET first == Min(Days)
        last == Max(Days)
        whole == simulate(transactions, first, last)
        stored == SumFunction([t \in Sells(transactions) |-> t.cgt])
    IN  /\ InDateOrder =>
             /\ ~whole.raised
             /\ stored = IF Filer THEN whole.filer ELSE whole.nonfiler
             /\ whole.sells = Cardinality(Sells(transactions))
             /\ whole.lots = OpenLots(Sorted(Acquisitions(transactions)), Quantity(Sells(transactions)))
        /\ whole.filer <= whole.nonfiler
        /\ \A day \in Days \ {first} :
             LET before == simulate(transactions, first, day - 1)
                 after == simulate(transactions, day, last)
             IN  ~whole.raised => /\ whole.filer = before.filer + after.filer
                                  /\ whole.nonfiler = before.nonfiler + after.nonfiler
                                  /\ whole.gain = before.gain + after.gain
                                  /\ whole.sells = before.sells + after.sells

(***************************************************************************)
(* "After-tax unrealized = gross unrealized - CGT-if-sold" relates the two *)
(* figures of a summary only while nothing was sold and the newest row has *)
(* a close, and then up to roundings: half a price unit a share of the     *)
(* average cost, half a paisa of the invested sum and of either figure.    *)
(* Otherwise the gross figure is the smaller one: shares sold since, and   *)
(* holdings without a close, count in it as money lost.  A filer would     *)
(* never pay more, and no year has more dividends than the snapshot.       *)
(***************************************************************************)
SummaryAgrees ==
    LET start == Max(Days)
        gross(t) == t.after_tax + t.cgt - t.unrealized
        slack == holdings.quantity + 3 * Paisa
    IN  InDateOrder =>
          \A close \in Prices \cup {NoClose}, today \in Days :
            LET s == summary(transactions, holdings, close, today, Filer, start)
            IN  /\ close # NoClose /\ Sells(transactions) = {} =>
                     2 * Paisa * gross(s) <= slack
                /\ 2 * Paisa * gross(s) >= -slack
                /\ s.after_tax <= HalfEven(unrealized_pnl(holdings, close), Paisa)
                /\ cgt_if_sold(transactions, holdings, close, today, TRUE)
                     <= cgt_if_sold(transactions, holdings, close, today, FALSE)
                /\ s.ytd.dividends <= holdings.dividends

(***************************************************************************)
(* Both reports, whenever nobody is recording a trade.                     *)
(***************************************************************************)
TaxReportsAgree == Quiet => SimulatorAgrees /\ SummaryAgrees
=============================================================================
