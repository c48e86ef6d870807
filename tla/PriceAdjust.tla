------------------------------ MODULE PriceAdjust ------------------------------
(***************************************************************************)
(* Split- and dividend-adjusted closes: adjustments.py.  Prices and        *)
(* dividends are integers in units of 0.0001 rupee, dates are naturals, a  *)
(* multiplier is an exact fraction (the code divides with 28 digits and    *)
(* rounds once, at the end).                                               *)
(***************************************************************************)
EXTENDS Integers, Sequences, SequencesExt, FiniteSetsExt

Null == 0          \* a NULL column: closes, amounts, ratios and dates are positive
MinPrice == 100    \* Decimal("0.01")

\* An affine map P |-> (P * mult - add) / den.
Unchanged == [mult |-> 1, add |-> 0, den |-> 1]

\* den / (den + num) for share issues, minus the amount for cash dividends.
_event_to_adjustment(e) ==
    CASE /\ e.action_type \in {"split", "bonus", "rights"}
         /\ e.num # Null /\ e.den # Null -> [mult |-> e.den, add |-> 0, den |-> e.den + e.num]
      [] e.action_type = "dividend_cash" -> [mult |-> 1, add |-> e.amount, den |-> 1]
      [] OTHER -> Unchanged

\* Fault: the amount of a dividend replaces the amounts cumulated so far.
CumulateLast(cum, adj) ==
    [mult |-> cum.mult * adj.mult, add |-> adj.add * cum.den, den |-> cum.den * adj.den]

\* cumulative_mult * mult, cumulative_add * mult + addend.
Cumulate(cum, adj) ==
    [mult |-> cum.mult * adj.mult,
     add  |-> cum.add * adj.mult + adj.add * cum.den,
     den  |-> cum.den * adj.den]

\* sorted(events, reverse=True) is stable: an event stands behind the newer
\* ones and those of its day that came first.
NewerEvents(events, i) ==
    {j \in DOMAIN events : \/ events[j].ex_date > events[i].ex_date
                           \/ events[j].ex_date = events[i].ex_date /\ j < i}
NewestFirst(events) ==
    [k \in DOMAIN events |->
        events[CHOOSE i \in DOMAIN events : Cardinality(NewerEvents(events, i)) = k - 1]]

\* adj_idx when the backward pass has come down to a date: the loop stops at
\* the first event that is not after it.
AdjIdx(sorted_events, d) ==
    Min({n \in 0 .. Len(sorted_events) :
           n < Len(sorted_events) => ~(sorted_events[n + 1].ex_date > d)})

FactorsAt(events, d) ==
    LET sorted_events == NewestFirst(events)
    IN  FoldLeft(LAMBDA cum, e : Cumulate(cum, _event_to_adjustment(e)), Unchanged,
                 SubSeq(sorted_events, 1, AdjIdx(sorted_events, d)))

\* max(..., 0.01).quantize(0.0001, ROUND_HALF_UP); 0.01 is rounded to itself,
\* so the larger of the two can be taken after rounding.
ClampAndRound(num, den) ==
    LET rounded == (2 * num + den) \div (2 * den)
    IN  IF rounded < MinPrice THEN MinPrice ELSE rounded

compute_adjusted_prices(prices, events) ==
    [d \in DOMAIN prices |->
        LET f == FactorsAt(events, d)
        IN  ClampAndRound(prices[d] * f.mult - f.add, f.den)]

-----------------------------------------------------------------------------
(***************************************************************************)
(* The algorithm of the docstring, which rewrites every older price at     *)
(* every event it crosses, as numerator over the common denominator.       *)
(***************************************************************************)
CrossEvent(rows, e) ==
    LET adj == _event_to_adjustment(e)
    IN  [d \in DOMAIN rows |->
            IF d < e.ex_date
            THEN [num |-> rows[d].num * adj.mult - adj.add * rows[d].den, den |-> rows[d].den * adj.den]
            ELSE rows[d]]

DocumentedPrices(prices, events) ==
    LET rows == FoldLeft(CrossEvent, [d \in DOMAIN prices |-> [num |-> prices[d], den |-> 1]],
                         NewestFirst(events))
    IN  [d \in DOMAIN prices |-> ClampAndRound(rows[d].num, rows[d].den)]
=============================================================================
