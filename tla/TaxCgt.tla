------------------------------- MODULE TaxCgt -------------------------------
(***************************************************************************)
(* psx_api/tax/cgt.py: capital gains tax on a sell matched against open    *)
(* buy lots, oldest first.                                                 *)
(*                                                                         *)
(* Prices and quantities are whole numbers of their smallest units, a      *)
(* ten-thousandth of a rupee and of a share, so that price * quantity is   *)
(* exact; gains and taxes are paisas, rates tenths of a percent, dates day *)
(* numbers.  A lot is [id, date, qty, price]; ids are the rows' UUIDs, of  *)
(* which only the order matters.                                           *)
(***************************************************************************)
EXTENDS Integers, SequencesExt

CONSTANT Paisa   \* price units times quantity units in a paisa: 10^6 in the code

ASSUME PaisaAssumption == Paisa \in Nat \ {0}

Open == -1  \* effective_to or max_holding_days is None

NoRule == [rate |-> -1]

\* One row of tax_rules.
Bracket(from, to, filer, minDays, maxDays, rate) ==
    [from |-> from, to |-> to, filer |-> filer,
     minDays |-> minDays, maxDays |-> maxDays, rate |-> rate]

\* Fault: a bracket ends the day before its last.
BracketMatchesStrict(b, day, filer, held) ==
    /\ b.filer = filer
    /\ day >= b.from /\ (b.to # Open => day < b.to)
    /\ held >= b.minDays /\ (b.maxDays # Open => held <= b.maxDays)

bracket_matches(b, day, filer, held) ==
    /\ b.filer = filer
    /\ day >= b.from /\ (b.to # Open => day <= b.to)
    /\ held >= b.minDays /\ (b.maxDays # Open => held <= b.maxDays)

Span(lo, hi) == IF hi = Open THEN 10^9 ELSE hi - lo

\* b is at least as specific as c: narrower holding range, then date range.
MoreSpecific(b, c) ==
    LET hb == Span(b.minDays, b.maxDays)
        hc == Span(c.minDays, c.maxDays)
    IN  hb < hc \/ (hb = hc /\ Span(b.from, b.to) <= Span(c.from, c.to))

\* The sort is stable: of equally specific brackets the first loaded wins.
find_bracket(brackets, day, filer, held) ==
    LET fit == {k \in DOMAIN brackets : bracket_matches(brackets[k], day, filer, held)}
    IN  IF fit = {} THEN NoRule
        ELSE brackets[CHOOSE k \in fit : \A j \in fit :
               /\ MoreSpecific(brackets[k], brackets[j])
               /\ MoreSpecific(brackets[j], brackets[k]) => k <= j]

\* _quantize: to the nearest whole unit, ROUND_HALF_UP (half away from zero).
HalfUp(x, unit) ==
    IF x < 0 THEN -((unit - 2 * x) \div (2 * unit)) ELSE (unit + 2 * x) \div (2 * unit)

\* Fault: the tax is rounded to whole rupees.
TaxInRupees(gain, rate) == 100 * HalfUp(gain * rate, 100000 * Paisa)

\* The tax on an unrounded gain.
Tax(gain, rate) == HalfUp(gain * rate, 1000 * Paisa)

\* amount, in paisas, is exact up to n roundings to the nearest paisa.
RoundedTimes(amount, exact, n) ==
    2 * (Paisa * amount - exact) \in -(n * Paisa) .. n * Paisa

OlderLot(a, b) == a.date < b.date \/ (a.date = b.date /\ a.id < b.id)

\* sorted() is stable: a lot stands behind the older ones and those that tie
\* with it and came first.
Ahead(lots, i) ==
    {j \in DOMAIN lots : \/ OlderLot(lots[j], lots[i])
                         \/ ~OlderLot(lots[i], lots[j]) /\ j < i}
OldestFirst(lots) ==
    [k \in DOMAIN lots |-> lots[CHOOSE i \in DOMAIN lots : Cardinality(Ahead(lots, i)) = k - 1]]

\* Fault: a lot is matched whole even when fewer shares are left to sell.
MatchWholeLot(m, lot, price, day, filer, brackets) ==
    LET gain == (price - lot.price) * lot.qty
        rule == find_bracket(brackets, day, filer, day - lot.date)
    IN  IF m.error # "none" \/ m.remaining <= 0 THEN m
        ELSE IF gain > 0 /\ rule = NoRule THEN [m EXCEPT !.error = "no_rule"]
        ELSE [error |-> "none", remaining |-> m.remaining - lot.qty,
              matched |-> m.matched + 1, gain |-> m.gain + HalfUp(gain, Paisa),
              cgt |-> m.cgt + IF gain > 0 THEN Tax(gain, rule.rate) ELSE 0]

\* How match_fifo takes from one more lot: its gain and its tax are rounded,
\* each on its own; whether there is a gain is decided on the unrounded one.
MatchLot(m, lot, price, day, filer, brackets) ==
    LET take == IF lot.qty < m.remaining THEN lot.qty ELSE m.remaining
        gain == (price - lot.price) * take
        rule == find_bracket(brackets, day, filer, day - lot.date)
    IN  IF m.error # "none" \/ take <= 0 THEN m
        ELSE IF gain > 0 /\ rule = NoRule THEN [m EXCEPT !.error = "no_rule"]
        ELSE [error |-> "none", remaining |-> m.remaining - take,
              matched |-> m.matched + 1, gain |-> m.gain + HalfUp(gain, Paisa),
              cgt |-> m.cgt + IF gain > 0 THEN Tax(gain, rule.rate) ELSE 0]

\* The loop over the sorted lots.
MatchLots(start, lots, price, day, filer, brackets) ==
    FoldLeft(LAMBDA m, lot : MatchLot(m, lot, price, day, filer, brackets), start, lots)

\* CgtResult, or the exception: "no_rule" and "insufficient".
match_fifo(lots, qty, price, day, filer, brackets) ==
    LET start == [error |-> "none", remaining |-> qty, matched |-> 0, gain |-> 0, cgt |-> 0]
        m == MatchLots(start, OldestFirst(lots), price, day, filer, brackets)
    IN  IF m.error = "none" /\ m.remaining > 0 THEN [m EXCEPT !.error = "insufficient"] ELSE m

(***************************************************************************)
(* _compute_sell_cgt's open lots: prior sells eat the buys in the order of *)
(* the query, whatever the dates of the sells.                             *)
(***************************************************************************)
Eat(acc, lot) ==
    LET take == IF lot.qty < acc.left THEN lot.qty ELSE acc.left
    IN  [left |-> acc.left - take,
         lots |-> IF take = lot.qty THEN acc.lots
                  ELSE Append(acc.lots, [lot EXCEPT !.qty = lot.qty - take])]

\* Fault: prior sells are not taken off the lots.
OpenLotsAll(buys, sold) == buys

OpenLots(buys, sold) == FoldLeft(Eat, [left |-> sold, lots |-> << >>], buys).lots

\* The rows migration 0006 seeds, in the order load_cgt_brackets returns them
\* (day 0 is 2022-07-01, day 731 is 2024-07-01).
SeedBrackets ==
    << Bracket(0, 730, TRUE, 0, 365, 150),       Bracket(0, 730, TRUE, 366, 730, 125),
       Bracket(0, 730, TRUE, 731, 1095, 100),    Bracket(0, 730, TRUE, 1096, 1460, 75),
       Bracket(0, 730, TRUE, 1461, Open, 0),     Bracket(0, 730, FALSE, 0, 365, 300),
       Bracket(0, 730, FALSE, 366, 730, 250),    Bracket(0, 730, FALSE, 731, 1095, 200),
       Bracket(0, 730, FALSE, 1096, 1460, 150),  Bracket(0, 730, FALSE, 1461, Open, 0),
       Bracket(731, Open, TRUE, 0, Open, 150),   Bracket(731, Open, FALSE, 0, Open, 450) >>
=============================================================================
