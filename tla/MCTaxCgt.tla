------------------------------ MODULE MCTaxCgt ------------------------------
(***************************************************************************)
(* TaxCgt over every small list of open lots: a state is a list of lots,   *)
(* grown one buy at a time, and the properties quantify over the sells.    *)
(***************************************************************************)
EXTENDS TaxCgt

CONSTANTS MaxLots, Quantities, Prices, BuyDays, SellDays

\* No price is negative (ge=0 of the schema); no rule is older than day 0.
ASSUME LotsAssumption ==
    /\ MaxLots \in Nat /\ Quantities \subseteq Nat /\ Prices \subseteq Nat
    /\ BuyDays \subseteq Int /\ SellDays \subseteq Nat

VARIABLE lots

\* Two years before the first rule takes effect, and around its first edge.
MCBuyDays == {-731, 0, 366}

Init == lots = << >>

\* A buy: its UUID sorts anywhere among those of the earlier ones, its place
\* is behind those of its day.
Buy(id, day, qty, price) ==
    LET older == {k \in DOMAIN lots : lots[k].date <= day}
    IN  /\ Len(lots) < MaxLots
        /\ \A k \in DOMAIN lots : lots[k].id # id
        /\ lots' = InsertAt(lots, Cardinality(older) + 1,
                            [id |-> id, date |-> day, qty |-> qty, price |-> price])

Next ==
    \E id \in 1 .. MaxLots, day \in BuyDays, qty \in Quantities, price \in Prices :
        Buy(id, day, qty, price)

Spec == Init /\ [][Next]_lots

-----------------------------------------------------------------------------
Held == SumFunction([k \in DOMAIN lots |-> lots[k].qty])

Match(open, qty, price, day, filer) == match_fifo(open, qty, price, day, filer, SeedBrackets)

\* The lots that are left when qty shares are sold, in match_fifo's order.
After(qty) == OpenLots(OldestFirst(lots), qty)

\* The reference: every ten-thousandth of a share on its own, oldest first.
AddShares(acc, lot) == acc \o [k \in 1 .. lot.qty |-> lot.price]
Shares == FoldLeft(AddShares, << >>, OldestFirst(lots))
GainOfShares(qty, price) ==
    LET shares == Shares
    IN  SumFunction([k \in 1 .. qty |-> price - shares[k]])

(***************************************************************************)
(* match_fifo agrees with selling the oldest shares first, one by one: the *)
(* gain is theirs up to one rounding to a paisa for every lot it touches   *)
(* (half a paisa each, so many small lots can drift by more than one), and *)
(* a sell is refused for lack of lots exactly when more is sold than held. *)
(***************************************************************************)
FifoExact ==
    \A qty \in 1 .. Held + 1, price \in Prices, day \in SellDays, filer \in BOOLEAN :
        LET m == Match(lots, qty, price, day, filer)
        IN  m.error # "no_rule" =>
              /\ (m.error = "insufficient") = (qty > Held)
              /\ qty <= Held => RoundedTimes(m.gain, GainOfShares(qty, price), m.matched)

(***************************************************************************)
(* Selling in two parts on the same day is taxed like selling at once:     *)
(* gain and tax differ by at most a paisa each, since only one lot is      *)
(* split, and match_fifo rounds its two parts instead of the whole.        *)
(***************************************************************************)
SplitSell ==
    \A q1, q2 \in Quantities, price \in Prices, day \in SellDays, filer \in BOOLEAN :
        q1 + q2 <= Held =>
            LET whole  == Match(lots, q1 + q2, price, day, filer)
                first  == Match(lots, q1, price, day, filer)
                second == Match(After(q1), q2, price, day, filer)
            IN  whole.error = "none" =>
                  /\ first.error = "none" /\ second.error = "none"
                  /\ whole.gain - first.gain - second.gain \in -1 .. 1
                  /\ whole.cgt - first.cgt - second.cgt \in -1 .. 1

(***************************************************************************)
(* The seeded rules decide every sell from 2022-07-01 on, on the days      *)
(* where a bracket ends or the law changes too: exactly one row applies,   *)
(* as find_bracket's docstring has it ("Return the unique bracket").  Only *)
(* a lot dated after the sell finds none.                                  *)
(***************************************************************************)
RulesDecide ==
    \A k \in DOMAIN lots, day \in SellDays, filer \in BOOLEAN :
        LET held == day - lots[k].date
            fit == {b \in Range(SeedBrackets) : bracket_matches(b, day, filer, held)}
        IN  /\ held >= 0 => Cardinality(fit) = 1
            /\ held < 0 => fit = {}
=============================================================================
