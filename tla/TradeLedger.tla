----------------------------- MODULE TradeLedger -----------------------------
(***************************************************************************)
(* TransactionService for one symbol of one portfolio: trades are recorded *)
(* by concurrent request handlers, a sell is matched against the open lots *)
(* first, and every trade recomputes the holdings_snapshot row.            *)
(*                                                                         *)
(* transactions and holdings are the COMMITTED tables (PostgreSQL at READ  *)
(* COMMITTED).  A handler is one database transaction; each of its SELECTs *)
(* sees what is committed at that moment, its writes stay private until    *)
(* Commit.  created_at is now(), the time the transaction BEGAN; the id is *)
(* a random UUID, so the two orders of the rows are unrelated.             *)
(***************************************************************************)
EXTENDS TaxCgt

CONSTANTS
    Requests,     \* handlers that can run at the same time
    MaxTrades,    \* bound: trades that users submit
    Kinds,        \* transaction types they submit in this instance
    Quantities, Prices, Days,
    Filer         \* user.is_filer

ASSUME TradeAssumption ==
    /\ MaxTrades \in Nat
    /\ Kinds \subseteq {"buy", "bonus", "rights", "sell", "dividend"}
    /\ Quantities \subseteq Nat \ {0} /\ Prices \subseteq Nat
    /\ Days \subseteq Int
    /\ Filer \in BOOLEAN

VARIABLES
    transactions, \* committed rows
    holdings,     \* the committed holdings_snapshot row, or NoHolding
    clock,        \* trades submitted so far; orders created_at
    pc,           \* where each handler stands
    row,          \* the row it will insert
    buys,         \* what its first SELECT returned
    new,          \* the snapshot it has computed
    loaded,       \* the snapshot row it has loaded
    alone         \* history: no other handler has run during its lifetime

tables == <<transactions, holdings>>
vars == <<transactions, holdings, clock, pc, row, buys, new, loaded, alone>>

NoHolding == [quantity |-> 0, avg_cost |-> 0, invested |-> 0, realized |-> 0,
              dividends |-> 0, present |-> FALSE]
NoRow == [id |-> 0]

\* bonus and rights issues are recorded as buys.
Acquisitions(rows) == {t \in rows : t.kind \in {"buy", "bonus", "rights"}}
Sells(rows) == {t \in rows : t.kind = "sell"}
Paid(rows) == SumFunction([t \in rows |-> t.qty * t.price])
Quantity(rows) == SumFunction([t \in rows |-> t.qty])

\* ORDER BY transaction_date, created_at: a row stands behind those before it.
Before(rows, t) ==
    {s \in rows : s.date < t.date \/ (s.date = t.date /\ s.created < t.created)}
Sorted(rows) ==
    [k \in 1 .. Cardinality(rows) |-> CHOOSE t \in rows : Cardinality(Before(rows, t)) = k - 1]

(***************************************************************************)
(* _refresh_holdings_snapshot: walk the history, a sell consuming the lots *)
(* bought BEFORE it in that order; what it cannot consume is forgotten.    *)
(***************************************************************************)
Consume(acc, lot) ==
    LET take == IF lot.qty < acc.remaining THEN lot.qty ELSE acc.remaining
    IN  [acc EXCEPT !.remaining = @ - take,
                    !.realized = @ + (acc.price - lot.price) * take,
                    !.lots = IF take = lot.qty THEN @
                             ELSE Append(@, [lot EXCEPT !.qty = @ - take])]

\* Fault: the newest lot is sold first.
WalkSellLifo(w, t) ==
    LET acc == FoldLeft(Consume, [remaining |-> t.qty, price |-> t.price, realized |-> w.realized,
                                  lots |-> << >>], Reverse(w.lots))
    IN  [w EXCEPT !.lots = Reverse(acc.lots), !.realized = acc.realized]

WalkSell(w, t) ==
    LET acc == FoldLeft(Consume, [remaining |-> t.qty, price |-> t.price, realized |-> w.realized,
                                  lots |-> << >>], w.lots)
    IN  [w EXCEPT !.lots = acc.lots, !.realized = acc.realized]

\* Fault: bonus and rights issues are not walked.
WalkBuysOnly(w, t) ==
    IF t.kind = "sell" THEN WalkSell(w, t)
    ELSE IF t.kind = "dividend" THEN [w EXCEPT !.dividends = @ + t.qty * t.price]
    ELSE IF t.kind # "buy" THEN w
    ELSE [w EXCEPT !.lots = Append(@, [qty |-> t.qty, price |-> t.price]),
                   !.invested = @ + t.qty * t.price]

Walk(w, t) ==
    IF t.kind = "sell" THEN WalkSell(w, t)
    ELSE IF t.kind = "dividend" THEN [w EXCEPT !.dividends = @ + t.qty * t.price]
    ELSE [w EXCEPT !.lots = Append(@, [qty |-> t.qty, price |-> t.price]),
                   !.invested = @ + t.qty * t.price]

\* quantize with the decimal context's ROUND_HALF_EVEN.
HalfEven(x, unit) ==
    LET q == x \div unit
        r == x % unit
    IN  IF 2 * r > unit \/ (2 * r = unit /\ q % 2 = 1) THEN q + 1 ELSE q

\* Fault: the position is the net quantity, without a floor.
SnapshotNet(rows) ==
    [NoHolding EXCEPT !.quantity = Quantity(Acquisitions(rows)) - Quantity(Sells(rows)),
                      !.present = TRUE]

\* Whether the row is kept is decided on the unrounded sums.  avg_cost has the
\* four places of a price, the money columns two.
Snapshot(rows) ==
    LET w == FoldLeft(Walk, [lots |-> << >>, realized |-> 0, invested |-> 0, dividends |-> 0],
                      Sorted(rows))
        qty == SumFunction([k \in DOMAIN w.lots |-> w.lots[k].qty])
        cost == SumFunction([k \in DOMAIN w.lots |-> w.lots[k].qty * w.lots[k].price])
    IN  IF qty = 0 /\ w.dividends = 0 /\ w.realized = 0 THEN NoHolding
        ELSE [quantity |-> qty, avg_cost |-> IF qty > 0 THEN HalfEven(cost, qty) ELSE 0,
              invested |-> HalfEven(w.invested, Paisa), realized |-> HalfEven(w.realized, Paisa),
              dividends |-> HalfEven(w.dividends, Paisa), present |-> TRUE]

\* What _compute_sell_cgt makes of the buys and sells it has read.
MatchSell(t, bought, sold) ==
    match_fifo(OpenLots(Sorted(bought), Quantity(sold)), t.qty, t.price, t.date, Filer, SeedBrackets)

-----------------------------------------------------------------------------
Init ==
    /\ transactions = {} /\ holdings = NoHolding /\ clock = 0
    /\ pc = [r \in Requests |-> "idle"]
    /\ row = [r \in Requests |-> NoRow]
    /\ buys = [r \in Requests |-> {}]
    /\ new = [r \in Requests |-> NoHolding]
    /\ loaded = [r \in Requests |-> NoHolding]
    /\ alone = [r \in Requests |-> FALSE]

\* The handler ends; what it has not committed is gone.
End(r) ==
    /\ pc' = [pc EXCEPT ![r] = "idle"]
    /\ row' = [row EXCEPT ![r] = NoRow]
    /\ buys' = [buys EXCEPT ![r] = {}]
    /\ new' = [new EXCEPT ![r] = NoHolding]
    /\ loaded' = [loaded EXCEPT ![r] = NoHolding]
    /\ alone' = [alone EXCEPT ![r] = FALSE]

\* create: only a sell needs the tax engine.  id is what gen_random_uuid will give.
Submit(r, id, kind, day, qty, price) ==
    /\ pc[r] = "idle" /\ clock < MaxTrades
    /\ id \notin {t.id : t \in transactions} \cup {row[q].id : q \in Requests}
    /\ clock' = clock + 1
    /\ row' = [row EXCEPT ![r] = [id |-> id, kind |-> kind, date |-> day, qty |-> qty,
                                  price |-> price, created |-> clock, cgt |-> 0, gain |-> 0,
                                  matched |-> 0]]
    /\ pc' = [pc EXCEPT ![r] = IF kind = "sell" THEN "select_buys" ELSE "insert"]
    /\ alone' = [q \in Requests |-> q = r /\ \A p \in Requests : pc[p] = "idle"]
    /\ UNCHANGED <<tables, buys, new, loaded>>

SelectBuys(r) ==
    /\ pc[r] = "select_buys"
    /\ buys' = [buys EXCEPT ![r] = Acquisitions(transactions)]
    /\ pc' = [pc EXCEPT ![r] = "select_sells"]
    /\ UNCHANGED <<tables, clock, row, new, loaded, alone>>

\* A second SELECT, then the decision: a sell the lots or the rules cannot
\* carry is refused.  The gain and the matched lots are only returned; cgt_pkr
\* is stored.
SelectSells(r) ==
    LET m == MatchSell(row[r], buys[r], Sells(transactions))
    IN  /\ pc[r] = "select_sells"
        /\ IF m.error # "none" THEN End(r)
           ELSE /\ row' = [row EXCEPT ![r] = [@ EXCEPT !.cgt = m.cgt, !.gain = m.gain,
                                                       !.matched = m.matched]]
                /\ pc' = [pc EXCEPT ![r] = "insert"]
                /\ UNCHANGED <<buys, new, loaded, alone>>
        /\ UNCHANGED <<tables, clock>>

\* Fault: the new row is not flushed before the history is read.
WalkWithoutFlush(r) ==
    /\ pc[r] = "insert"
    /\ new' = [new EXCEPT ![r] = Snapshot(transactions)]
    /\ pc' = [pc EXCEPT ![r] = "select_snapshot"]
    /\ UNCHANGED <<tables, clock, row, buys, loaded, alone>>

\* INSERT, which nobody else sees yet, then the SELECT of the history.
InsertAndWalk(r) ==
    /\ pc[r] = "insert"
    /\ new' = [new EXCEPT ![r] = Snapshot(transactions \cup {row[r]})]
    /\ pc' = [pc EXCEPT ![r] = "select_snapshot"]
    /\ UNCHANGED <<tables, clock, row, buys, loaded, alone>>

\* Nothing to write when no column changed, or no row is there to delete.
SelectSnapshot(r) ==
    /\ pc[r] = "select_snapshot"
    /\ loaded' = [loaded EXCEPT ![r] = holdings]
    /\ pc' = [pc EXCEPT ![r] = IF new[r] = holdings THEN "commit" ELSE "flush"]
    /\ UNCHANGED <<tables, clock, row, buys, new, alone>>

(***************************************************************************)
(* The write of the snapshot row waits for any other transaction that has  *)
(* written it.  Then an INSERT fails on the primary key if the row is      *)
(* there by now, and an UPDATE raises StaleDataError if it is gone; a      *)
(* DELETE of a missing row is only warned about.                           *)
(***************************************************************************)
Holds(r) == pc[r] = "commit" /\ new[r] # loaded[r]

Flush(r) ==
    /\ pc[r] = "flush"
    /\ \A q \in Requests \ {r} : ~Holds(q)
    /\ IF new[r].present /\ loaded[r].present # holdings.present
       THEN End(r)
       ELSE /\ pc' = [pc EXCEPT ![r] = "commit"]
            /\ UNCHANGED <<row, buys, new, loaded, alone>>
    /\ UNCHANGED <<tables, clock>>

\* Fault: the row of an emptied position is not deleted.
WrittenNoDelete(r) ==
    IF new[r] = loaded[r] \/ ~new[r].present THEN holdings
    ELSE IF ~loaded[r].present THEN new[r]
    ELSE [c \in DOMAIN holdings |-> IF new[r][c] # loaded[r][c] THEN new[r][c] ELSE holdings[c]]

\* An UPDATE names the columns whose value differs from the loaded one.
Written(r) ==
    IF new[r] = loaded[r] THEN holdings
    ELSE IF ~new[r].present \/ ~loaded[r].present THEN new[r]
    ELSE [c \in DOMAIN holdings |-> IF new[r][c] # loaded[r][c] THEN new[r][c] ELSE holdings[c]]

Commit(r) ==
    /\ pc[r] = "commit"
    /\ transactions' = transactions \cup {row[r]}
    /\ holdings' = Written(r)
    /\ End(r)
    /\ UNCHANGED clock

\* Fault: the snapshot is committed on its own, before the row.
CrashBetweenCommits(r) ==
    /\ pc[r] = "commit"
    /\ holdings' = Written(r)
    /\ End(r)
    /\ UNCHANGED <<transactions, clock>>

\* The worker or its connection dies: PostgreSQL rolls back.
Crash(r) ==
    /\ pc[r] # "idle"
    /\ End(r)
    /\ UNCHANGED <<tables, clock>>

Step(r) ==
    \/ SelectBuys(r) \/ SelectSells(r) \/ InsertAndWalk(r)
    \/ SelectSnapshot(r) \/ Flush(r) \/ Commit(r)

Next ==
    \/ \E r \in Requests, id \in 1 .. MaxTrades, kind \in Kinds, day \in Days,
          qty \in Quantities, price \in Prices : Submit(r, id, kind, day, qty, price)
    \/ \E r \in Requests : Step(r) \/ Crash(r)

Spec == Init /\ [][Next]_vars

-----------------------------------------------------------------------------
Quiet == \A r \in Requests : pc[r] = "idle"

(***************************************************************************)
(* Rows have distinct ids and the snapshot never shows a negative position.*)
(***************************************************************************)
TypeOK ==
    /\ \A s, t \in transactions : s.id = t.id => s = t
    /\ \A t \in transactions : t.kind \in Kinds /\ t.created < clock /\ t.cgt \in Nat
    /\ holdings.quantity \in Nat /\ holdings.invested \in Nat /\ holdings.avg_cost \in Nat
    /\ \A r \in Requests : row[r] = NoRow <=> pc[r] = "idle"

(***************************************************************************)
(* Never more shares sold than bought.  match_fifo refuses a sell that     *)
(* "exceeds the accumulated buy lots", and the lots it gets are what prior *)
(* sells left, whatever the order of the trade dates.                      *)
(***************************************************************************)
NoOversell == Quantity(Sells(transactions)) <= Quantity(Acquisitions(transactions))

(***************************************************************************)
(* HoldingsSnapshot's docstring: "Refreshed on every transaction commit".  *)
(* When nobody is recording a trade the snapshot is the one the committed  *)
(* history gives.                                                          *)
(***************************************************************************)
SnapshotFresh == Quiet => holdings = Snapshot(transactions)

(***************************************************************************)
(* A lost snapshot update does not last: whatever overlapped before, a     *)
(* trade recorded while no other is puts every column right again, since   *)
(* the snapshot is recomputed from the full history and each column is     *)
(* compared with the committed row.                                        *)
(***************************************************************************)
SelfHeals ==
    [][\A r \in Requests :
          alone[r] /\ Commit(r) => holdings' = Snapshot(transactions')]_vars

(***************************************************************************)
(* However trades overlap, the position shown was really bought: it never  *)
(* counts a trade whose transaction was rolled back.  The money shown is   *)
(* what was paid, rounded once.                                            *)
(***************************************************************************)
SnapshotBacked ==
    /\ holdings.quantity <= Quantity(Acquisitions(transactions))
    /\ holdings.invested <= HalfEven(Paid(Acquisitions(transactions)), Paisa)

\* The trades were entered in the order of their dates.
InDateOrder ==
    \A s, t \in transactions : s.created < t.created => s.date <= t.date

(***************************************************************************)
(* "Open = sum of buy/bonus/rights minus prior sells": the tax engine and  *)
(* the snapshot agree on how many shares are still held.  For trades       *)
(* entered out of order they do not: a sell dated before the buy it was    *)
(* matched against is accepted when it makes no gain, and the snapshot's   *)
(* walk then has no lot for it.                                            *)
(***************************************************************************)
OpenQuantity ==
    Quiet /\ InDateOrder =>
        holdings.quantity = Quantity(Acquisitions(transactions)) - Quantity(Sells(transactions))

(***************************************************************************)
(* The gains the sells were taxed on add up to the realized profit of the  *)
(* snapshot: both came from matching the same lots, "so the user's broker  *)
(* statement and our records stay reconcilable".  They may be half a paisa *)
(* apart for every lot a sell touched, which match_fifo rounds one by one, *)
(* and for the snapshot, which rounds the sum.  Only while no two lots are *)
(* of one day: match_fifo orders those by UUID, the walk by created_at.    *)
(***************************************************************************)
Reconciles ==
    LET oneLotADay == \A s, t \in Acquisitions(transactions) : s.date = t.date => s = t
        gains == SumFunction([t \in Sells(transactions) |-> t.gain])
        roundings == SumFunction([t \in Sells(transactions) |-> t.matched]) + 1
    IN  Quiet /\ InDateOrder /\ oneLotADay =>
            2 * (holdings.realized - gains) \in -roundings .. roundings
=============================================================================
