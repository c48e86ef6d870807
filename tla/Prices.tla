-------------------------------- MODULE Prices --------------------------------
(***************************************************************************)
(* The stored bars and corporate actions of one symbol under the Celery    *)
(* tasks that write them: EOD ingest, backfill, corporate-action ingest    *)
(* and the recompute of adjusted closes.  A task reads in one transaction, *)
(* talks to the exchange or computes, and writes in another.               *)
(***************************************************************************)
EXTENDS PriceAdjust, FiniteSets

CONSTANTS
    PrcTasks,      \* worker slots
    PrcDates,      \* trading days 1 .. n
    Closes,        \* closes DPS may publish, Null included
    ActionKinds,   \* action types announced (one announcement date)
    Amount,        \* the dividend, when its text could be read
    Enough,        \* rows from which a symbol counts as backfilled (900)
    MaxFetches     \* bound: answers of DPS or PUCARS that are used

ASSUME PrcAssumption == Enough \in Nat /\ MaxFetches \in Nat /\ Amount \in Nat \ {Null}

VARIABLES
    bars,      \* ohlcv_daily of the symbol: date -> close, adjusted
    actions,   \* corporate_actions of the symbol: type -> row
    fetches,   \* answers used so far
    prc        \* the tasks

prcVars == <<bars, actions, fetches, prc>>

PrcIdle == [pc |-> "idle"]
AnnouncementDate == 1

PrcInit ==
    /\ bars = <<>> /\ actions = <<>> /\ fetches = 0
    /\ prc = [t \in PrcTasks |-> PrcIdle]

PrcGoto(t, state) == prc' = [prc EXCEPT ![t] = state]
Fetched == fetches < MaxFetches /\ fetches' = fetches + 1

\* A table after INSERT or UPDATE of one row.
Upserted(table, key, row) == [k \in DOMAIN table \cup {key} |-> IF k = key THEN row ELSE table[k]]

-----------------------------------------------------------------------------
\* _fetch_prices: rows that have a close.
_fetch_prices == [d \in {d \in DOMAIN bars : bars[d].close # Null} |-> bars[d].close]

\* _fetch_events: the ex-date, or the announcement date in its place.
EventOf(a) == [a EXCEPT !.ex_date = IF @ = Null THEN AnnouncementDate ELSE @]
Adjusting == {"split", "bonus", "rights", "dividend_cash"}
\* ORDER BY the date alone: the events of one date come in any order, and the
\* stable sort of compute_adjusted_prices keeps that order.
_fetch_events ==
    {q \in SetToSeqs({EventOf(actions[k]) : k \in DOMAIN actions \cap Adjusting}) :
        \A i, j \in DOMAIN q : i < j => q[i].ex_date <= q[j].ex_date}

-----------------------------------------------------------------------------
\* EOD ingest of one day; an empty answer writes nothing.
ingest_eod_ohlcv(t) ==
    /\ prc[t].pc = "idle" /\ Fetched
    /\ \E d \in PrcDates, c \in Closes : PrcGoto(t, [pc |-> "upsert", date |-> d, close |-> c])
    /\ UNCHANGED <<bars, actions>>

\* ON CONFLICT DO UPDATE of the quote; adjusted_close is not among the columns.
_upsert_rows(t) ==
    /\ prc[t].pc = "upsert"
    /\ LET d == prc[t].date
           old == IF d \in DOMAIN bars THEN bars[d].adjusted ELSE Null
       IN  bars' = Upserted(bars, d, [close |-> prc[t].close, adjusted |-> old])
    /\ PrcGoto(t, PrcIdle) /\ UNCHANGED <<actions, fetches>>

\* Backfill: skipped with enough rows in the window, else fetched and kept aside.
backfill_ohlcv(t) ==
    /\ prc[t].pc = "idle" /\ Cardinality(DOMAIN bars) < Enough /\ Fetched
    /\ \E rows \in [PrcDates -> Closes] : PrcGoto(t, [pc |-> "insert", rows |-> rows])
    /\ UNCHANGED <<bars, actions>>

\* ON CONFLICT DO NOTHING.
BackfillInsert(t) ==
    /\ prc[t].pc = "insert"
    /\ bars' = [d \in DOMAIN bars \cup PrcDates |->
                   IF d \in DOMAIN bars THEN bars[d] ELSE [close |-> prc[t].rows[d], adjusted |-> Null]]
    /\ PrcGoto(t, PrcIdle) /\ UNCHANGED <<actions, fetches>>

-----------------------------------------------------------------------------
\* What PUCARS says of an announcement: the details may be missing.
Announced(k) ==
    [action_type : {k}, ex_date : {Null} \cup PrcDates,
     num : IF k = "dividend_cash" THEN {Null} ELSE {Null, 1},
     den : IF k = "dividend_cash" THEN {Null} ELSE {Null, 1},
     amount : IF k = "dividend_cash" THEN {Null, Amount} ELSE {Null}]

\* The announcements of the page for the symbol, by type (a type that is there
\* twice is coalesced into one); an HTTP error or an empty page leaves the
\* task idle.
Pages == UNION {[kinds -> UNION {Announced(k) : k \in ActionKinds}] : kinds \in SUBSET ActionKinds}
ingest_corporate_actions(t) ==
    /\ prc[t].pc = "idle" /\ Fetched
    /\ \E page \in Pages :
         /\ page # <<>>
         /\ \A k \in DOMAIN page : page[k] \in Announced(k) /\ (page[k].num = Null) = (page[k].den = Null)
         /\ PrcGoto(t, [pc |-> "actions", page |-> page])
    /\ UNCHANGED <<bars, actions>>

Coalesce(new, old) == IF new = Null THEN old ELSE new

\* Fault: a later announcement without details erases the stored ones.
UpsertOverwrites(row) == row

\* ON CONFLICT DO UPDATE with COALESCE of every column: the row it leaves.
_upsert_action(row) ==
    LET k == row.action_type
    IN  IF k \notin DOMAIN actions THEN row
        ELSE [f \in DOMAIN row |-> IF f = "action_type" THEN k ELSE Coalesce(row[f], actions[k][f])]

\* The statements of the page are one transaction.  An unknown symbol is
\* skipped; a statement that is refused (of this or another symbol) is logged,
\* but the ones after it fail too and COMMIT becomes ROLLBACK.
CommitActions(t) ==
    /\ prc[t].pc = "actions"
    /\ LET page == prc[t].page
       IN  \E known, refused \in BOOLEAN :
             actions' = IF known /\ ~refused
                        THEN [k \in DOMAIN actions \cup DOMAIN page |->
                                 IF k \in DOMAIN page THEN _upsert_action(page[k]) ELSE actions[k]]
                        ELSE actions
    /\ PrcGoto(t, PrcIdle) /\ UNCHANGED <<bars, fetches>>

-----------------------------------------------------------------------------
\* The nightly recompute reads prices, then events, in one READ COMMITTED session.
recompute_adjusted_prices(t) ==
    /\ prc[t].pc = "idle"
    /\ PrcGoto(t, [pc |-> "events", prices |-> _fetch_prices])
    /\ UNCHANGED <<bars, actions, fetches>>

FetchEvents(t) ==
    /\ prc[t].pc = "events"
    /\ \E events \in _fetch_events :
         PrcGoto(t, IF prc[t].prices = <<>> THEN PrcIdle
                    ELSE [pc |-> "write", prices |-> prc[t].prices, events |-> events])
    /\ UNCHANGED <<bars, actions, fetches>>

\* Fault: only rows that have no adjusted close yet are written.
WriteMissing(t) ==
    /\ prc[t].pc = "write"
    /\ LET adjusted == compute_adjusted_prices(prc[t].prices, prc[t].events)
       IN  bars' = [d \in DOMAIN bars |->
                       IF d \in DOMAIN adjusted /\ bars[d].adjusted = Null
                       THEN [bars[d] EXCEPT !.adjusted = adjusted[d]] ELSE bars[d]]
    /\ PrcGoto(t, PrcIdle) /\ UNCHANGED <<actions, fetches>>

\* The UPDATEs go by date and commit together.
_write_adjusted_prices(t) ==
    /\ prc[t].pc = "write"
    /\ LET adjusted == compute_adjusted_prices(prc[t].prices, prc[t].events)
       IN  bars' = [d \in DOMAIN bars |->
                       IF d \in DOMAIN adjusted
                       THEN [bars[d] EXCEPT !.adjusted = adjusted[d]] ELSE bars[d]]
    /\ PrcGoto(t, PrcIdle) /\ UNCHANGED <<actions, fetches>>

\* The worker dies, or the step raises: nothing of the transaction stays.
PrcCrash(t) == prc[t].pc # "idle" /\ PrcGoto(t, PrcIdle) /\ UNCHANGED <<bars, actions, fetches>>

RecomputeStep(t) == FetchEvents(t) \/ _write_adjusted_prices(t)
PrcStep(t) == RecomputeStep(t) \/ _upsert_rows(t) \/ BackfillInsert(t) \/ CommitActions(t)

PrcNext == \E t \in PrcTasks :
    \/ ingest_eod_ohlcv(t) \/ backfill_ohlcv(t) \/ ingest_corporate_actions(t)
    \/ recompute_adjusted_prices(t) \/ PrcStep(t) \/ PrcCrash(t)

PrcSpec == PrcInit /\ [][PrcNext]_prcVars

-----------------------------------------------------------------------------
(***************************************************************************)
(* When bars and announcements stop changing, the adjusted closes become   *)
(* and stay what the stored closes and actions give, whatever crossed      *)
(* while they were still changing: a recompute that read old data is       *)
(* repaired by the next.  Events of one date may be taken in either order. *)
(***************************************************************************)
Settled ==
    LET prices == _fetch_prices
    IN  \E events \in _fetch_events :
          LET right == compute_adjusted_prices(prices, events)
          IN  \A d \in DOMAIN prices : bars[d].adjusted = right[d]

AdjustedSettles == <>[]Settled

(***************************************************************************)
(* No step loses what was learned: a bar once stored stays, an ex-date,    *)
(* amount or ratio once read survives later scrapes of the announcement    *)
(* that lack it, and an adjusted close is never taken away.  A page of     *)
(* announcements is stored as a whole or, when one of them is refused, not *)
(* at all.                                                                 *)
(***************************************************************************)
PageStored(page) ==
    \A k \in DOMAIN page :
        /\ k \in DOMAIN actions'
        /\ \A f \in DOMAIN page[k] \ {"action_type"} :
              page[k][f] # Null => actions'[k][f] = page[k][f]

DetailsKept ==
    /\ DOMAIN bars \subseteq DOMAIN bars'
    /\ \A d \in DOMAIN bars : bars[d].adjusted # Null => bars'[d].adjusted # Null
    /\ \A k \in DOMAIN actions : \A f \in DOMAIN actions[k] :
          actions[k][f] # actions'[k][f] => /\ f # "action_type" /\ actions'[k][f] # Null
    /\ actions' # actions => \E t \in PrcTasks : prc[t].pc = "actions" /\ PageStored(prc[t].page)
=============================================================================
