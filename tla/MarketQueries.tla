----------------------------- MODULE MarketQueries -----------------------------
(***************************************************************************)
(* What the market-data services answer from the stored rows: the paged    *)
(* list of securities, quotes, fundamentals windows, sector ranks and      *)
(* heatmap, and macro series.  Symbols are naturals in their sort order;   *)
(* Missing stands for NULL.                                                *)
(***************************************************************************)
EXTENDS Fractions, Sequences, SequencesExt, FiniteSets, FiniteSetsExt

Missing == -1
NotListed == -2

-----------------------------------------------------------------------------
\* The filters of the list: each applies when it is set.
Matching(rows, f) ==
    {s \in rows : /\ f.active_only => s.is_active
                  /\ f.sector # "any" => s.sector = f.sector
                  /\ f.kmi_only => s.is_kmi_compliant}

\* Fault: has_next compares with the end of a full page.
PageFull(rows, f, page, page_size) ==
    LET all == SetToSortSeq(Matching(rows, f), LAMBDA a, b : a.symbol < b.symbol)
        offset == (page - 1) * page_size
        last == IF Len(all) < offset + page_size THEN Len(all) ELSE offset + page_size
    IN  [items |-> SubSeq(all, offset + 1, last), total |-> Len(all),
         has_next |-> offset + page_size <= Len(all)]

\* Count, ORDER BY symbol, OFFSET and LIMIT.
list_securities(rows, f, page, page_size) ==
    LET all == SetToSortSeq(Matching(rows, f), LAMBDA a, b : a.symbol < b.symbol)
        offset == (page - 1) * page_size
        last == IF Len(all) < offset + page_size THEN Len(all) ELSE offset + page_size
        items == SubSeq(all, offset + 1, last)
    IN  [items |-> items, total |-> Len(all), has_next |-> offset + Len(items) < Len(all)]

list_sectors(rows) == {s.sector : s \in {r \in rows : r.is_active}}

\* The flags of the indices, counted over active securities.
get_indices(rows) == Cardinality({s \in rows : s.is_active /\ s.is_kmi_compliant})

\* ROW_NUMBER by date descending: the n-th newest close, NULL closes included.
NewestDates(bars) == SetToSortSeq(DOMAIN bars, LAMBDA a, b : a > b)
NthClose(bars, n) == IF n <= Cardinality(DOMAIN bars) THEN bars[NewestDates(bars)[n]] ELSE Missing
_latest_two_closes(bars) == <<NthClose(bars, 1), NthClose(bars, 2)>>

\* Change in hundredths of a percent, rounded down, when both closes are there.
ChangePct(last, prev) ==
    IF last = Missing \/ prev = Missing \/ prev = 0 THEN Missing
    ELSE ((last - prev) * 10000) \div prev + 10000   \* shifted: never below zero

get_quotes(bars) ==
    LET two == _latest_two_closes(bars)
    IN  [last_close |-> two[1], prev_close |-> two[2], change_pct |-> ChangePct(two[1], two[2]),
         last_date |-> IF DOMAIN bars = {} THEN Missing ELSE Max(DOMAIN bars)]

\* ORDER BY date DESC LIMIT, within the window that is given.
get_ohlcv(bars, date_from, date_to, limit) ==
    LET dates == SelectSeq(NewestDates(bars), LAMBDA d : date_from <= d /\ d <= date_to)
    IN  SubSeq(dates, 1, IF Len(dates) < limit THEN Len(dates) ELSE limit)

\* Announcements newest first; NULL dates cannot occur.
get_announcements(dates, limit) ==
    LET sorted == SetToSortSeq(dates, LAMBDA a, b : a > b)
    IN  SubSeq(sorted, 1, IF Len(sorted) < limit THEN Len(sorted) ELSE limit)

\* A macro series within its optional bounds, oldest first.
series(points, date_from, date_to) ==
    SetToSortSeq({d \in points : date_from <= d /\ d <= date_to}, LAMBDA a, b : a < b)

-----------------------------------------------------------------------------
\* datetime.date.replace raises when the day does not exist in that month.
DaysIn(year, month) ==
    IF month = 2 THEN (IF year % 4 = 0 /\ (year % 100 # 0 \/ year % 400 = 0) THEN 29 ELSE 28)
    ELSE IF month \in {4, 6, 9, 11} THEN 30 ELSE 31
ReplaceRaises(day, year, month) == day > DaysIn(year, month)

\* Fundamentals: a year and a month back from today.
get_fundamentals(t) ==
    LET month_back == IF t.month > 1 THEN [year |-> t.year, month |-> t.month - 1]
                      ELSE [year |-> t.year - 1, month |-> 12]
    IN  IF \/ ReplaceRaises(t.day, t.year - 1, t.month)
           \/ ReplaceRaises(t.day, month_back.year, month_back.month)
        THEN "raised" ELSE "answered"

\* The default window of the backfill: five years back.
_date_range(t) == IF ReplaceRaises(t.day, t.year - 5, t.month) THEN "raised" ELSE "answered"

-----------------------------------------------------------------------------
\* The share of the sector's known capitalisations below the target's, rounded half to even.
_compute_ranks(target, universe) ==
    LET known == {s \in universe : s.mcap # Missing}
    IN  IF target.mcap = Missing \/ known = {} THEN Missing
        ELSE RoundHalfEven(Cardinality({s \in known : s.mcap < target.mcap}) * 100, Cardinality(known))

\* compare: symbols outside the sector's active universe are answered as missing.
compare(rows, sector, symbols) ==
    LET universe == {s \in rows : s.sector = sector /\ s.is_active}
    IN  [sym \in symbols |->
            IF \E s \in universe : s.symbol = sym
            THEN _compute_ranks(CHOOSE s \in universe : s.symbol = sym, universe) ELSE NotListed]

\* heatmap: sorted by capitalisation, an unknown one counts as zero.
Weight(s) == IF s.mcap = Missing THEN 0 ELSE s.mcap
heatmap(rows, sector) ==
    SetToSortSeq(Matching(rows, [active_only |-> TRUE, sector |-> sector, kmi_only |-> FALSE]),
                 LAMBDA a, b : Weight(a) > Weight(b))

-----------------------------------------------------------------------------
\* Reading pages 1, 2, ... until has_next is false.
Pages(rows, f, page_size) ==
    LET read[n \in 1 .. Cardinality(rows) + 2] ==
            LET p == list_securities(rows, f, n, page_size)
            IN  IF p.has_next /\ n <= Cardinality(rows) THEN p.items \o read[n + 1] ELSE p.items
    IN  read[1]

(***************************************************************************)
(* A reader who follows has_next sees each matching security once and in   *)
(* order; a better capitalised company never ranks lower.                  *)
(***************************************************************************)
PagesExact(rows, f, page_size) ==
    LET got == Pages(rows, f, page_size)
    IN  /\ ToSet(got) = Matching(rows, f) /\ Len(got) = Cardinality(ToSet(got))
        /\ \A n \in 1 .. Len(got) : ~list_securities(rows, f, n, page_size).has_next
                                     <=> n * page_size >= Len(got)

RanksOrdered(rows, sector) ==
    LET universe == {s \in rows : s.sector = sector /\ s.is_active}
    IN  \A a, b \in universe :
          a.mcap # Missing /\ b.mcap # Missing /\ a.mcap <= b.mcap =>
            /\ _compute_ranks(a, universe) <= _compute_ranks(b, universe)
            /\ _compute_ranks(a, universe) \in 0 .. 100

(***************************************************************************)
(* Fundamentals can be answered on every day up to the 28th, and the       *)
(* quote's date is the newest bar's, from which its close is taken.  (On   *)
(* later days the month before may be too short, and date.replace raises.) *)
(***************************************************************************)
WindowDefined(t) == t.day <= 28 => get_fundamentals(t) = "answered" /\ _date_range(t) = "answered"
QuoteNewest(bars) ==
    LET q == get_quotes(bars)
    IN  bars # <<>> => /\ q.last_close = bars[q.last_date]
                       /\ \A d \in DOMAIN bars : d <= q.last_date

(***************************************************************************)
(* The endpoints tell one story: the heatmap shows each active company of  *)
(* the sector once, largest first; a comparison knows exactly those; the   *)
(* sector is listed when it has one; an index has no more members than the *)
(* list has entries.                                                       *)
(***************************************************************************)
ListingsAgree(rows, sector) ==
    LET ranks == compare(rows, sector, 1 .. 3)
        members == Matching(rows, [active_only |-> TRUE, sector |-> sector, kmi_only |-> FALSE])
    IN  /\ \E map \in {heatmap(rows, sector)} :
             /\ ToSet(map) = members /\ Len(map) = Cardinality(members)
             /\ \A i, j \in DOMAIN map : i < j => Weight(map[i]) >= Weight(map[j])
        /\ {s.symbol : s \in members} = {x \in 1 .. 3 : ranks[x] # NotListed}
        /\ sector \in list_sectors(rows) <=> members # {}
        /\ get_indices(rows) <= Cardinality(members)

(***************************************************************************)
(* A limited history is the newest end of the whole, and a series the same *)
(* days in the opposite order.                                             *)
(***************************************************************************)
WindowsAgree(bars) ==
    \A from, to \in 1 .. 3, limit \in 1 .. 2 :
        LET whole == series(DOMAIN bars, from, to)
            newest == get_ohlcv(bars, from, to, limit)
        IN  /\ newest = SubSeq(Reverse(whole), 1, Len(newest))
            /\ Len(newest) = limit \/ Len(newest) = Len(whole)
            /\ get_announcements(DOMAIN bars, limit) = get_ohlcv(bars, 1, 3, limit)
=============================================================================
