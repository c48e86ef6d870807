------------------------------- MODULE Scrapers -------------------------------
(***************************************************************************)
(* The two exchange scrapers.  DpsScraper fetches a range of days month by *)
(* month, with rate limit and retries, and keeps what is valid and in the  *)
(* month asked for.  PucarsScraper fetches a window of announcements that  *)
(* moves with the day, and the ingest task stores them under their type    *)
(* and date.  DPS and PUCARS themselves are external: any answer.          *)
(***************************************************************************)
EXTENDS Integers, Sequences, SequencesExt, FiniteSets

CONSTANTS
    LastDay,         \* bound: days 1 .. LastDay
    MonthLength,     \* days of a month
    MaxNetworkRetries,
    MinDelay,        \* rate limit, in clock ticks
    Announcements,   \* what PUCARS publishes: [id, exact, contains, date]
    Lookback         \* days the announcement window reaches back

ASSUME ScrAssumption == {LastDay, MonthLength, MaxNetworkRetries, Lookback} \subseteq Nat \ {0} /\ MinDelay \in Nat

VARIABLES
    dps,      \* the fetch in progress
    since,    \* ticks since DPS last answered, up to MinDelay
    today,    \* PUCARS: the current day
    stored    \* corporate_actions: announcement -> dates it was stored under

scrVars == <<dps, since, today, stored>>

Days == 1 .. LastDay
DpsIdle == [pc |-> "idle"]
Unreadable == 0    \* a date text no format matches

ScrInit ==
    /\ dps = DpsIdle /\ since = MinDelay /\ today = 1
    /\ stored = [a \in Announcements |-> {}]

-----------------------------------------------------------------------------
\* The last day of the month of d, capped at the end of the range.
ChunkEnd(d, to_date) ==
    LET month_end == ((d - 1) \div MonthLength + 1) * MonthLength
    IN  IF month_end < to_date THEN month_end ELSE to_date

\* A row of the answer: volume, open and date texts are good or not.
Row == [day : Days, valid : BOOLEAN]
_validate_row(row) == row.valid

\* Fault: rows outside the window are kept as well.
ParseAll(answer, from, to) == {row.day : row \in {r \in answer : _validate_row(r)}}

\* Rows that do not parse or validate, or lie outside the window, are dropped.
_parse_and_validate(answer, from, to) ==
    {row.day : row \in {r \in answer : r.day \in from .. to /\ _validate_row(r)}}

\* fetch_ohlcv is the range of one day.
fetch_ohlcv_range(from, to) ==
    /\ dps.pc = "idle" /\ from <= to
    /\ dps' = [pc |-> "post", from |-> from, to |-> to, start |-> from, attempt |-> 1,
               rows |-> [d \in Days |-> 0], due |-> {}]
    /\ UNCHANGED <<since, today, stored>>

\* The loop goes on after the chunk, or the rows are returned.
NextChunk(end, rows, due) ==
    dps' = [dps EXCEPT !.pc = IF end + 1 <= dps.to THEN "post" ELSE "returned",
                       !.start = end + 1, !.attempt = 1, !.rows = rows, !.due = due]

\* DPS answers: one row per day, around the window asked for.
PostAnswered ==
    /\ dps.pc = "post" /\ since = MinDelay /\ since' = 0
    /\ LET end == ChunkEnd(dps.start, dps.to)
           near == {d \in Days : dps.start - 1 <= d /\ d <= end + 1}
       IN  \E good \in SUBSET near, bad \in SUBSET near :
             /\ good \cap bad = {}
             /\ LET answer == {[day |-> d, valid |-> TRUE] : d \in good}
                              \cup {[day |-> d, valid |-> FALSE] : d \in bad}
                    kept == _parse_and_validate(answer, dps.start, end)
                IN  NextChunk(end, [d \in Days |-> dps.rows[d] + IF d \in kept THEN 1 ELSE 0],
                              dps.due \cup (good \cap (dps.start .. end)))
    /\ UNCHANGED <<today, stored>>

\* 404 and 422, or a page without a table: no rows, the loop goes on.
PostNothing ==
    /\ dps.pc = "post" /\ since = MinDelay /\ since' = 0
    /\ NextChunk(ChunkEnd(dps.start, dps.to), dps.rows, dps.due)
    /\ UNCHANGED <<today, stored>>

\* Any other status ends the fetch with an exception.
PostRefused ==
    /\ dps.pc = "post" /\ since = MinDelay /\ since' = 0
    /\ dps' = [dps EXCEPT !.pc = "raised"]
    /\ UNCHANGED <<today, stored>>

\* Timeouts and connection errors are retried; the clock of the limit is not reset.
PostFailed ==
    /\ dps.pc = "post" /\ since = MinDelay
    /\ dps' = IF dps.attempt >= MaxNetworkRetries THEN [dps EXCEPT !.pc = "raised"]
              ELSE [dps EXCEPT !.pc = "backoff"]
    /\ UNCHANGED <<since, today, stored>>

\* asyncio.sleep(_RETRY_SLEEP_SECONDS * attempt), then the next attempt.
RetryPost ==
    /\ dps.pc = "backoff"
    /\ dps' = [dps EXCEPT !.pc = "post", !.attempt = @ + 1]
    /\ UNCHANGED <<since, today, stored>>

_rate_limited_post == PostAnswered \/ PostNothing \/ PostRefused \/ PostFailed \/ RetryPost

Elapse == since < MinDelay /\ since' = since + 1 /\ UNCHANGED <<dps, today, stored>>

\* The caller has taken the rows, or logged the exception, and goes on.
FetchDone == dps.pc \in {"returned", "raised"} /\ dps' = DpsIdle /\ UNCHANGED <<since, today, stored>>

-----------------------------------------------------------------------------
\* _CATEGORY_MAP in its order: of the keywords in a text the first one decides.
CategoryMap == <<
    <<"dividend", "dividend_cash">>, <<"cash dividend", "dividend_cash">>,
    <<"final dividend", "dividend_cash">>, <<"interim dividend", "dividend_cash">>,
    <<"stock dividend", "dividend_stock">>, <<"bonus shares", "bonus">>, <<"bonus", "bonus">>,
    <<"right shares", "rights">>, <<"rights", "rights">>, <<"agm", "agm">>,
    <<"annual general meeting", "agm">>, <<"extraordinary general meeting", "agm">>,
    <<"egm", "agm">>, <<"stock split", "split">>, <<"split", "split">> >>

FirstType(keys) ==
    LET hits == SelectSeq(CategoryMap, LAMBDA e : e[1] \in keys)
    IN  IF hits = <<>> THEN "none" ELSE hits[1][2]

\* Exact match first, then the first keyword the text contains.
_map_category(text) == IF FirstType(text.exact) # "none" THEN FirstType(text.exact) ELSE FirstType(text.contains)

\* Fault: the date text is not read, the day of the query stands in.
RowUndated(a, fallback) == [action_type |-> _map_category(a), announcement_date |-> fallback]

\* Without a readable date the announcement gets the first day of the window.
_parse_table_row(a, fallback) ==
    [action_type |-> _map_category(a),
     announcement_date |-> IF a.date = Unreadable THEN fallback ELSE a.date]

\* The exchange lists what lies in the window (undated entries on every page).
fetch_announcements(from, to) ==
    {a \in Announcements : a.date = Unreadable \/ (from <= a.date /\ a.date <= to)}

\* Rows of unknown category are dropped; stored rows are keyed by type and date.
IngestAnnouncements ==
    /\ LET from == today - Lookback
           page == {a \in fetch_announcements(from, today) : _map_category(a) # "none"}
       IN  stored' = [a \in Announcements |->
                         IF a \in page THEN stored[a] \cup {_parse_table_row(a, from)} ELSE stored[a]]
    /\ stored' # stored
    /\ UNCHANGED <<dps, since, today>>

NextDay == today < LastDay /\ today' = today + 1 /\ UNCHANGED <<dps, since, stored>>

ScrNext ==
    \/ \E from, to \in Days : fetch_ohlcv_range(from, to)
    \/ _rate_limited_post \/ Elapse \/ FetchDone \/ IngestAnnouncements \/ NextDay

ScrSpec == ScrInit /\ [][ScrNext]_scrVars

-----------------------------------------------------------------------------
(***************************************************************************)
(* A range that is returned holds each valid row DPS gave for a month it   *)
(* was asked for, once, and no other: rows of a neighbouring month are     *)
(* neither doubled nor lost over retries.  An announcement with a readable *)
(* date is stored under one key however often and in whatever window it is *)
(* seen (one without is stored anew every day, under a later date).        *)
(***************************************************************************)
ScrapesExact ==
    /\ dps.pc = "returned" =>
         \A d \in Days : dps.rows[d] = IF d \in dps.due THEN 1 ELSE 0
    /\ \A a \in Announcements : a.date # Unreadable => Cardinality(stored[a]) <= 1
=============================================================================
