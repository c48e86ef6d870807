------------------------------ MODULE MacroIngest ------------------------------
(***************************************************************************)
(* The daily macro task: three pages of the State Bank (KIBOR, policy      *)
(* rate, PKR/USD), each fetched and parsed on its own, and one transaction *)
(* that upserts the points.  A page is what its parser sees: the dated     *)
(* rows, newest first, a row clean or not, and for the policy rate a bare  *)
(* number.                                                                 *)
(***************************************************************************)
EXTENDS Integers, Sequences, SequencesExt, FiniteSets

CONSTANTS
    MacValues,   \* values a page can show
    LastDate,    \* bound: days
    MaxShown     \* bound: different observations shown

ASSUME MacAssumption == {LastDate, MaxShown} \subseteq Nat

VARIABLES
    day,
    pages,     \* what the bank shows now
    shown,     \* history: <<indicator, date, value>> a page has shown
    macro,     \* macro_indicators: <<indicator, date>> -> value
    mac        \* the running task

macVars == <<day, pages, shown, macro, mac>>

\* read: the page of the policy rate as it left the bank, with that day
MacIdle == [pc |-> "idle", read |-> <<>>, points |-> <<>>, written |-> <<>>, aborted |-> FALSE]
Point(indicator, date, value) == [indicator |-> indicator, date |-> date, value |-> value]

MacInit ==
    /\ day = 1
    /\ \E v \in MacValues : pages = [kibor |-> <<>>, forex |-> <<>>, policy |-> v]
    /\ shown = {Point("sbp_policy_rate", day, pages.policy)}
    /\ macro = <<>> /\ mac = MacIdle

\* The bank puts a new row on top of a page, readable or not; a row can be a
\* correction of the newest.  It changes the policy rate.
Publish ==
    \E page \in {"kibor", "forex"}, value \in MacValues, clean \in BOOLEAN :
      LET row == [date |-> day, value |-> value, clean |-> clean]
          old == pages[page]
          older == IF old # <<>> /\ old[1].date = day THEN Tail(old) ELSE old
      IN  /\ pages' = [pages EXCEPT ![page] = IF older = <<>> THEN <<row>> ELSE <<row, older[1]>>]
          /\ shown' = shown \cup {Point(page, day, value)} /\ Cardinality(shown') <= MaxShown
          /\ UNCHANGED <<day, macro, mac>>

PolicyChanges ==
    \E value \in MacValues \ {pages.policy} :
      /\ pages' = [pages EXCEPT !.policy = value]
      /\ shown' = shown \cup {Point("sbp_policy_rate", day, value)} /\ Cardinality(shown') <= MaxShown
      /\ UNCHANGED <<day, macro, mac>>

\* A request lasts seconds (its timeout is 20): one midnight can pass during it, not two.
Midnight ==
    /\ day < LastDate /\ day' = day + 1
    /\ mac.pc = "dated" => mac.read[1].date = day
    /\ shown' = shown \cup {Point("sbp_policy_rate", day + 1, pages.policy)}
    /\ UNCHANGED <<pages, macro, mac>>

\* KIBOR: the first row or nothing.
_parse_kibor(rows) ==
    IF rows # <<>> /\ rows[1].clean THEN <<Point("kibor", rows[1].date, rows[1].value)>> ELSE <<>>

\* The page has no date: once its answer is there, the rate is dated by the clock.
_fetch_policy_rate(page) == <<Point("sbp_policy_rate", day, page.value)>>

\* Fault: the rate of the newest readable row is dated by the clock.
ParseForexToday(rows) ==
    LET clean == {i \in DOMAIN rows : rows[i].clean}
    IN  IF clean = {} THEN <<>> ELSE <<Point("forex", day, rows[Min(clean)].value)>>

\* PKR/USD: the first row that parses.
_parse(rows) ==
    LET clean == {i \in DOMAIN rows : rows[i].clean}
        first == rows[Min(clean)]
    IN  IF clean = {} THEN <<>> ELSE <<Point("forex", first.date, first.value)>>

\* _get: an HTTP error or a bad status gives no points, and the task goes on (the
\* fall-back of sbp.py's docstring, a rate derived from KIBOR, is not in the code).
Obtained(points, fails) == IF fails THEN <<>> ELSE points

fetch_today_points(fails) ==
    /\ mac' = CASE mac.pc = "idle" ->
                     [mac EXCEPT !.pc = "policy", !.points = Obtained(_parse_kibor(pages.kibor), fails)]
                [] mac.pc = "policy" ->
                     IF fails THEN [mac EXCEPT !.pc = "forex"]
                     ELSE [mac EXCEPT !.pc = "dated", !.read = <<Point("sbp_policy_rate", day, pages.policy)>>]
                [] mac.pc = "dated" ->
                     [mac EXCEPT !.pc = "forex", !.read = <<>>,
                                 !.points = @ \o Obtained(_fetch_policy_rate(mac.read[1]), fails)]
                [] mac.pc = "forex" ->
                     [mac EXCEPT !.pc = "upsert", !.points = @ \o Obtained(_parse(pages.forex), fails)]
    /\ UNCHANGED <<day, pages, shown, macro>>

\* One point; after a failed statement the transaction accepts no other.
_upsert_point(fails) ==
    /\ mac.pc = "upsert" /\ mac.points # <<>>
    /\ LET failed == fails \/ mac.aborted
       IN  mac' = [mac EXCEPT !.points = Tail(@), !.aborted = failed,
                              !.written = IF failed THEN @ ELSE Append(@, Head(mac.points))]
    /\ UNCHANGED <<day, pages, shown, macro>>

\* COMMIT, which rolls back a transaction that a statement has aborted: the
\* task reports the points it counted as inserted either way.
_run ==
    /\ mac.pc = "upsert" /\ mac.points = <<>>
    /\ LET keys == {<<p.indicator, p.date>> : p \in Range(mac.written)}
           value(k) == (CHOOSE p \in Range(mac.written) : <<p.indicator, p.date>> = k).value
       IN  macro' = IF mac.aborted THEN macro
                    ELSE [k \in DOMAIN macro \cup keys |-> IF k \in keys THEN value(k) ELSE macro[k]]
    /\ mac' = MacIdle
    /\ UNCHANGED <<day, pages, shown>>

\* The worker dies, or the database is gone: the task is retried later.
MacCrash == mac.pc # "idle" /\ mac' = MacIdle /\ UNCHANGED <<day, pages, shown, macro>>

MacNext ==
    \/ Publish \/ PolicyChanges \/ Midnight \/ _run \/ MacCrash
    \/ \E fails \in BOOLEAN :
         (mac.pc \in {"idle", "policy", "dated", "forex"} /\ fetch_today_points(fails)) \/ _upsert_point(fails)

MacSpec == MacInit /\ [][MacNext]_macVars

-----------------------------------------------------------------------------
\* What the bank has shown, and policy rates it has shown, dated a day later.
Datable ==
    shown \cup {Point(p.indicator, p.date + 1, p.value) : p \in {q \in shown : q.indicator = "sbp_policy_rate"}}

(***************************************************************************)
(* A stored observation is one the bank has shown for that very date, even *)
(* when pages change between the fetches, the newest row cannot be read, a *)
(* later run corrects it, or a point of the run is refused.  Only a policy *)
(* rate can be dated a day late: midnight may pass between the bank's      *)
(* answer and the look at the clock (_fetch_policy_rate).                  *)
(***************************************************************************)
MacroExact == {Point(k[1], k[2], macro[k]) : k \in DOMAIN macro} \subseteq Datable
=============================================================================
