-------------------------------- MODULE Alerts --------------------------------
(***************************************************************************)
(* AlertService.evaluate_today for one symbol while bars arrive and are    *)
(* corrected.  The anomaly score of a bar is part of the bar here.         *)
(***************************************************************************)
EXTENDS AlertRules, FiniteSets

CONSTANTS
    AlrtRequests,   \* evaluations that can run at the same time
    DayBars,        \* bars a day may get: open, close, volume, score, complete
    MaxDays         \* bound: days

ASSUME AlrtAssumption ==
    /\ MaxDays \in Nat
    /\ DayBars \subseteq [open : Nat, close : Nat, volume : Nat, score : Nat, complete : BOOLEAN]

VARIABLES
    days,       \* ohlcv_daily of the symbol, oldest first
    alerts,     \* suspicious_days
    flagged,    \* history: days whose evaluation ended with a triggered rule
    alrt        \* the evaluations

alrtVars == <<days, alerts, flagged, alrt>>

AlrtIdle == [pc |-> "idle"]
\* The backfill has loaded some days like each other.
AlrtInit ==
    /\ \E bar \in DayBars : bar.complete /\ days = [d \in 1 .. VolumeDays + 1 |-> bar]
    /\ alerts = {} /\ flagged = {}
    /\ alrt = [r \in AlrtRequests |-> AlrtIdle]

-----------------------------------------------------------------------------
\* The ingest adds a bar, or corrects the newest one.
BarArrives ==
    /\ Len(days) < MaxDays
    /\ \E bar \in DayBars : days' = Append(days, bar)
    /\ UNCHANGED <<alerts, flagged, alrt>>

BarCorrected ==
    /\ \E bar \in DayBars : days' = [days EXCEPT ![Len(days)] = bar]
    /\ days' # days
    /\ UNCHANGED <<alerts, flagged, alrt>>

\* Rows with a missing price are left out, also when the newest is one.
Complete == {d \in DOMAIN days : days[d].complete}

\* The days of the average volume: the last ones before the newest.
Baseline(newest) ==
    {d \in Complete : d < newest /\ Cardinality({e \in Complete : d < e}) <= VolumeDays}

\* Fault: the alert is kept when the score is loud but the news explains it.
WorthStoringLoud(rule, tenths, severity) == rule # "none" \/ tenths >= 50

\* A mere statistical bump of low severity is not stored.
WorthStoring(rule, tenths, severity) == rule # "none" \/ (tenths >= 50 /\ severity # "low")

\* evaluate_today: bars, score and context; the row is dated by the newest ROW,
\* its figures are those of the newest complete BAR.
evaluate_today(r, context, strongPulse) ==
    LET newest == Max(Complete)
        today == days[newest]
        volumes == MapThenSumSet(LAMBDA d : days[d].volume, Baseline(newest))
        rule == detect_rule(today, volumes)
        severity == escalate_severity(rule # "none", today.score, context, strongPulse)
    IN  /\ alrt[r].pc = "idle" /\ Cardinality(Complete) >= VolumeDays + 2
        /\ IF WorthStoring(rule, today.score, severity)
           THEN alrt' = [alrt EXCEPT ![r] =
                   [pc |-> "insert", rule |-> rule,
                    row |-> [date |-> Len(days), day |-> newest, severity |-> severity,
                             type |-> IF rule # "none" THEN rule
                                      ELSE IF price_change_pct_sign(today) >= 0 THEN "pump" ELSE "dump",
                             context |-> context, bar |-> today, gap |-> ~days[Len(days)].complete]]]
           ELSE UNCHANGED alrt
        /\ UNCHANGED <<days, alerts, flagged>>

\* Fault: the date is not unique in the table.
InsertAgain(r) ==
    /\ alrt[r].pc = "insert"
    /\ alerts' = alerts \cup {alrt[r].row}
    /\ flagged' = IF alrt[r].rule # "none" THEN flagged \cup {alrt[r].row.date} ELSE flagged
    /\ alrt' = [alrt EXCEPT ![r] = AlrtIdle]
    /\ UNCHANGED days

\* The INSERT; when the date has its alert, rollback and answer with that one.
InsertAlert(r) ==
    /\ alrt[r].pc = "insert"
    /\ alerts' = IF \E a \in alerts : a.date = alrt[r].row.date THEN alerts ELSE alerts \cup {alrt[r].row}
    /\ flagged' = IF alrt[r].rule # "none" THEN flagged \cup {alrt[r].row.date} ELSE flagged
    /\ alrt' = [alrt EXCEPT ![r] = AlrtIdle]
    /\ UNCHANGED days

AlrtCrash(r) ==
    /\ alrt[r].pc # "idle" /\ alrt' = [alrt EXCEPT ![r] = AlrtIdle]
    /\ UNCHANGED <<days, alerts, flagged>>

AlrtNext ==
    \/ BarArrives \/ BarCorrected
    \/ \E r \in AlrtRequests :
         \/ \E context, strongPulse \in BOOLEAN : evaluate_today(r, context, strongPulse)
         \/ InsertAlert(r) \/ AlrtCrash(r)

AlrtSpec == AlrtInit /\ [][AlrtNext]_alrtVars

-----------------------------------------------------------------------------
(***************************************************************************)
(* A day has at most one alert, and has one once an evaluation that met    *)
(* the rule has ended, however evaluations and corrections overlap.  A     *)
(* dump is of a day that closed lower, a pump of one that did not - or by  *)
(* so little that the rounded change is 0 -, news keep it from being       *)
(* "high", and it is about the day it is dated, unless the newest row had  *)
(* a missing price: then the figures of an earlier day are stored under    *)
(* the newest date.                                                        *)
(***************************************************************************)
AlertsSound ==
    /\ \A a, b \in alerts : a.date = b.date => a = b
    /\ flagged \subseteq {a.date : a \in alerts}
    /\ \A a \in alerts :
         /\ a.type = "pump" => 20000 * (a.bar.open - a.bar.close) <= a.bar.open
         /\ a.type = "dump" => a.bar.close < a.bar.open
         /\ a.context => a.severity # "high"
         /\ a.severity = "low" => a.context /\ a.bar.close # a.bar.open
         /\ a.day < a.date => a.gap
=============================================================================
