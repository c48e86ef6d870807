----------------------------- MODULE Purification -----------------------------
(***************************************************************************)
(* The donation marks of one user, symbol and fiscal year, beside the      *)
(* dividends that are recorded meanwhile: PurificationService and          *)
(* compute_report.  A mark reads the record, and without one the report.   *)
(***************************************************************************)
EXTENDS Integers, FiniteSets

CONSTANTS
    PurRequests,    \* handlers that can run at the same time
    MaxDividends    \* bound: dividends, in units that are worth a paisa of donation

ASSUME PurAssumption == MaxDividends \in Nat

VARIABLES
    dividends,   \* dividends of the symbol in the year, all portfolios
    record,      \* purification_records: the row, or NoRecord
    told,        \* history: the last mark that was answered with success
    crossed,     \* history: two marks have overlapped
    pur          \* the handlers

purVars == <<dividends, record, told, crossed, pur>>

NoRecord == [present |-> FALSE, dividends |-> 0, marked |-> FALSE]
PurIdle == [pc |-> "idle"]

PurInit ==
    /\ dividends = 0 /\ record = NoRecord /\ told = FALSE /\ crossed = FALSE
    /\ pur = [r \in PurRequests |-> PurIdle]

\* compute_report: a line for a symbol with dividends in the year.
compute_report(amounts) == {[dividends |-> d] : d \in {a \in amounts : a > 0}}

\* report: the line and its mark.
report == {[dividends |-> ln.dividends, marked |-> record.marked] : ln \in compute_report({dividends})}

\* A dividend is recorded by TransactionService; a mark does not notice it.
Dividend ==
    /\ dividends < MaxDividends /\ dividends' = dividends + 1
    /\ UNCHANGED <<record, told, crossed, pur>>

\* mark_donated finds the record.
mark_donated(r, donated) ==
    /\ pur[r].pc = "idle"
    /\ crossed' = (crossed \/ \E q \in PurRequests : pur[q].pc # "idle")
    /\ pur' = [pur EXCEPT ![r] = [pc |-> IF record.present THEN "update" ELSE "report",
                                  loaded |-> record, donated |-> donated, line |-> 0]]
    /\ UNCHANGED <<dividends, record, told>>

\* The SELECT of the report; without a line there is nothing to mark, and
\* the request answers 204 all the same.
MarkReport(r) ==
    /\ pur[r].pc = "report"
    /\ IF report = {} THEN /\ pur' = [pur EXCEPT ![r] = PurIdle]
                           /\ told' = pur[r].donated
       ELSE /\ \E ln \in report : pur' = [pur EXCEPT ![r].pc = "insert", ![r].line = ln.dividends]
            /\ UNCHANGED told
    /\ UNCHANGED <<dividends, record, crossed>>

\* Fault: a mark that is taken back is not written.
MarkUpdateOnly(r) ==
    /\ pur[r].pc = "update"
    /\ record' = IF pur[r].donated THEN [record EXCEPT !.marked = TRUE] ELSE record
    /\ told' = pur[r].donated
    /\ pur' = [pur EXCEPT ![r] = PurIdle]
    /\ UNCHANGED <<dividends, crossed>>

\* now() always differs from the old time; None does from a time.
MarkUpdate(r) ==
    /\ pur[r].pc = "update"
    /\ record' = IF pur[r].donated \/ pur[r].loaded.marked
                 THEN [record EXCEPT !.marked = pur[r].donated] ELSE record
    /\ told' = pur[r].donated
    /\ pur' = [pur EXCEPT ![r] = PurIdle]
    /\ UNCHANGED <<dividends, crossed>>

\* A second INSERT is rolled back, and the request still answers 204.
MarkInsert(r) ==
    /\ pur[r].pc = "insert"
    /\ record' = IF record.present THEN record
                 ELSE [present |-> TRUE, dividends |-> pur[r].line, marked |-> pur[r].donated]
    /\ told' = pur[r].donated
    /\ pur' = [pur EXCEPT ![r] = PurIdle]
    /\ UNCHANGED <<dividends, crossed>>

PurCrash(r) ==
    /\ pur[r].pc # "idle"
    /\ pur' = [pur EXCEPT ![r] = PurIdle]
    /\ UNCHANGED <<dividends, record, told, crossed>>

\* The endpoints of the router.
PurificationRoutes(r) == \E donated \in BOOLEAN : mark_donated(r, donated)

PurNext ==
    \/ Dividend
    \/ \E r \in PurRequests :
         PurificationRoutes(r) \/ MarkReport(r) \/ MarkUpdate(r) \/ MarkInsert(r) \/ PurCrash(r)

PurSpec == PurInit /\ [][PurNext]_purVars

-----------------------------------------------------------------------------
(***************************************************************************)
(* A record holds an amount that was really received and, until two marks  *)
(* have overlapped, the mark the user was told last.  (The amount is that  *)
(* of the day of the first mark: later dividends raise the line of the     *)
(* report and leave the mark on it.  A mark without a line is answered     *)
(* with success and kept nowhere.)                                         *)
(***************************************************************************)
MarksKept ==
    record.present =>
        /\ record.dividends \in 1 .. dividends
        /\ ~crossed => record.marked = told
=============================================================================
