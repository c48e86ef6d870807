------------------------------- MODULE GoalPlan -------------------------------
(***************************************************************************)
(* Goal analysis: the rate of return a goal needs, found by bisection, its *)
(* rating and the suggestions that would make it easier.  Rates and        *)
(* amounts are exact fractions, rounded where the code rounds.             *)
(***************************************************************************)
EXTENDS Fractions, Sequences, SequencesExt

CONSTANTS
    Iterations,   \* of the bisection (80)
    MaxMonths     \* horizon of the search for an extension (12 * 60)

ASSUME GoalAssumption == Iterations \in Nat /\ MaxMonths \in Nat

\* Whole months from start to end, never negative.
_months_between(start, end) ==
    LET before(a, b) == \/ a.year < b.year
                        \/ a.year = b.year /\ a.month < b.month
                        \/ a.year = b.year /\ a.month = b.month /\ a.day < b.day
        months == (end.year - start.year) * 12 + (end.month - start.month)
        whole == IF end.day < start.day THEN months - 1 ELSE months
    IN  IF ~before(start, end) \/ whole < 0 THEN 0 ELSE whole

\* The factor by which money grows in so many months.
Growth(rate, months) == Power(Plus(Num(1), Over(rate, 12)), months)

Compounded(pv, pmt, r, growth) == Plus(Times(pv, growth), Ratio(Times(pmt, Minus(growth, Num(1))), r))

\* PV grown, plus contributions at the end of each month.
_future_value(pv, pmt, months, rate) ==
    IF months = 0 THEN pv
    ELSE IF rate.n = 0 THEN Plus(pv, Times(pmt, Num(months)))
    ELSE Compounded(pv, pmt, Over(rate, 12), Growth(rate, months))

Lowest == Fraction(-1, 2)
Highest == Num(2)

\* Fault: the half that is kept is the wrong one.
HalveWrong(b, mid, short) == IF short THEN [b EXCEPT !.hi = mid] ELSE [b EXCEPT !.lo = mid]

\* One round of the bisection: the middle's value falls short of the target or not.
Halve(b, mid, short) == IF short THEN [b EXCEPT !.lo = mid] ELSE [b EXCEPT !.hi = mid]

Middle(b) == Over(Plus(b.lo, b.hi), 2)

\* The rate between -50% and 200% that reaches the target, or None.
_bisect_cagr(target, pv, pmt, months) ==
    LET short(rate) == Less(_future_value(pv, pmt, months, rate), target)
        round(b, k) == Halve(b, Middle(b), short(Middle(b)))
    IN  IF months = 0 \/ Less(target, _future_value(pv, pmt, months, Lowest)) \/ short(Highest) THEN None
        ELSE Middle(FoldLeft(round, [lo |-> Lowest, hi |-> Highest], [k \in 1 .. Iterations |-> k]))

_rating_for_cagr(pct) ==
    IF AtMost(pct, Num(8)) THEN "feasible" ELSE IF AtMost(pct, Num(14)) THEN "stretch"
    ELSE IF AtMost(pct, Num(20)) THEN "aggressive" ELSE "unrealistic"

\* The contribution that makes up the deficit at a fixed rate.
Instalment(deficit, growth, rate) ==
    IF AtMost(deficit, Zero) THEN Zero
    ELSE Ratio(Times(deficit, Over(rate, 12)), Minus(growth, Num(1)))

_required_pmt(target, pv, months, rate) ==
    IF months = 0 THEN Zero
    ELSE Instalment(Minus(target, Times(pv, Growth(rate, months))), Growth(rate, months), rate)

\* The first horizon at which the rate is enough; 0: none.
_months_to_drop_to_feasible(target, pv, pmt, rate) ==
    LET enough == {m \in 1 .. MaxMonths - 1 : AtMost(target, _future_value(pv, pmt, m, rate))}
    IN  IF enough = {} THEN 0 ELSE CHOOSE m \in enough : \A k \in enough : m <= k

\* round(x, 2): to the paisa, or to the hundredth of a percent.
Rounded(x) == Fraction(RoundHalfEven(x.n * 100, x.d), 100)

Later(m, months) == IF m > months THEN m - months ELSE 0

NoPlan == [required_cagr |-> None, pmt |-> None, extension |-> 0]

\* The plan at the rounded rate: suggestions only for the two worst ratings.
PlanAt(g, cagr, rating) ==
    IF rating \in {"feasible", "stretch"}
    THEN [required_cagr |-> cagr, rating |-> rating, pmt |-> None, extension |-> 0]
    ELSE [required_cagr |-> cagr, rating |-> rating,
          pmt |-> Rounded(_required_pmt(g.target, g.pv, g.months, Fraction(10, 100))),
          extension |-> Later(_months_to_drop_to_feasible(g.target, g.pv, g.pmt, Fraction(8, 100)), g.months)]

PlanWith(g, rate) ==
    IF rate = None
    THEN [required_cagr |-> None, rating |-> "unrealistic", extension |-> 12,
          pmt |-> Rounded(_required_pmt(g.target, g.pv, g.months, Fraction(12, 100)))]
    ELSE LET cagr_pct == Rounded(Times(rate, Num(100)))
         IN  PlanAt(g, cagr_pct, _rating_for_cagr(cagr_pct))

analyze(g) ==
    IF AtMost(g.target, g.pv) THEN NoPlan @@ [rating |-> "already_funded"]
    ELSE IF g.months = 0 THEN NoPlan @@ [rating |-> "unrealistic"]
    ELSE PlanWith(g, _bisect_cagr(g.target, g.pv, g.pmt, g.months))

-----------------------------------------------------------------------------
\* The reference: month after month, the balance grows and the contribution is paid in.
MonthByMonth(pv, pmt, months, rate) ==
    LET balance[m \in 0 .. months] ==
            IF m = 0 THEN pv ELSE Plus(Times(balance[m - 1], Plus(Num(1), Over(rate, 12))), pmt)
    IN  balance[months]

\* What the bisection's rate, before it is rounded, means month after month.
RateReaches(g, rate) ==
    LET fv(r) == MonthByMonth(g.pv, g.pmt, g.months, r)
        width == Over(Fraction(5, 2), 2 ^ Iterations)
    IN  AtMost(fv(Minus(rate, width)), g.target) /\ AtMost(g.target, fv(Plus(rate, width)))

\* An amount rounded to the paisa is within half a paisa of the one that reaches the target.
PaisaAround(g, pmt, rate) ==
    LET fv(p) == MonthByMonth(g.pv, p, g.months, rate)
    IN  AtMost(fv(Minus(pmt, Fraction(1, 200))), g.target) /\ AtMost(g.target, fv(Plus(pmt, Fraction(1, 200))))

PlanSound(g, a) ==
    LET fv(rate) == MonthByMonth(g.pv, g.pmt, g.months, rate)
        enough(m) == AtMost(g.target, MonthByMonth(g.pv, g.pmt, m, Fraction(8, 100)))
        planned == Less(g.pv, g.target) /\ g.months > 0
    IN  /\ Less(g.pv, g.target) /\ AtMost(g.target, fv(Zero)) =>
             a.rating = IF Less(g.target, fv(Lowest)) THEN "unrealistic" ELSE "feasible"
        /\ planned /\ a.pmt # None /\ a.pmt.n # 0 =>
             PaisaAround(g, a.pmt, Fraction(IF a.required_cagr = None THEN 12 ELSE 10, 100))
        /\ a.required_cagr # None /\ a.extension # 0 => enough(g.months + a.extension) /\ ~enough(g.months + a.extension - 1)
        /\ planned =>
             LET rate == _bisect_cagr(g.target, g.pv, g.pmt, g.months)
             IN  rate # None => RateReaches(g, rate)

(***************************************************************************)
(* The bisection ends within its last interval of the rate that reaches    *)
(* the target, month after month.  A goal that contributions reach without *)
(* any growth is feasible, unless even a loss of half would overshoot it:  *)
(* then there is no rate in the bracket and the goal is called             *)
(* unrealistic.  The suggested contribution is within half a paisa of the  *)
(* one that reaches the target at ten percent (at twelve without a rate),  *)
(* and the suggested extension is the first month at which eight percent   *)
(* do.                                                                     *)
(***************************************************************************)
GoalSound(g) == PlanSound(g, analyze(g))
=============================================================================
