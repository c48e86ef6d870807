------------------------------ MODULE AlertRules ------------------------------
(***************************************************************************)
(* alerts/pump_dump.py: the rule, the anomaly score and the severity of a  *)
(* suspicious day, for any bar and any feature vectors.                    *)
(***************************************************************************)
EXTENDS Fractions, Sequences, SequencesExt

CONSTANT VolumeDays   \* days of the average volume (20)

ASSUME VolumeAssumption == VolumeDays \in Nat \ {0}

\* Four times the average volume and three percent between open and close.
detect_rule(bar, volumes) ==
    IF volumes = 0 \/ bar.volume * VolumeDays < 4 * volumes \/ bar.open <= 0 THEN "none"
    ELSE IF 100 * (bar.close - bar.open) >= 3 * bar.open THEN "pump"
    ELSE IF 100 * (bar.open - bar.close) >= 3 * bar.open THEN "dump" ELSE "none"

\* The sign of price_change_pct, which detect_rule rounds to two decimals of a percent: a
\* move of at most half a hundredth of a percent is 0 (and -0.0 >= 0).
price_change_pct_sign(bar) ==
    LET change == 20000 * (bar.close - bar.open)
    IN  IF bar.open = 0 \/ (-bar.open <= change /\ change <= bar.open) THEN 0
        ELSE IF change > 0 THEN 1 ELSE -1

\* The square of the score: distances from the mean in standard deviations;
\* a feature that never varied is left out.
anomaly_score(today, history) ==
    LET n == Len(history)
        mean(f) == Over(FoldLeft(LAMBDA acc, h : Plus(acc, h[f]), Zero, history), n)
        square(a) == Times(a, a)
        var(f) == Over(FoldLeft(LAMBDA acc, h : Plus(acc, square(Minus(h[f], mean(f)))), Zero, history), n - 1)
        z2(f) == IF var(f).n = 0 THEN Zero ELSE Ratio(square(Minus(today[f], mean(f))), var(f))
    IN  IF n < 5 THEN Zero
        ELSE FoldLeft(LAMBDA acc, f : Plus(acc, z2(f)), Zero, [f \in DOMAIN today |-> f])

\* Scores in tenths.  context: an announcement or high-impact news.
escalate_severity(triggered, tenths, context, strongPulse) ==
    IF triggered /\ ~context THEN (IF tenths >= 25 THEN "high" ELSE "medium")
    ELSE IF triggered THEN (IF strongPulse THEN "low" ELSE "medium")
    ELSE IF tenths >= 50 /\ ~context THEN "medium" ELSE "low"

-----------------------------------------------------------------------------
(***************************************************************************)
(* A louder score never lowers the severity, and news never raises it.     *)
(***************************************************************************)
SeverityOrdered(tenths, louder) ==
    LET Level(s) == CASE s = "low" -> 0 [] s = "medium" -> 1 [] s = "high" -> 2
    IN  \A triggered, context, pulse \in BOOLEAN :
          LET now == Level(escalate_severity(triggered, tenths, context, pulse))
          IN  /\ tenths <= louder => now <= Level(escalate_severity(triggered, louder, context, pulse))
              /\ now <= Level(escalate_severity(triggered, tenths, FALSE, pulse))

(***************************************************************************)
(* A day at the mean of every feature scores nothing, moving one feature   *)
(* away raises the score if it varied before, and a feature that never     *)
(* varied is ignored, however far today is from it.                        *)
(***************************************************************************)
ScoreSound(history) ==
    LET today(v) == <<Num(v), Num(1)>>
        varied == \E h \in Range(history) : h[1] # history[1][1]
        scored == anomaly_score(today(100), history)
    IN  Len(history) >= 5 => IF varied THEN Less(Zero, scored) /\ Less(scored, anomaly_score(today(200), history))
                             ELSE Same(scored, Zero)
=============================================================================
