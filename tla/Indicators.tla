------------------------------ MODULE Indicators ------------------------------
(***************************************************************************)
(* The technical indicators and their plain-language signals.  A value is  *)
(* an exact fraction, None (the warm-up) or NaN (what a NULL price becomes *)
(* and every sum it enters).  Series are sequences aligned to the input.   *)
(***************************************************************************)
EXTENDS Fractions, Sequences, SequencesExt

SumTo(xs, m) == FoldLeft(Plus, Zero, SubSeq(xs, 1, m))
LastOf(s) == IF s = <<>> THEN None ELSE s[Len(s)]

-----------------------------------------------------------------------------
\* Fault: the value that leaves the window is the one after it.
SmaShifted(xs, period) ==
    LET running[i \in 1 .. Len(xs)] ==
            IF i <= period THEN SumTo(xs, i)
            ELSE Plus(running[i - 1], Minus(xs[i], xs[i - period + 1]))
    IN  [i \in 1 .. Len(xs) |-> IF i < period THEN None ELSE Over(running[i], period)]

\* One running sum over the whole series.
sma(xs, period) ==
    LET running[i \in 1 .. Len(xs)] ==
            IF i <= period THEN SumTo(xs, i)
            ELSE Plus(running[i - 1], Minus(xs[i], xs[i - period]))
    IN  [i \in 1 .. Len(xs) |-> IF i < period THEN None ELSE Over(running[i], period)]

\* Seeded with the first average; weight 2 / (period + 1).
ema(xs, period) ==
    LET line[i \in 1 .. Len(xs)] ==
            IF i < period THEN None
            ELSE IF i = period THEN Over(SumTo(xs, period), period)
            ELSE Over(Plus(Times(xs[i], Num(2)), Times(line[i - 1], Num(period - 1))), period + 1)
    IN  [i \in 1 .. Len(xs) |-> line[i]]

\* Wilder's average of per-step values (i counts steps).
Wilder(steps, period) ==
    LET avg[i \in 1 .. Len(steps)] ==
            IF i < period THEN None
            ELSE IF i = period THEN Over(SumTo(steps, period), period)
            ELSE Over(Plus(Times(avg[i - 1], Num(period - 1)), steps[i]), period)
    IN  [i \in 1 .. Len(steps) |-> avg[i]]

Deltas(xs) == [i \in 1 .. (IF xs = <<>> THEN 0 ELSE Len(xs) - 1) |-> Minus(xs[i + 1], xs[i])]

\* 100 when nothing was lost, a flat series included.
RsiOf(gain, loss) ==
    IF gain.tag # "num" \/ loss.tag # "num" THEN gain
    ELSE IF loss.n = 0 THEN Num(100)
    ELSE Ratio(Times(Num(100), gain), Plus(gain, loss))

rsi(xs, period) ==
    LET deltas == Deltas(xs)
        gains == Wilder([i \in DOMAIN deltas |-> Larger(deltas[i], Zero)], period)
        losses == Wilder([i \in DOMAIN deltas |-> Larger(Minus(Zero, deltas[i]), Zero)], period)
    IN  [i \in 1 .. Len(xs) |-> IF i <= period THEN None ELSE RsiOf(gains[i - 1], losses[i - 1])]

\* The tail of a series from its first value on, run through f, put back in place.
OnPopulated(line, f(_)) ==
    LET start == SelectInSeq(line, LAMBDA v : v.tag # "none")
    IN  IF start = 0 THEN line
        ELSE LET tail == f(SubSeq(line, start, Len(line)))
             IN  [i \in DOMAIN line |-> IF i < start THEN None ELSE tail[i - start + 1]]

Difference(a, b) == [i \in DOMAIN a |-> IF None \in {a[i], b[i]} THEN None ELSE Minus(a[i], b[i])]

macd(xs, fast, slow, signal_period) ==
    LET line == Difference(ema(xs, fast), ema(xs, slow))
        signal == OnPopulated(line, LAMBDA s : ema(s, signal_period))
    IN  [macd |-> line, signal |-> signal, histogram |-> Difference(line, signal)]

\* Where the close lies in the window's range, 50 when the range is empty.
stochastic(highs, lows, closes, k_period, d_period) ==
    LET k == [i \in DOMAIN closes |->
                IF i < k_period THEN None
                ELSE LET top == FoldLeft(Larger, highs[i - k_period + 1], SubSeq(highs, i - k_period + 1, i))
                         bottom == FoldLeft(Smaller, lows[i - k_period + 1], SubSeq(lows, i - k_period + 1, i))
                     IN  IF IsNum(top) /\ top = bottom THEN Num(50)
                         ELSE Ratio(Times(Num(100), Minus(closes[i], bottom)), Minus(top, bottom))]
    IN  [k |-> k, d |-> OnPopulated(k, LAMBDA s : sma(s, d_period))]

\* The mean and the variance: the bands are mean +- num_std * sqrt(variance).
bollinger_bands(xs, period) ==
    LET middle == sma(xs, period)
    IN  [middle |-> middle,
         variance |-> [i \in DOMAIN xs |->
             IF i < period THEN None
             ELSE Over(FoldLeft(LAMBDA acc, x : Plus(acc, Times(Minus(x, middle[i]), Minus(x, middle[i]))),
                                Zero, SubSeq(xs, i - period + 1, i)), period)]]

Magnitude(a) == Larger(a, Minus(Zero, a))

\* Average true range: Wilder's average from the second bar on.  A negative
\* period is not refused: slices and indices then count from the end, and the
\* average runs over the last ranges before it runs over all.
atr(highs, lows, closes, period) ==
    LET ranges == [i \in 1 .. Len(closes) - 1 |->
                     Larger(Minus(highs[i + 1], lows[i + 1]),
                            Larger(Magnitude(Minus(highs[i + 1], closes[i])),
                                   Magnitude(Minus(lows[i + 1], closes[i]))))]
        n == Len(closes)
        avg == Wilder(ranges, period)
        Wrapped(i) == FoldLeft(LAMBDA prev, tr : Over(Plus(Times(prev, Num(period - 1)), tr), period),
                               Over(SumTo(ranges, n - 1 + period), period),
                               SubSeq(ranges, n + period, n - 1) \o SubSeq(ranges, 1, i - 1))
    IN  [i \in 1 .. n |-> IF period < 0 THEN Wrapped(i) ELSE IF i <= period THEN None ELSE avg[i - 1]]

\* Volume counted up on a rise and down on a fall.
obv(closes, volumes) ==
    LET total[i \in 1 .. Len(closes)] ==
            IF i = 1 THEN 0
            ELSE total[i - 1] + (IF Less(closes[i - 1], closes[i]) THEN volumes[i]
                                 ELSE IF Less(closes[i], closes[i - 1]) THEN -volumes[i] ELSE 0)
    IN  [i \in 1 .. Len(closes) |-> total[i]]

-----------------------------------------------------------------------------
\* Signals.  NaN passes the test for None and fails every comparison.
interpret_rsi(v) ==
    IF AtMost(Num(70), v) THEN "bearish" ELSE IF AtMost(v, Num(30)) THEN "bullish" ELSE "neutral"

interpret_macd(m, hist) ==
    IF Less(Zero, hist) /\ Less(Zero, m) THEN "bullish"
    ELSE IF Less(hist, Zero) /\ Less(m, Zero) THEN "bearish" ELSE "neutral"

\* Not above the average is below it.
interpret_sma(close, average) ==
    IF None \in {close, average} THEN "neutral"
    ELSE IF Less(average, close) THEN "bullish" ELSE "bearish"

\* close >= upper, close <= lower, with two standard deviations.
Beyond(distance, variance) == AtMost(Zero, distance) /\ AtMost(Times(Num(4), variance), Times(distance, distance))
interpret_bollinger(close, mean, variance) ==
    IF None \in {close, mean, variance} THEN "neutral"
    ELSE IF Beyond(Minus(close, mean), variance) THEN "bearish"
    ELSE IF Beyond(Minus(mean, close), variance) THEN "bullish" ELSE "neutral"

interpret_stochastic(k, d) ==
    IF None \in {k, d} THEN "neutral"
    ELSE IF Less(Num(80), k) THEN "bearish" ELSE IF Less(k, Num(20)) THEN "bullish" ELSE "neutral"

interpret_obv(latest, week_ago) ==
    IF latest > week_ago THEN "bullish" ELSE IF latest < week_ago THEN "bearish" ELSE "neutral"

\* The indicator of a symbol from its bars (oldest first), periods given.
compute_indicator(key, bars, p) ==
    LET xs == [i \in DOMAIN bars |-> bars[i].close]
        n == Len(xs)
    IN  IF bars = <<>> THEN "neutral"
        ELSE CASE key = "rsi" -> interpret_rsi(LastOf(rsi(xs, p)))
               [] key = "macd" -> LET m == macd(xs, p, p + 1, p)
                                  IN  interpret_macd(LastOf(m.macd), LastOf(m.histogram))
               [] key = "sma" -> interpret_sma(LastOf(xs), LastOf(sma(xs, p)))
               [] key = "ema" -> interpret_sma(LastOf(xs), LastOf(ema(xs, p)))
               [] key = "bbands" -> LET b == bollinger_bands(xs, p)
                                    IN  interpret_bollinger(LastOf(xs), LastOf(b.middle), LastOf(b.variance))
               [] key = "stochastic" -> LET s == stochastic([i \in DOMAIN bars |-> bars[i].high],
                                                            [i \in DOMAIN bars |-> bars[i].low], xs, p, p)
                                        IN  interpret_stochastic(LastOf(s.k), LastOf(s.d))
               [] key = "obv" -> LET o == obv(xs, [i \in DOMAIN bars |-> 1])
                                     week_idx == IF n > 6 THEN n - 5 ELSE 1
                                 IN  interpret_obv(o[n], o[week_idx])
               [] key = "atr" -> "neutral"

-----------------------------------------------------------------------------
Percent(v) == IsNum(v) => AtMost(Zero, v) /\ AtMost(v, Num(100))

(***************************************************************************)
(* Running sums and recursive averages against the windows they stand for: *)
(* a moving average is None up to its period, then the mean of its window, *)
(* unless any price up to there was NULL (also one that has left the       *)
(* window); oscillators stay within 0 and 100, and the signal line starts  *)
(* where its own warm-up after the slow line's ends.                       *)
(***************************************************************************)
IndicatorsExact(xs, p) ==
    LET avg == sma(xs, p)
        m == macd(xs, p, p + 1, p)
    IN  \A i \in 1 .. Len(xs) :
          /\ avg[i].tag = "none" <=> i < p
          /\ i >= p => IF \E j \in 1 .. i : xs[j].tag = "nan" THEN avg[i].tag = "nan"
                       ELSE Same(avg[i], Over(SumTo(SubSeq(xs, i - p + 1, i), p), p))
          /\ Percent(rsi(xs, p)[i])
          /\ m.signal[i].tag = "none" <=> i < 2 * p
=============================================================================
