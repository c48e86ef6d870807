------------------------------- MODULE Fractions -------------------------------
(***************************************************************************)
(* Exact fractions for the numeric services, with the two special values a *)
(* Python float computation can carry: None (not computed) and NaN.        *)
(***************************************************************************)
EXTENDS Integers

None == [tag |-> "none", n |-> 0, d |-> 1]
NaN == [tag |-> "nan", n |-> 0, d |-> 1]
Num(n) == [tag |-> "num", n |-> n, d |-> 1]

\* Lowest terms, positive denominator (the code computes in floats).
Gcd[p \in Nat \X Nat] == IF p[2] = 0 THEN p[1] ELSE Gcd[<<p[2], p[1] % p[2]>>]
Fraction(n, d) ==
    LET g == Gcd[<<IF n < 0 THEN -n ELSE n, IF d < 0 THEN -d ELSE d>>]
        s == IF d < 0 THEN -1 ELSE 1
    IN  [tag |-> "num", n |-> (s * n) \div g, d |-> (s * d) \div g]

IsNum(a) == a.tag = "num"
Lift(a, b, v) == IF a.tag = "nan" \/ b.tag = "nan" THEN NaN ELSE v
Plus(a, b) ==
    LET g == Gcd[<<a.d, b.d>>]
    IN  Lift(a, b, Fraction(a.n * (b.d \div g) + b.n * (a.d \div g), a.d * (b.d \div g)))
Minus(a, b) == Plus(a, [b EXCEPT !.n = -@])
Times(a, b) == Lift(a, b, Fraction(a.n * b.n, a.d * b.d))
Over(a, k) == Lift(a, a, Fraction(a.n, a.d * k))
Ratio(a, b) == Lift(a, b, Fraction(a.n * b.d, a.d * b.n))    \* b # 0
\* Comparisons with NaN are false.
Less(a, b) == IsNum(a) /\ IsNum(b) /\ a.n * b.d < b.n * a.d
AtMost(a, b) == IsNum(a) /\ IsNum(b) /\ a.n * b.d <= b.n * a.d
Zero == Num(0)
Larger(a, b) == IF Less(a, b) THEN b ELSE a
Smaller(a, b) == IF Less(b, a) THEN b ELSE a
Same(a, b) == IsNum(a) /\ IsNum(b) /\ a.n * b.d = b.n * a.d
Power(a, k) == LET pow[j \in 0 .. k] == IF j = 0 THEN Num(1) ELSE Times(pow[j - 1], a) IN pow[k]

\* Python's round: half to even.
RoundHalfEven(num, den) ==
    LET down == num \div den
        rest == 2 * (num % den)
    IN  IF rest > den \/ (rest = den /\ down % 2 = 1) THEN down + 1 ELSE down
=============================================================================
