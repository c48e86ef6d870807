------------------------------ MODULE LotFacts ------------------------------
(***************************************************************************)
(* Lists of lots, for every list: what they hold, what sorting, eating     *)
(* prior sells and matching a sell (psx_api/tax/cgt.py) do to it.          *)
(***************************************************************************)
EXTENDS TaxCgt, FoldFacts

-----------------------------------------------------------------------------
\* Division leaves less than a divisor.
LEMMA Divided ==
    ASSUME NEW x \in Int, NEW u \in Nat \ {0}
    PROVE  /\ x \div u \in Int
           /\ u * (x \div u) \in Int /\ u * (x \div u) <= x /\ x < u * (x \div u) + u
           /\ x >= 0 => x \div u >= 0
  <1> DEFINE q == x \div u
             r == x % u
  <1>1. q \in Int /\ r \in Int /\ 0 <= r /\ r < u /\ x = u * q + r
    OBVIOUS
  <1> HIDE DEF q, r
  <1>2. u * q \in Int
    BY <1>1
  <1>3. u * q <= x /\ x < u * q + u
    BY <1>1, <1>2
  <1>4. ASSUME x >= 0, q < 0 PROVE FALSE
    <2>1. u * q <= -u
      BY <1>1, <1>4
    <2> QED BY <1>2, <1>3, <1>4, <2>1
  <1> QED BY <1>1, <1>2, <1>3, <1>4 DEF q

\* Multiples of a unit that are less than a unit apart are the same.
LEMMA Multiples ==
    ASSUME NEW a \in Int, NEW b \in Int, NEW u \in Nat \ {0}, u * a < u * b + u
    PROVE  a <= b
  <1>1. ASSUME a >= b + 1 PROVE FALSE
    <2>1. u * a >= u * (b + 1) /\ u * (b + 1) = u * b + u
      BY <1>1
    <2> QED BY <2>1
  <1> QED BY <1>1

\* Rounding moves a value by at most half a unit.
LEMMA HalfUpClose ==
    ASSUME NEW x \in Int, NEW u \in Nat \ {0}
    PROVE  /\ HalfUp(x, u) \in Int
           /\ 2 * (u * HalfUp(x, u)) - 2 * x \in -u .. u
           /\ x >= 0 => HalfUp(x, u) >= 0
           /\ x = 0 => HalfUp(x, u) = 0
  <1> DEFINE v == 2 * u
             a == u - 2 * x
             b == u + 2 * x
  <1>1. v \in Nat \ {0} /\ a \in Int /\ b \in Int
    OBVIOUS
  <1>2. HalfUp(x, u) = IF x < 0 THEN -(a \div v) ELSE b \div v
    BY DEF HalfUp
  <1>3. CASE x < 0
    <2> DEFINE q == a \div v
    <2>1. q \in Int /\ v * q \in Int /\ v * q <= a /\ a < v * q + v
      BY <1>1, Divided
    <2>2. HalfUp(x, u) = -q
      BY <1>2, <1>3
    <2> HIDE DEF q
    <2>3. 2 * (u * (-q)) = -(v * q)
      BY <2>1
    <2>4. 2 * (u * HalfUp(x, u)) = -(v * q)
      BY <2>2, <2>3
    <2>5. -(v * q) - 2 * x \in -u .. u
      BY <2>1
    <2> QED BY <1>3, <2>1, <2>2, <2>4, <2>5
  <1>4. CASE ~(x < 0)
    <2> DEFINE q == b \div v
    <2>1. q \in Int /\ v * q \in Int /\ v * q <= b /\ b < v * q + v /\ (b >= 0 => q >= 0)
      BY <1>1, Divided
    <2>2. HalfUp(x, u) = q
      BY <1>2, <1>4
    <2> HIDE DEF q
    <2>3. 2 * (u * q) = v * q
      BY <2>1
    <2>4. v * q - 2 * x \in -u .. u
      BY <2>1
    <2>5. ASSUME x = 0 PROVE q = 0
      <3>1. v * q <= u /\ u < v * q + v
        BY <2>1, <2>5
      <3>2. v * q < v * 0 + v /\ v * 0 < v * q + v
        BY <2>1, <3>1
      <3> HIDE DEF v
      <3> QED BY <1>1, <2>1, <3>2, Multiples
    <2>6. b >= 0
      BY <1>4
    <2> QED BY <2>1, <2>2, <2>3, <2>4, <2>5, <2>6
  <1> QED BY <1>3, <1>4

\* The larger value is not rounded to less.
LEMMA HalfUpGrows ==
    ASSUME NEW x \in Nat, NEW y \in Nat, x <= y, NEW u \in Nat \ {0}
    PROVE  HalfUp(x, u) \in Nat /\ HalfUp(y, u) \in Nat /\ HalfUp(x, u) <= HalfUp(y, u)
  <1> DEFINE v == 2 * u
             a == u + 2 * x
             b == u + 2 * y
             p == a \div v
             q == b \div v
  <1>1. v \in Nat \ {0} /\ a \in Nat /\ b \in Nat /\ a <= b
    OBVIOUS
  <1>2. HalfUp(x, u) = p /\ HalfUp(y, u) = q
    BY DEF HalfUp
  <1> HIDE DEF v, a, b
  <1>3. /\ p \in Int /\ v * p \in Int /\ v * p <= a /\ p >= 0
        /\ q \in Int /\ v * q \in Int /\ b < v * q + v /\ q >= 0
    BY <1>1, Divided
  <1> HIDE DEF p, q
  <1>4. p <= q
    <2>1. v * p < v * q + v
      BY <1>1, <1>3
    <2> QED BY <1>1, <1>3, <2>1, Multiples
  <1> QED BY <1>2, <1>3, <1>4

\* Rounding two parts differs from rounding their sum by at most a unit.
LEMMA HalfUpParts ==
    ASSUME NEW x \in Int, NEW y \in Int, NEW u \in Nat \ {0}
    PROVE  /\ HalfUp(x + y, u) - HalfUp(x, u) - HalfUp(y, u) \in -1 .. 1
           /\ x = 0 \/ y = 0 => HalfUp(x + y, u) = HalfUp(x, u) + HalfUp(y, u)
  <1> DEFINE z == x + y
             a == HalfUp(x, u)
             b == HalfUp(y, u)
             c == HalfUp(z, u)
  <1>1. z \in Int
    OBVIOUS
  <1> HIDE DEF z
  <1>2. /\ a \in Int /\ 2 * (u * a) - 2 * x \in -u .. u /\ (x = 0 => a = 0)
        /\ b \in Int /\ 2 * (u * b) - 2 * y \in -u .. u /\ (y = 0 => b = 0)
        /\ c \in Int /\ 2 * (u * c) - 2 * z \in -u .. u
    BY <1>1, HalfUpClose
  <1>3. (x = 0 => z = y) /\ (y = 0 => z = x) /\ z = x + y
    BY DEF z
  <1>4. (x = 0 => c = b) /\ (y = 0 => c = a)
    BY <1>3
  <1> HIDE DEF a, b, c
  <1> DEFINE e == c - a - b
  <1>5. e \in Int /\ u * e = u * c - u * a - u * b /\ u * a \in Int /\ u * b \in Int /\ u * c \in Int
    BY <1>2
  <1> HIDE DEF e
  <1>6. 2 * (u * e) <= 3 * u /\ 2 * (u * e) >= -(3 * u)
    BY <1>2, <1>3, <1>5
  <1>7. e <= 1
    <2>1. u * e < u * 1 + u
      BY <1>5, <1>6
    <2> QED BY <1>5, <2>1, Multiples
  <1>8. -1 <= e
    <2>1. u * (-1) < u * e + u
      BY <1>5, <1>6
    <2> QED BY <1>5, <2>1, Multiples
  <1>9. e \in -1 .. 1
    BY <1>5, <1>7, <1>8
  <1>10. x = 0 \/ y = 0 => c = a + b
    BY <1>2, <1>4
  <1> QED BY <1>9, <1>10 DEF e, a, b, c, z

-----------------------------------------------------------------------------
\* Lots of which a part can be sold.
Cuttable(S) ==
    \A x \in S : x.qty \in Nat /\ \A j \in Nat : [x EXCEPT !.qty = j] \in S /\ [x EXCEPT !.qty = j].qty = j

QtyOf(lots) == [k \in DOMAIN lots |-> lots[k].qty]
HeldIn(lots) == SumFunction(QtyOf(lots))

LEMMA HeldEmpty == HeldIn(<< >>) = 0
  <1>1. DOMAIN QtyOf(<< >>) = {}
    BY DEF QtyOf
  <1> QED BY <1>1, SumEmpty DEF HeldIn, SumFunction

LEMMA HeldNat ==
    ASSUME NEW S, Cuttable(S), NEW lots \in Seq(S)
    PROVE  /\ HeldIn(lots) \in Nat /\ HeldIn(lots) = SumFunctionOnSet(QtyOf(lots), 1 .. Len(lots))
           /\ \A k \in 1 .. Len(lots) : QtyOf(lots)[k] \in Nat
  <1>1. DOMAIN QtyOf(lots) = 1 .. Len(lots) /\ \A k \in 1 .. Len(lots) : QtyOf(lots)[k] \in Nat
    <2>1. DOMAIN lots = 1 .. Len(lots) /\ \A k \in 1 .. Len(lots) : lots[k] \in S
      OBVIOUS
    <2>2. \A lot \in S : lot.qty \in Nat
      BY DEF Cuttable
    <2> QED BY <2>1, <2>2 DEF QtyOf
  <1>2. IsFiniteSet(1 .. Len(lots))
    BY FS_Interval
  <1> QED BY <1>1, <1>2, SumNat DEF HeldIn, SumFunction

LEMMA HeldAppend ==
    ASSUME NEW S, Cuttable(S), NEW lots \in Seq(S), NEW lot \in S
    PROVE  Append(lots, lot) \in Seq(S) /\ HeldIn(Append(lots, lot)) = HeldIn(lots) + lot.qty
  <1> DEFINE n == Len(lots)
             more == Append(lots, lot)
  <1>1. n \in Nat /\ more \in Seq(S) /\ Len(more) = n + 1
    OBVIOUS
  <1>2. \A k \in 1 .. n : k \in 1 .. n + 1 /\ QtyOf(more)[k] = QtyOf(lots)[k]
    <2>1. DOMAIN lots = 1 .. n /\ DOMAIN more = 1 .. n + 1
      OBVIOUS
    <2>2. \A k \in 1 .. n : k \in 1 .. n + 1 /\ more[k] = lots[k]
      OBVIOUS
    <2> HIDE DEF n, more
    <2> QED BY <2>1, <2>2 DEF QtyOf
  <1>3. QtyOf(more)[n + 1] = lot.qty
    <2>1. n + 1 \in DOMAIN more /\ more[n + 1] = lot
      OBVIOUS
    <2> HIDE DEF n, more
    <2> QED BY <2>1 DEF QtyOf
  <1>4. \A k \in 1 .. n + 1 : QtyOf(more)[k] \in Int
    <2> HIDE DEF n, more
    <2>1. \A k \in 1 .. n + 1 : QtyOf(more)[k] \in Nat
      BY <1>1, HeldNat
    <2> QED BY <2>1
  <1>5. HeldIn(more) = SumFunctionOnSet(QtyOf(more), 1 .. n + 1)
    <2> HIDE DEF n, more
    <2> QED BY <1>1, HeldNat
  <1>6. HeldIn(lots) = SumFunctionOnSet(QtyOf(lots), 1 .. n) /\ \A k \in 1 .. n : QtyOf(lots)[k] \in Int
    BY HeldNat
  <1>7. HeldIn(lots) \in Int
    BY HeldNat
  <1>8. lot.qty \in Int
    BY DEF Cuttable
  <1> HIDE DEF n, more
  <1>9. IsFiniteSet(1 .. n)
    BY <1>1, FS_Interval
  <1>10. SumFunctionOnSet(QtyOf(more), 1 .. n) = HeldIn(lots)
    BY <1>2, <1>6, <1>9, SumAgree
  <1>11. HeldIn(more) = lot.qty + HeldIn(lots)
    BY <1>1, <1>3, <1>4, <1>5, <1>10, SumUpTo
  <1> QED BY <1>1, <1>7, <1>8, <1>11 DEF more

-----------------------------------------------------------------------------
(* Folds over the lots as runs: one lot after the other. *)

EatAll(base, seq) == FoldLeft(Eat, base, seq)
Eats(run, base, seq, n) ==
    run[0] = base /\ run[n] = EatAll(base, seq) /\ \A k \in 1 .. n : run[k] = Eat(run[k - 1], seq[k])

Matches(run, base, seq, n, price, day, filer, brackets) ==
    /\ run[0] = base /\ run[n] = MatchLots(base, seq, price, day, filer, brackets)
    /\ \A k \in 1 .. n : run[k] = MatchLot(run[k - 1], seq[k], price, day, filer, brackets)

\* Prior sells going through the lots.
LEMMA EatRun ==
    ASSUME NEW base, NEW seq, NEW n \in Nat, DOMAIN seq = 1 .. n
    PROVE  \E run : Eats(run, base, seq, n)
  <1> DEFINE Val(h, s) == IF s = {} THEN base ELSE Eat(h[s \ {Max(s)}], seq[Max(s)])
             Is(m, h) == h = [s \in SUBSET (1 .. m) |-> Val(h, s)]
             P == {m \in Nat : \E h : Is(m, h)}
  <1>1. 0 \in P
    <2>1. SUBSET (1 .. 0) = {{}}
      OBVIOUS
    <2>2. Is(0, [s \in {{}} |-> base])
      BY <2>1
    <2> QED BY <2>2
  <1>2. ASSUME NEW m \in Nat, m \in P PROVE m + 1 \in P
    <2>1. PICK h : h = [s \in SUBSET (1 .. m) |-> Val(h, s)]
      BY <1>2
    <2> DEFINE g == [s \in SUBSET (1 .. m + 1) |->
                       IF m + 1 \in s THEN Eat(h[s \ {m + 1}], seq[m + 1]) ELSE h[s]]
    <2>2. ASSUME NEW s \in SUBSET (1 .. m) PROVE g[s] = h[s]
      BY <1>2
    <2>3. ASSUME NEW s \in SUBSET (1 .. m + 1) PROVE g[s] = Val(g, s)
      <3>1. CASE m + 1 \in s
        <4>1. Max(s) = m + 1 /\ s \ {m + 1} \in SUBSET (1 .. m)
          BY <1>2, <3>1, MaxOfTop
        <4>2. g[s \ {m + 1}] = h[s \ {m + 1}]
          BY <2>2, <4>1
        <4>3. g[s] = Eat(h[s \ {m + 1}], seq[m + 1])
          BY <3>1
        <4> HIDE DEF g
        <4> QED BY <3>1, <4>1, <4>2, <4>3
      <3>2. CASE m + 1 \notin s
        <4>1. s \in SUBSET (1 .. m)
          BY <1>2, <3>2
        <4>2. g[s] = h[s] /\ h[s] = Val(h, s)
          BY <2>1, <2>2, <4>1
        <4>3. s # {} => g[s \ {Max(s)}] = h[s \ {Max(s)}]
          BY <1>2, <2>2, <4>1, MaxIsIn
        <4> HIDE DEF g
        <4> QED BY <4>2, <4>3
      <3> QED BY <3>1, <3>2
    <2>4. g = [s \in SUBSET (1 .. m + 1) |-> Val(g, s)]
      <3>1. [s \in SUBSET (1 .. m + 1) |-> g[s]] = [s \in SUBSET (1 .. m + 1) |-> Val(g, s)]
        <4> HIDE DEF g, Val
        <4> QED BY <2>3
      <3>2. g = [s \in SUBSET (1 .. m + 1) |-> g[s]]
        OBVIOUS
      <3> HIDE DEF g, Val
      <3> QED BY <3>1, <3>2
    <2> HIDE DEF g, Val
    <2>5. Is(m + 1, g)
      BY <2>4
    <2> QED BY <1>2, <2>5
  <1>3. \A m \in Nat : m \in P
    <2> HIDE DEF P
    <2> QED BY <1>1, <1>2, InductionSet
  <1> DEFINE iter == CHOOSE h : Is(n, h)
  <1>4. Is(n, iter)
    <2> HIDE DEF Is
    <2> QED BY <1>3
  <1>5. FoldLeft(Eat, base, seq) = iter[1 .. n]
    BY DEF FoldLeft, MapThenFoldSet
  <1> HIDE DEF iter
  <1>6. \A s \in SUBSET (1 .. n) : iter[s] = Val(iter, s)
    BY <1>4
  <1> DEFINE run == [k \in 0 .. n |-> iter[1 .. k]]
  <1>7. run[0] = base
    <2>1. 1 .. 0 = {} /\ {} \in SUBSET (1 .. n) /\ 0 \in 0 .. n
      OBVIOUS
    <2> QED BY <1>6, <2>1
  <1>8. ASSUME NEW k \in 1 .. n PROVE run[k] = Eat(run[k - 1], seq[k])
    <2>1. k \in 0 .. n /\ k - 1 \in 0 .. n /\ 1 .. k # {} /\ 1 .. k \in SUBSET (1 .. n)
      OBVIOUS
    <2>2. (1 .. k) \ {k} = 1 .. (k - 1)
      OBVIOUS
    <2>3. Max(1 .. k) = k
      <3> DEFINE j == k - 1
      <3>1. j \in Nat /\ j + 1 = k
        OBVIOUS
      <3> HIDE DEF j
      <3>2. 1 .. j + 1 \in SUBSET (1 .. j + 1) /\ j + 1 \in 1 .. j + 1
        BY <3>1
      <3>3. Max(1 .. j + 1) = j + 1
        BY <3>1, <3>2, MaxOfTop
      <3> QED BY <3>1, <3>3
    <2>4. iter[1 .. k] = Eat(iter[1 .. (k - 1)], seq[k])
      BY <1>6, <2>1, <2>2, <2>3
    <2> QED BY <2>1, <2>4
  <1>9. run[n] = EatAll(base, seq)
    BY <1>5 DEF EatAll
  <1> HIDE DEF run
  <1>10. Eats(run, base, seq, n)
    BY <1>7, <1>8, <1>9 DEF Eats
  <1> QED BY <1>10

\* match_fifo going through the lots.
LEMMA MatchRun ==
    ASSUME NEW base, NEW seq, NEW price, NEW day, NEW filer, NEW brackets, NEW n \in Nat, DOMAIN seq = 1 .. n
    PROVE  \E run : Matches(run, base, seq, n, price, day, filer, brackets)
  <1> DEFINE Val(h, s) == IF s = {} THEN base ELSE MatchLot(h[s \ {Max(s)}], seq[Max(s)], price, day, filer, brackets)
             Is(m, h) == h = [s \in SUBSET (1 .. m) |-> Val(h, s)]
             P == {m \in Nat : \E h : Is(m, h)}
  <1>1. 0 \in P
    <2>1. SUBSET (1 .. 0) = {{}}
      OBVIOUS
    <2>2. Is(0, [s \in {{}} |-> base])
      BY <2>1
    <2> QED BY <2>2
  <1>2. ASSUME NEW m \in Nat, m \in P PROVE m + 1 \in P
    <2>1. PICK h : h = [s \in SUBSET (1 .. m) |-> Val(h, s)]
      BY <1>2
    <2> DEFINE g == [s \in SUBSET (1 .. m + 1) |->
                       IF m + 1 \in s THEN MatchLot(h[s \ {m + 1}], seq[m + 1], price, day, filer, brackets) ELSE h[s]]
    <2>2. ASSUME NEW s \in SUBSET (1 .. m) PROVE g[s] = h[s]
      BY <1>2
    <2>3. ASSUME NEW s \in SUBSET (1 .. m + 1) PROVE g[s] = Val(g, s)
      <3>1. CASE m + 1 \in s
        <4>1. Max(s) = m + 1 /\ s \ {m + 1} \in SUBSET (1 .. m)
          BY <1>2, <3>1, MaxOfTop
        <4>2. g[s \ {m + 1}] = h[s \ {m + 1}]
          BY <2>2, <4>1
        <4>3. g[s] = MatchLot(h[s \ {m + 1}], seq[m + 1], price, day, filer, brackets)
          BY <3>1
        <4> HIDE DEF g
        <4> QED BY <3>1, <4>1, <4>2, <4>3
      <3>2. CASE m + 1 \notin s
        <4>1. s \in SUBSET (1 .. m)
          BY <1>2, <3>2
        <4>2. g[s] = h[s] /\ h[s] = Val(h, s)
          BY <2>1, <2>2, <4>1
        <4>3. s # {} => g[s \ {Max(s)}] = h[s \ {Max(s)}]
          BY <1>2, <2>2, <4>1, MaxIsIn
        <4> HIDE DEF g
        <4> QED BY <4>2, <4>3
      <3> QED BY <3>1, <3>2
    <2>4. g = [s \in SUBSET (1 .. m + 1) |-> Val(g, s)]
      <3>1. [s \in SUBSET (1 .. m + 1) |-> g[s]] = [s \in SUBSET (1 .. m + 1) |-> Val(g, s)]
        <4> HIDE DEF g, Val
        <4> QED BY <2>3
      <3>2. g = [s \in SUBSET (1 .. m + 1) |-> g[s]]
        OBVIOUS
      <3> HIDE DEF g, Val
      <3> QED BY <3>1, <3>2
    <2> HIDE DEF g, Val
    <2>5. Is(m + 1, g)
      BY <2>4
    <2> QED BY <1>2, <2>5
  <1>3. \A m \in Nat : m \in P
    <2> HIDE DEF P
    <2> QED BY <1>1, <1>2, InductionSet
  <1> DEFINE iter == CHOOSE h : Is(n, h)
  <1>4. Is(n, iter)
    <2> HIDE DEF Is
    <2> QED BY <1>3
  <1>5. MatchLots(base, seq, price, day, filer, brackets) = iter[1 .. n]
    BY DEF MatchLots, FoldLeft, MapThenFoldSet
  <1> HIDE DEF iter
  <1>6. \A s \in SUBSET (1 .. n) : iter[s] = Val(iter, s)
    BY <1>4
  <1> DEFINE run == [k \in 0 .. n |-> iter[1 .. k]]
  <1>7. run[0] = base
    <2>1. 1 .. 0 = {} /\ {} \in SUBSET (1 .. n) /\ 0 \in 0 .. n
      OBVIOUS
    <2> QED BY <1>6, <2>1
  <1>8. ASSUME NEW k \in 1 .. n PROVE run[k] = MatchLot(run[k - 1], seq[k], price, day, filer, brackets)
    <2>1. k \in 0 .. n /\ k - 1 \in 0 .. n /\ 1 .. k # {} /\ 1 .. k \in SUBSET (1 .. n)
      OBVIOUS
    <2>2. (1 .. k) \ {k} = 1 .. (k - 1)
      OBVIOUS
    <2>3. Max(1 .. k) = k
      <3> DEFINE j == k - 1
      <3>1. j \in Nat /\ j + 1 = k
        OBVIOUS
      <3> HIDE DEF j
      <3>2. 1 .. j + 1 \in SUBSET (1 .. j + 1) /\ j + 1 \in 1 .. j + 1
        BY <3>1
      <3>3. Max(1 .. j + 1) = j + 1
        BY <3>1, <3>2, MaxOfTop
      <3> QED BY <3>1, <3>3
    <2>4. iter[1 .. k] = MatchLot(iter[1 .. (k - 1)], seq[k], price, day, filer, brackets)
      BY <1>6, <2>1, <2>2, <2>3
    <2> QED BY <2>1, <2>4
  <1>9. run[n] = MatchLots(base, seq, price, day, filer, brackets)
    BY <1>5
  <1> HIDE DEF run
  <1>10. Matches(run, base, seq, n, price, day, filer, brackets)
    BY <1>7, <1>8, <1>9 DEF Matches
  <1> QED BY <1>10

(***************************************************************************)
(* match_fifo accepts a sell only when the lots hold its quantity.         *)
(***************************************************************************)
MatchState(m) == m = [c \in {"error", "remaining", "matched", "gain", "cgt"} |-> m[c]]

LEMMA MatchOne ==
    ASSUME NEW m, MatchState(m), NEW lot, lot.qty \in Nat, NEW price, NEW day, NEW filer, NEW brackets,
           m.error = "none" => m.remaining \in Nat
    PROVE  LET res == MatchLot(m, lot, price, day, filer, brackets)
           IN  /\ MatchState(res)
               /\ res.error = "none" => /\ m.error = "none" /\ res.remaining \in Nat
                                        /\ m.remaining <= res.remaining + lot.qty
  <1> DEFINE take == IF lot.qty < m.remaining THEN lot.qty ELSE m.remaining
             gain == (price - lot.price) * take
             rule == find_bracket(brackets, day, filer, day - lot.date)
             res == MatchLot(m, lot, price, day, filer, brackets)
             more == m.cgt + IF gain > 0 THEN Tax(gain, rule.rate) ELSE 0
             newgain == m.gain + HalfUp(gain, Paisa)
  <1>1. res = IF m.error # "none" \/ take <= 0 THEN m
              ELSE IF gain > 0 /\ rule = NoRule THEN [m EXCEPT !.error = "no_rule"]
              ELSE [error |-> "none", remaining |-> m.remaining - take, matched |-> m.matched + 1,
                    gain |-> newgain, cgt |-> more]
    BY DEF MatchLot
  <1>2. m.error = "none" => take \in Nat /\ take <= lot.qty /\ take <= m.remaining /\ m.remaining \in Nat
    OBVIOUS
  <1> HIDE DEF take, gain, rule, res, more, newgain
  <1>3. CASE m.error # "none"
    BY <1>1, <1>3 DEF res
  <1>4. CASE m.error = "none" /\ take <= 0
    <2>1. res = m
      BY <1>1, <1>4
    <2> QED BY <1>2, <1>4, <2>1 DEF res
  <1>5. CASE m.error = "none" /\ ~(take <= 0) /\ gain > 0 /\ rule = NoRule
    <2>1. res = [m EXCEPT !.error = "no_rule"]
      BY <1>1, <1>5
    <2>2. MatchState(res) /\ res.error = "no_rule"
      BY <2>1 DEF MatchState
    <2> QED BY <2>2 DEF res
  <1>6. CASE m.error = "none" /\ ~(take <= 0) /\ ~(gain > 0 /\ rule = NoRule)
    <2> DEFINE count == m.matched + 1
    <2> HIDE DEF count
    <2>1. res = [error |-> "none", remaining |-> m.remaining - take, matched |-> count,
                 gain |-> newgain, cgt |-> more]
      BY <1>1, <1>6 DEF count
    <2>2. MatchState(res) /\ res.remaining = m.remaining - take
      BY <2>1 DEF MatchState
    <2>3. res.remaining \in Nat /\ m.remaining <= res.remaining + lot.qty
      BY <1>2, <1>6, <2>2
    <2> QED BY <1>6, <2>2, <2>3 DEF res
  <1> QED BY <1>3, <1>4, <1>5, <1>6

LEMMA MatchNeeds ==
    ASSUME NEW S, Cuttable(S), NEW seq \in Seq(S), NEW qty \in Nat,
           NEW price, NEW day, NEW filer, NEW brackets
    PROVE  LET m == MatchLots([error |-> "none", remaining |-> qty, matched |-> 0, gain |-> 0, cgt |-> 0], seq,
                              price, day, filer, brackets)
           IN  MatchState(m) /\ (m.error = "none" => m.remaining \in Nat /\ qty <= m.remaining + HeldIn(seq))
  <1> DEFINE base == [error |-> "none", remaining |-> qty, matched |-> 0, gain |-> 0, cgt |-> 0]
             n == Len(seq)
             q == QtyOf(seq)
             sum == [k \in 0 .. n |-> SumFunctionOnSet(q, 1 .. k)]
  <1>1. n \in Nat /\ DOMAIN seq = 1 .. n /\ \A k \in 1 .. n : seq[k] \in S
    OBVIOUS
  <1>2. HeldIn(seq) = SumFunctionOnSet(q, 1 .. n) /\ \A k \in 1 .. n : q[k] \in Nat
    BY HeldNat
  <1>3. \A k \in 1 .. n : q[k] = seq[k].qty
    BY <1>1 DEF QtyOf
  <1>4. MatchState(base) /\ base.error = "none" /\ base.remaining = qty
    BY DEF MatchState
  <1> HIDE DEF base, n, q
  <1>5. sum[0] = 0 /\ sum[n] = HeldIn(seq)
    <2>1. 1 .. 0 = {} /\ 0 \in 0 .. n /\ n \in 0 .. n
      BY <1>1
    <2> QED BY <1>2, <2>1, SumEmpty
  <1>6. ASSUME NEW k \in Nat, k + 1 <= n
        PROVE  sum[k + 1] = q[k + 1] + sum[k] /\ sum[k] \in Int /\ q[k + 1] \in Nat
    <2>1. k \in 0 .. n /\ k + 1 \in 0 .. n /\ k + 1 \in 1 .. n /\ \A j \in 1 .. k + 1 : j \in 1 .. n
      BY <1>1, <1>6
    <2>2. \A j \in 1 .. k + 1 : q[j] \in Int
      BY <1>2, <2>1
    <2>3. /\ SumFunctionOnSet(q, 1 .. k + 1) = q[k + 1] + SumFunctionOnSet(q, 1 .. k)
          /\ SumFunctionOnSet(q, 1 .. k) \in Int
      BY <2>2, SumUpTo
    <2> QED BY <1>2, <2>1, <2>3
  <1> HIDE DEF sum
  <1>7. PICK run : Matches(run, base, seq, n, price, day, filer, brackets)
    BY <1>1, MatchRun
  <1> DEFINE Ok(k) == /\ MatchState(run[k])
                      /\ run[k].error = "none" => run[k].remaining \in Nat /\ qty <= run[k].remaining + sum[k]
             P == {k \in Nat : k <= n => Ok(k)}
  <1>8. 0 \in P
    <2>1. run[0] = base
      BY <1>7 DEF Matches
    <2> QED BY <1>4, <1>5, <2>1
  <1>9. ASSUME NEW k \in Nat, k \in P PROVE k + 1 \in P
    <2> SUFFICES ASSUME k + 1 <= n PROVE Ok(k + 1)
      OBVIOUS
    <2>1. k + 1 \in 1 .. n /\ (k + 1) - 1 = k /\ k <= n
      BY <1>1
    <2>2. Ok(k)
      BY <1>9, <2>1
    <2>3. run[k + 1] = MatchLot(run[k], seq[k + 1], price, day, filer, brackets)
      BY <1>7, <2>1 DEF Matches
    <2>4. q[k + 1] = seq[k + 1].qty /\ seq[k + 1].qty \in Nat
      BY <1>2, <1>3, <2>1
    <2>5. /\ MatchState(run[k + 1])
          /\ run[k + 1].error = "none" => /\ run[k].error = "none" /\ run[k + 1].remaining \in Nat
                                          /\ run[k].remaining <= run[k + 1].remaining + q[k + 1]
      BY <2>2, <2>3, <2>4, MatchOne
    <2>6. sum[k + 1] = q[k + 1] + sum[k] /\ sum[k] \in Int /\ q[k + 1] \in Nat
      BY <1>6
    <2>7. ASSUME run[k + 1].error = "none" PROVE qty <= run[k + 1].remaining + sum[k + 1]
      <3>1. /\ run[k].remaining \in Nat /\ qty <= run[k].remaining + sum[k]
            /\ run[k + 1].remaining \in Nat /\ run[k].remaining <= run[k + 1].remaining + q[k + 1]
        BY <2>2, <2>5, <2>7
      <3> QED BY <2>6, <3>1
    <2> QED BY <2>5, <2>7
  <1>10. Ok(n)
    <2> HIDE DEF Ok
    <2>1. \A k \in Nat : k \in P
      <3> HIDE DEF P
      <3> QED BY <1>8, <1>9, InductionSet
    <2> QED BY <1>1, <2>1
  <1>11. run[n] = MatchLots(base, seq, price, day, filer, brackets)
    BY <1>7 DEF Matches
  <1>12. LET m == MatchLots(base, seq, price, day, filer, brackets)
         IN  MatchState(m) /\ (m.error = "none" => m.remaining \in Nat /\ qty <= m.remaining + HeldIn(seq))
    BY <1>5, <1>10, <1>11
  <1> QED BY <1>12 DEF base

-----------------------------------------------------------------------------
\* Lots that can be ordered by date and id.
Datable(S) == \A x \in S : x.date \in Int /\ x.id \in Int

\* No lot stands before an older one.
InOrder(seq) == \A j, k \in DOMAIN seq : j < k => ~OlderLot(seq[k], seq[j])

\* Sorting the lots permutes them into that order.
LEMMA OldestFirstSorts ==
    ASSUME NEW S, Datable(S), NEW lots \in Seq(S)
    PROVE  /\ OldestFirst(lots) \in Seq(S) /\ InOrder(OldestFirst(lots))
           /\ \E perm : /\ Lists(perm, Len(lots), 1 .. Len(lots))
                         /\ OldestFirst(lots) = [k \in 1 .. Len(lots) |-> lots[perm[k]]]
  <1> DEFINE n == Len(lots)
             K == 1 .. n
             before == [i \in K |-> Ahead(lots, i)]
             perm == [k \in K |-> CHOOSE i \in K : Cardinality(Ahead(lots, i)) = k - 1]
             sorted == OldestFirst(lots)
  <1>1. n \in Nat /\ DOMAIN lots = K /\ \A k \in K : lots[k] \in S
    OBVIOUS
  <1>2. \A k \in K : lots[k].date \in Int /\ lots[k].id \in Int
    BY <1>1 DEF Datable
  <1>5. sorted = [k \in K |-> lots[perm[k]]]
    BY <1>1 DEF OldestFirst
  <1>6. IsFiniteSet(K) /\ Cardinality(K) = n
    <2> HIDE DEF n
    <2>1. 1 \in Int /\ n \in Int /\ (IF 1 > n THEN 0 ELSE n - 1 + 1) = n
      BY <1>1
    <2> QED BY <2>1, FS_Interval
  <1>7. \A i \in K : before[i] = Ahead(lots, i)
    OBVIOUS
  <1>8. Orders(before, K) /\ \A i, j \in K : OlderLot(lots[j], lots[i]) => j \in before[i]
    <2>1. \A i, j \in K : j \in before[i] <=>
            OlderLot(lots[j], lots[i]) \/ (~OlderLot(lots[i], lots[j]) /\ j < i)
      BY <1>1, <1>7 DEF Ahead
    <2>2. \A i \in K : before[i] \in SUBSET K
      BY <1>1, <1>7 DEF Ahead
    <2>3. \A i \in K : i \in Int
      BY <1>1
    <2> HIDE DEF before, K
    <2>4. \A i \in K : i \notin before[i]
      BY <1>2, <2>1, <2>3 DEF OlderLot
    <2>5. \A i, j \in K : i # j => i \in before[j] \/ j \in before[i]
      BY <1>2, <2>1, <2>3 DEF OlderLot
    <2>6. ASSUME NEW i \in K, NEW j \in K, i \in before[j], NEW h \in before[i] PROVE h \in before[j]
      <3>1. h \in K
        BY <2>2, <2>6
      <3> QED BY <1>2, <2>1, <2>3, <2>6, <3>1 DEF OlderLot
    <2> QED BY <1>6, <2>1, <2>2, <2>4, <2>5, <2>6 DEF Orders
  <1>9. Ranks(perm, before, K)
    <2>1. ASSUME NEW k \in K, NEW i \in K, Cardinality(before[i]) = k - 1
          PROVE  perm[k] \in K /\ Cardinality(before[perm[k]]) = k - 1
      <3>1. perm[k] = CHOOSE j \in K : Cardinality(Ahead(lots, j)) = k - 1
        OBVIOUS
      <3> HIDE DEF perm, K
      <3> QED BY <1>7, <2>1, <3>1
    <2>2. DOMAIN perm = 1 .. Cardinality(K)
      BY <1>6
    <2> HIDE DEF perm, before
    <2> QED BY <1>6, <2>1, <2>2 DEF Ranks
  <1> HIDE DEF before, perm, sorted
  <1>10. /\ Lists(perm, n, K)
         /\ \A k \in K : Cardinality(before[perm[k]]) = k - 1
         /\ \A i, j \in K : i \in before[j] => Cardinality(before[i]) < Cardinality(before[j])
    BY <1>6, <1>8, <1>9, RankedLists
  <1>11. \A k \in K : perm[k] \in K
    BY <1>10 DEF Lists
  <1>12. sorted \in Seq(S) /\ DOMAIN sorted = K
    BY <1>1, <1>5, <1>11
  <1>13. ASSUME NEW j \in K, NEW k \in K, j < k, OlderLot(sorted[k], sorted[j]) PROVE FALSE
    <2>1. sorted[k] = lots[perm[k]] /\ sorted[j] = lots[perm[j]] /\ perm[k] \in K /\ perm[j] \in K
      BY <1>5, <1>11, <1>13
    <2>2. Cardinality(before[perm[k]]) < Cardinality(before[perm[j]])
      BY <1>8, <1>10, <1>13, <2>1
    <2>3. Cardinality(before[perm[k]]) = k - 1 /\ Cardinality(before[perm[j]]) = j - 1
      BY <1>10, <1>13
    <2>4. j \in Int /\ k \in Int
      BY <1>1, <1>13
    <2> QED BY <1>13, <2>2, <2>3, <2>4
  <1> QED BY <1>5, <1>10, <1>12, <1>13 DEF sorted, InOrder

\* It neither loses nor makes a share.
LEMMA OldestFirstHeld ==
    ASSUME NEW S, Cuttable(S), Datable(S), NEW lots \in Seq(S)
    PROVE  OldestFirst(lots) \in Seq(S) /\ HeldIn(OldestFirst(lots)) = HeldIn(lots)
  <1> DEFINE n == Len(lots)
             K == 1 .. n
             sorted == OldestFirst(lots)
             q == QtyOf(lots)
  <1>1. n \in Nat /\ DOMAIN lots = K /\ \A k \in K : lots[k] \in S
    OBVIOUS
  <1>2. HeldIn(lots) = SumFunctionOnSet(q, K) /\ \A k \in K : q[k] \in Nat
    BY HeldNat
  <1>3. \A k \in K : q[k] = lots[k].qty
    BY <1>1 DEF QtyOf
  <1>4. sorted \in Seq(S)
    BY OldestFirstSorts
  <1>5. PICK perm : Lists(perm, n, K) /\ sorted = [k \in K |-> lots[perm[k]]]
    BY OldestFirstSorts
  <1> HIDE DEF sorted, q
  <1>6. \A k \in K : perm[k] \in K
    BY <1>5 DEF Lists
  <1>7. Len(sorted) = n
    BY <1>1, <1>4, <1>5
  <1>8. HeldIn(sorted) = SumFunctionOnSet(QtyOf(sorted), K)
    BY <1>4, <1>7, HeldNat
  <1>9. QtyOf(sorted) = [k \in K |-> q[perm[k]]]
    BY <1>3, <1>5, <1>6 DEF QtyOf
  <1>10. SumFunctionOnSet([k \in K |-> q[perm[k]]], K) = SumFunctionOnSet(q, K)
    <2>1. \A k \in K : q[k] \in Int
      BY <1>2
    <2> QED BY <1>5, <2>1, SumListed
  <1> QED BY <1>2, <1>4, <1>8, <1>9, <1>10 DEF sorted

\* It leaves lots alone that are in order.
LEMMA InOrderStays ==
    ASSUME NEW S, Datable(S), NEW lots \in Seq(S), InOrder(lots)
    PROVE  OldestFirst(lots) = lots
  <1> DEFINE n == Len(lots)
             K == 1 .. n
  <1>1. n \in Nat /\ DOMAIN lots = K /\ \A k \in K : lots[k] \in S
    OBVIOUS
  <1>2. ASSUME NEW i \in K PROVE Ahead(lots, i) = 1 .. i - 1
    <2>1. \A j \in K : j \in Ahead(lots, i) <=>
            OlderLot(lots[j], lots[i]) \/ (~OlderLot(lots[i], lots[j]) /\ j < i)
      BY <1>1 DEF Ahead
    <2>2. \A j, k \in K : j < k => ~OlderLot(lots[k], lots[j])
      BY <1>1 DEF InOrder
    <2>3. \A j \in K : ~OlderLot(lots[j], lots[j])
      <3>1. \A j \in K : lots[j].date \in Int /\ lots[j].id \in Int
        BY <1>1 DEF Datable
      <3> QED BY <3>1 DEF OlderLot
    <2>4. \A j \in K : j \in Int
      BY <1>1
    <2>5. Ahead(lots, i) \subseteq K
      BY <1>1 DEF Ahead
    <2>6. \A j : j \in 1 .. i - 1 <=> j \in K /\ j < i
      BY <1>1, <1>2
    <2> HIDE DEF K
    <2>7. \A j \in K : j \in Ahead(lots, i) <=> j < i
      BY <1>2, <2>1, <2>2, <2>3, <2>4
    <2> QED BY <2>5, <2>6, <2>7
  <1>3. \A i \in K : Cardinality(Ahead(lots, i)) = i - 1
    <2>1. ASSUME NEW i \in K PROVE Cardinality(1 .. i - 1) = i - 1
      <3>1. i \in Nat /\ i >= 1
        BY <1>1
      <3>2. 1 \in Int /\ i - 1 \in Int /\ (IF 1 > i - 1 THEN 0 ELSE (i - 1) - 1 + 1) = i - 1
        BY <3>1
      <3> QED BY <3>2, FS_Interval
    <2> QED BY <1>2, <2>1
  <1>4. ASSUME NEW k \in K PROVE (CHOOSE i \in K : Cardinality(Ahead(lots, i)) = k - 1) = k
    <2>1. \A i \in K : Cardinality(Ahead(lots, i)) = k - 1 <=> i = k
      BY <1>1, <1>3
    <2> QED BY <2>1
  <1> DEFINE perm == [k \in K |-> CHOOSE i \in K : Cardinality(Ahead(lots, i)) = k - 1]
  <1>5. OldestFirst(lots) = [k \in K |-> lots[perm[k]]]
    BY <1>1 DEF OldestFirst
  <1>6. \A k \in K : perm[k] = k
    BY <1>4
  <1> HIDE DEF perm
  <1>7. OldestFirst(lots) = [k \in K |-> lots[k]]
    BY <1>5, <1>6
  <1> QED BY <1>1, <1>7

(***************************************************************************)
(* So an accepted sell is covered by the open lots.                        *)
(***************************************************************************)
LEMMA AcceptedIsCovered ==
    ASSUME NEW S, Cuttable(S), Datable(S), NEW lots \in Seq(S), NEW qty \in Nat,
           NEW price, NEW day, NEW filer, NEW brackets,
           match_fifo(lots, qty, price, day, filer, brackets).error = "none"
    PROVE  qty <= HeldIn(lots)
  <1> DEFINE start == [error |-> "none", remaining |-> qty, matched |-> 0, gain |-> 0, cgt |-> 0]
             m == MatchLots(start, OldestFirst(lots), price, day, filer, brackets)
  <1>1. match_fifo(lots, qty, price, day, filer, brackets) =
          IF m.error = "none" /\ m.remaining > 0 THEN [m EXCEPT !.error = "insufficient"] ELSE m
    BY DEF match_fifo
  <1>2. MatchState(m) /\ (m.error = "none" => m.remaining \in Nat /\ qty <= m.remaining + HeldIn(OldestFirst(lots)))
    BY OldestFirstHeld, MatchNeeds
  <1> HIDE DEF m
  <1>3. m.error = "none" /\ ~(m.remaining > 0)
    <2>1. [m EXCEPT !.error = "insufficient"].error = "insufficient"
      BY <1>2 DEF MatchState
    <2> QED BY <1>1, <2>1
  <1>4. HeldIn(OldestFirst(lots)) = HeldIn(lots) /\ HeldIn(lots) \in Nat
    BY OldestFirstHeld, HeldNat
  <1> QED BY <1>2, <1>3, <1>4

\* Prior sells take their quantity off the lots, or all of it.
Eating(S) == [left : Nat, lots : Seq(S)]

LEMMA EatLot ==
    ASSUME NEW S, Cuttable(S), NEW acc \in Eating(S), NEW lot \in S, acc.left = 0 \/ HeldIn(acc.lots) = 0
    PROVE  /\ Eat(acc, lot) \in Eating(S)
           /\ HeldIn(Eat(acc, lot).lots) + acc.left = HeldIn(acc.lots) + lot.qty + Eat(acc, lot).left
           /\ Eat(acc, lot).left = 0 \/ HeldIn(Eat(acc, lot).lots) = 0
  <1> DEFINE take == IF lot.qty < acc.left THEN lot.qty ELSE acc.left
             rest == [lot EXCEPT !.qty = lot.qty - take]
             res == Eat(acc, lot)
             held == HeldIn(acc.lots)
  <1>1. lot.qty \in Nat /\ acc.left \in Nat /\ acc.lots \in Seq(S)
    BY DEF Cuttable, Eating
  <1>2. take \in Nat /\ take <= lot.qty /\ take <= acc.left /\ (take = lot.qty \/ take = acc.left)
    BY <1>1
  <1>3. rest \in S /\ rest.qty = lot.qty - take
    <2> HIDE DEF take
    <2>1. lot.qty - take \in Nat
      BY <1>1, <1>2
    <2> QED BY <2>1 DEF Cuttable
  <1>4. held \in Nat
    BY <1>1, HeldNat
  <1>5. Append(acc.lots, rest) \in Seq(S) /\ HeldIn(Append(acc.lots, rest)) = held + rest.qty
    BY <1>1, <1>3, HeldAppend
  <1>6. res = [left |-> acc.left - take, lots |-> IF take = lot.qty THEN acc.lots ELSE Append(acc.lots, rest)]
    BY DEF Eat
  <1> HIDE DEF take, rest, res
  <1>7. res.left = acc.left - take /\ res.lots = IF take = lot.qty THEN acc.lots ELSE Append(acc.lots, rest)
    BY <1>6
  <1>8. res \in Eating(S)
    <2>1. acc.left - take \in Nat
      BY <1>1, <1>2
    <2>2. (IF take = lot.qty THEN acc.lots ELSE Append(acc.lots, rest)) \in Seq(S)
      BY <1>1, <1>5
    <2> QED BY <1>6, <2>1, <2>2 DEF Eating
  <1>9. HeldIn(res.lots) = held + (lot.qty - take)
    BY <1>1, <1>2, <1>3, <1>4, <1>5, <1>7
  <1> DEFINE after == HeldIn(res.lots)
             left == res.left
  <1>10. after = held + (lot.qty - take) /\ left = acc.left - take /\ (acc.left = 0 \/ held = 0)
    BY <1>7, <1>9
  <1> HIDE DEF after, left, held
  <1>11. after + acc.left = held + lot.qty + left /\ (left = 0 \/ after = 0)
    BY <1>1, <1>2, <1>4, <1>10
  <1> QED BY <1>8, <1>11 DEF after, left, res, held

LEMMA OpenLotsHeld ==
    ASSUME NEW S, Cuttable(S), NEW lots \in Seq(S), NEW sold \in Nat
    PROVE  /\ OpenLots(lots, sold) \in Seq(S)
           /\ HeldIn(OpenLots(lots, sold)) = IF sold < HeldIn(lots) THEN HeldIn(lots) - sold ELSE 0
           /\ EatAll([left |-> sold, lots |-> << >>], lots) \in Eating(S)
           /\ sold <= HeldIn(lots) => EatAll([left |-> sold, lots |-> << >>], lots).left = 0
  <1> DEFINE base == [left |-> sold, lots |-> << >>]
             n == Len(lots)
             q == QtyOf(lots)
             acc == EatAll(base, lots)
  <1>1. n \in Nat /\ DOMAIN lots = 1 .. n /\ \A k \in 1 .. n : lots[k] \in S
    OBVIOUS
  <1>2. /\ HeldIn(lots) \in Nat /\ HeldIn(lots) = SumFunctionOnSet(q, 1 .. n)
        /\ \A k \in 1 .. n : q[k] \in Nat
    BY HeldNat
  <1>3. \A k \in 1 .. n : q[k] = lots[k].qty
    BY <1>1 DEF QtyOf
  <1>4. base \in Eating(S) /\ base.left = sold /\ HeldIn(base.lots) = 0
    BY HeldEmpty DEF Eating
  <1>5. OpenLots(lots, sold) = acc.lots
    BY DEF OpenLots, EatAll
  <1> HIDE DEF base, n, q, acc
  <1>6. PICK run : /\ run[0] = base /\ run[n] = acc
                   /\ \A k \in 1 .. n : run[k] = Eat(run[k - 1], lots[k])
    <2>1. PICK run : Eats(run, base, lots, n)
      BY <1>1, EatRun
    <2> QED BY <2>1 DEF Eats, acc
  <1> DEFINE Ok(k) == /\ run[k] \in Eating(S)
                      /\ run[k].left = 0 \/ HeldIn(run[k].lots) = 0
                      /\ HeldIn(run[k].lots) + sold = SumFunctionOnSet(q, 1 .. k) + run[k].left
             P == {k \in Nat : k <= n => Ok(k)}
  <1>7. 0 \in P
    <2>1. 1 .. 0 = {}
      OBVIOUS
    <2> QED BY <1>4, <1>6, <2>1, SumEmpty
  <1>8. ASSUME NEW k \in Nat, k \in P PROVE k + 1 \in P
    <2> SUFFICES ASSUME k + 1 <= n PROVE Ok(k + 1)
      OBVIOUS
    <2>1. k + 1 \in 1 .. n /\ (k + 1) - 1 = k /\ k <= n
      BY <1>1
    <2>2. Ok(k)
      BY <1>8, <2>1
    <2>3. run[k + 1] = Eat(run[k], lots[k + 1])
      BY <1>6, <2>1
    <2> DEFINE h == HeldIn(run[k].lots)
               hh == HeldIn(run[k + 1].lots)
               r == run[k].left
               rr == run[k + 1].left
               x == q[k + 1]
               sum == SumFunctionOnSet(q, 1 .. k)
               total == SumFunctionOnSet(q, 1 .. k + 1)
    <2>4. lots[k + 1] \in S /\ x = lots[k + 1].qty /\ x \in Int
      BY <1>1, <1>2, <1>3, <2>1
    <2>5. run[k + 1] \in Eating(S) /\ hh + r = h + x + rr /\ (rr = 0 \/ hh = 0)
      <3>1. /\ Eat(run[k], lots[k + 1]) \in Eating(S)
            /\ HeldIn(Eat(run[k], lots[k + 1]).lots) + run[k].left =
                 HeldIn(run[k].lots) + lots[k + 1].qty + Eat(run[k], lots[k + 1]).left
            /\ Eat(run[k], lots[k + 1]).left = 0 \/ HeldIn(Eat(run[k], lots[k + 1]).lots) = 0
        BY <2>2, <2>4, EatLot
      <3> QED BY <2>3, <2>4, <3>1
    <2>6. total = x + sum /\ sum \in Int
      <3>1. \A j \in 1 .. k + 1 : q[j] \in Int
        BY <1>1, <1>2, <2>1
      <3> QED BY <3>1, SumUpTo
    <2>7. r \in Int /\ rr \in Int /\ h \in Int /\ hh \in Int
      <3>1. \A a \in Eating(S) : a.left \in Nat /\ a.lots \in Seq(S)
        BY DEF Eating
      <3>2. \A a \in Eating(S) : HeldIn(a.lots) \in Nat
        BY <3>1, HeldNat
      <3> QED BY <2>2, <2>5, <3>1, <3>2
    <2>8. h + sold = sum + r
      BY <2>2
    <2>9. hh + sold = total + rr
      <3>1. x \in Int /\ hh + r = h + x + rr
        BY <2>4, <2>5
      <3> HIDE DEF h, hh, r, rr, x, sum, total
      <3> QED BY <2>6, <2>7, <2>8, <3>1
    <2> QED BY <2>5, <2>9
  <1>9. Ok(n)
    <2> HIDE DEF Ok
    <2>1. \A k \in Nat : k \in P
      <3> HIDE DEF P
      <3> QED BY <1>7, <1>8, InductionSet
    <2> QED BY <1>1, <2>1
  <1>10. /\ acc \in Eating(S) /\ (acc.left = 0 \/ HeldIn(acc.lots) = 0)
         /\ HeldIn(acc.lots) + sold = HeldIn(lots) + acc.left
    BY <1>2, <1>6, <1>9
  <1>11. acc.lots \in Seq(S) /\ acc.left \in Nat
    BY <1>10 DEF Eating
  <1>12. HeldIn(acc.lots) \in Nat
    BY <1>11, HeldNat
  <1>13. HeldIn(acc.lots) = IF sold < HeldIn(lots) THEN HeldIn(lots) - sold ELSE 0
    BY <1>2, <1>10, <1>11, <1>12
  <1>14. sold <= HeldIn(lots) => acc.left = 0
    BY <1>2, <1>10, <1>11, <1>12
  <1> QED BY <1>5, <1>10, <1>11, <1>13, <1>14 DEF acc, base

-----------------------------------------------------------------------------
\* A part of a lot has its date, its id and its price.
Splits(S) ==
    \A x \in S : \A j \in Nat : /\ [x EXCEPT !.qty = j].date = x.date /\ [x EXCEPT !.qty = j].id = x.id
                             /\ [x EXCEPT !.qty = j].price = x.price /\ x.price \in Int

\* What prior sells leave of lots in order is in order.
LEMMA OpenLotsInOrder ==
    ASSUME NEW S, Cuttable(S), Datable(S), Splits(S), NEW lots \in Seq(S), InOrder(lots), NEW sold \in Nat
    PROVE  InOrder(OpenLots(lots, sold))
  <1> DEFINE base == [left |-> sold, lots |-> << >>]
             n == Len(lots)
             acc == EatAll(base, lots)
  <1>1. n \in Nat /\ DOMAIN lots = 1 .. n /\ \A k \in 1 .. n : lots[k] \in S
    OBVIOUS
  <1>2. base \in Eating(S) /\ base.lots = << >>
    BY DEF Eating
  <1>3. OpenLots(lots, sold) = acc.lots
    BY DEF OpenLots, EatAll
  <1> HIDE DEF base, n, acc
  <1>4. PICK run : /\ run[0] = base /\ run[n] = acc
                   /\ \A k \in 1 .. n : run[k] = Eat(run[k - 1], lots[k])
    <2>1. PICK run : Eats(run, base, lots, n)
      BY <1>1, EatRun
    <2> QED BY <2>1 DEF Eats, acc
  <1> DEFINE From(x, k) == \E j \in 1 .. k : x.date = lots[j].date /\ x.id = lots[j].id
             Ok(k) == /\ run[k] \in Eating(S) /\ InOrder(run[k].lots)
                      /\ \A i \in DOMAIN run[k].lots : From(run[k].lots[i], k)
             P == {k \in Nat : k <= n => Ok(k)}
  <1>5. 0 \in P
    BY <1>2, <1>4 DEF InOrder
  <1>6. ASSUME NEW k \in Nat, k \in P PROVE k + 1 \in P
    <2> SUFFICES ASSUME k + 1 <= n PROVE Ok(k + 1)
      OBVIOUS
    <2>1. k + 1 \in 1 .. n /\ (k + 1) - 1 = k /\ k <= n
      BY <1>1
    <2>2. Ok(k)
      BY <1>6, <2>1
    <2> DEFINE lot == lots[k + 1]
               old == run[k]
               take == IF lot.qty < old.left THEN lot.qty ELSE old.left
               rest == [lot EXCEPT !.qty = lot.qty - take]
    <2>3. run[k + 1] = [left |-> old.left - take, lots |-> IF take = lot.qty THEN old.lots ELSE Append(old.lots, rest)]
      BY <1>4, <2>1 DEF Eat
    <2>4. lot \in S /\ lot.qty \in Nat /\ old.left \in Nat /\ old.lots \in Seq(S)
      BY <1>1, <2>1, <2>2 DEF Cuttable, Eating
    <2>5. take \in Nat /\ old.left - take \in Nat /\ lot.qty - take \in Nat
      BY <2>4
    <2>6. rest \in S /\ rest.date = lot.date /\ rest.id = lot.id
      <3> HIDE DEF take
      <3> QED BY <2>4, <2>5 DEF Cuttable, Splits
    <2>7. /\ InOrder(old.lots) /\ \A i \in DOMAIN old.lots : From(old.lots[i], k)
      BY <2>2
    <2> DEFINE new == run[k + 1].lots
               m == Len(old.lots)
    <2>8. new = IF take = lot.qty THEN old.lots ELSE Append(old.lots, rest)
      BY <2>3
    <2>9. run[k + 1] \in Eating(S)
      <3> HIDE DEF take, rest, old, lot
      <3>1. Append(old.lots, rest) \in Seq(S)
        BY <2>4, <2>6
      <3> QED BY <2>3, <2>4, <2>5, <3>1 DEF Eating
    <2>10. \A x : From(x, k) => From(x, k + 1)
      BY <1>6
    <2>11. CASE take = lot.qty
      <3>1. new = old.lots
        BY <2>8, <2>11
      <3> HIDE DEF From, new, old
      <3>2. InOrder(new) /\ \A i \in DOMAIN new : From(new[i], k + 1)
        BY <2>7, <2>10, <3>1
      <3> QED BY <2>9, <3>2 DEF new
    <2>12. CASE take # lot.qty
      <3>1. new = Append(old.lots, rest)
        BY <2>8, <2>12
      <3> HIDE DEF new, old, rest
      <3>2. /\ m \in Nat /\ DOMAIN old.lots = 1 .. m /\ DOMAIN new = 1 .. m + 1 /\ new[m + 1] = rest
            /\ \A i \in 1 .. m : new[i] = old.lots[i]
        BY <2>4, <3>1
      <3> HIDE DEF m
      <3>3. From(rest, k + 1)
        BY <2>6, <1>6
      <3>4. \A i \in 1 .. m : From(new[i], k)
        BY <2>7, <3>2
      <3>5. \A i \in 1 .. m : ~OlderLot(rest, new[i])
        <4> SUFFICES ASSUME NEW i \in 1 .. m, OlderLot(rest, new[i]) PROVE FALSE
          OBVIOUS
        <4>1. PICK j \in 1 .. k : new[i].date = lots[j].date /\ new[i].id = lots[j].id
          BY <3>4
        <4>2. ~OlderLot(lots[k + 1], lots[j])
          <5>1. j \in DOMAIN lots /\ k + 1 \in DOMAIN lots /\ j < k + 1
            BY <1>1, <1>6, <2>1, <4>1
          <5> QED BY <5>1 DEF InOrder
        <4> QED BY <2>6, <4>1, <4>2 DEF OlderLot
      <3>6. InOrder(new)
        <4> SUFFICES ASSUME NEW i \in 1 .. m + 1, NEW j \in 1 .. m + 1, i < j PROVE ~OlderLot(new[j], new[i])
          BY <3>2 DEF InOrder
        <4>1. i \in 1 .. m
          BY <3>2
        <4>2. CASE j = m + 1
          BY <3>2, <3>5, <4>1, <4>2
        <4>3. CASE j # m + 1
          <5>1. j \in 1 .. m
            BY <3>2, <4>3
          <5>2. new[j] = old.lots[j] /\ new[i] = old.lots[i]
            BY <3>2, <4>1, <5>1
          <5>3. ~OlderLot(old.lots[j], old.lots[i])
            BY <2>7, <3>2, <4>1, <5>1 DEF InOrder
          <5> QED BY <5>2, <5>3
        <4> QED BY <4>2, <4>3
      <3>7. \A i \in DOMAIN new : From(new[i], k + 1)
        <4> HIDE DEF From
        <4>1. \A i \in 1 .. m + 1 : i \in 1 .. m \/ i = m + 1
          BY <3>2
        <4> QED BY <2>10, <3>2, <3>3, <3>4, <4>1
      <3> QED BY <2>9, <3>6, <3>7 DEF new
    <2> QED BY <2>11, <2>12
  <1>7. Ok(n)
    <2> HIDE DEF Ok
    <2>1. \A k \in Nat : k \in P
      <3> HIDE DEF P
      <3> QED BY <1>5, <1>6, InductionSet
    <2> QED BY <1>1, <2>1
  <1> QED BY <1>3, <1>4, <1>7

-----------------------------------------------------------------------------
\* One more lot is matched last.
LEMMA MatchAppend ==
    ASSUME NEW S, NEW seq \in Seq(S), NEW x \in S, NEW base, NEW price, NEW day, NEW filer, NEW brackets
    PROVE  MatchLots(base, Append(seq, x), price, day, filer, brackets) =
             MatchLot(MatchLots(base, seq, price, day, filer, brackets), x, price, day, filer, brackets)
  <1> DEFINE n == Len(seq)
             more == Append(seq, x)
  <1>1. /\ n \in Nat /\ DOMAIN seq = 1 .. n /\ DOMAIN more = 1 .. n + 1 /\ more[n + 1] = x
        /\ \A k \in 1 .. n : more[k] = seq[k]
    OBVIOUS
  <1> HIDE DEF n, more
  <1>2. PICK r : Matches(r, base, seq, n, price, day, filer, brackets)
    BY <1>1, MatchRun
  <1>3. n + 1 \in Nat
    BY <1>1
  <1>4. PICK s : Matches(s, base, more, n + 1, price, day, filer, brackets)
    BY <1>1, <1>3, MatchRun
  <1> DEFINE P == {k \in Nat : k <= n => s[k] = r[k]}
  <1>5. 0 \in P
    BY <1>2, <1>4 DEF Matches
  <1>6. ASSUME NEW k \in Nat, k \in P PROVE k + 1 \in P
    <2> SUFFICES ASSUME k + 1 <= n PROVE s[k + 1] = r[k + 1]
      OBVIOUS
    <2>1. k + 1 \in 1 .. n /\ k + 1 \in 1 .. n + 1 /\ (k + 1) - 1 = k /\ k <= n
      BY <1>1
    <2>2. s[k] = r[k] /\ more[k + 1] = seq[k + 1]
      BY <1>1, <1>6, <2>1
    <2>3. s[k + 1] = MatchLot(s[k], more[k + 1], price, day, filer, brackets)
      BY <1>4, <2>1 DEF Matches
    <2>4. r[k + 1] = MatchLot(r[k], seq[k + 1], price, day, filer, brackets)
      BY <1>2, <2>1 DEF Matches
    <2> QED BY <2>2, <2>3, <2>4
  <1>7. s[n] = r[n]
    <2>1. \A k \in Nat : k \in P
      <3> HIDE DEF P
      <3> QED BY <1>5, <1>6, InductionSet
    <2> QED BY <1>1, <2>1
  <1>8. s[n + 1] = MatchLot(s[n], x, price, day, filer, brackets)
    <2>1. n + 1 \in 1 .. n + 1 /\ (n + 1) - 1 = n
      BY <1>1
    <2> QED BY <1>1, <1>4, <2>1 DEF Matches
  <1>9. /\ s[n + 1] = MatchLots(base, more, price, day, filer, brackets)
        /\ r[n] = MatchLots(base, seq, price, day, filer, brackets)
    BY <1>2, <1>4 DEF Matches
  <1> QED BY <1>7, <1>8, <1>9 DEF more

\* With nothing to match the result is the start.
LEMMA MatchNothing ==
    ASSUME NEW base, NEW price, NEW day, NEW filer, NEW brackets
    PROVE  MatchLots(base, << >>, price, day, filer, brackets) = base
  <1>1. DOMAIN << >> = 1 .. 0 /\ 0 \in Nat
    OBVIOUS
  <1>2. PICK r : Matches(r, base, << >>, 0, price, day, filer, brackets)
    BY <1>1, MatchRun
  <1> QED BY <1>2 DEF Matches

\* What t shares of a lot add to the tax, d being the gain on a share.
Charge(rule, d, t) == IF d * t > 0 THEN Tax(d * t, rule.rate) ELSE 0

\* What they add to the gain.
Gained(d, t) == HalfUp(d * t, Paisa)

\* How many shares a sell takes from a lot.
Taken(m, lot) == IF lot.qty < m.remaining THEN lot.qty ELSE m.remaining

\* A matched sell so far.
Matched(m) ==
    /\ MatchState(m) /\ m.error = "none"
    /\ m.remaining \in Nat /\ m.matched \in Nat /\ m.gain \in Int /\ m.cgt \in Int

\* t shares were taken, at a gain of d each.
Takes(m, new, t, d, rule) ==
    /\ Matched(new) /\ new.remaining = m.remaining - t
    /\ new.matched = m.matched + IF t > 0 THEN 1 ELSE 0
    /\ new.gain = m.gain + Gained(d, t) /\ new.cgt = m.cgt + Charge(rule, d, t)

LEMMA ProductSign ==
    ASSUME NEW d \in Int, NEW t \in Nat
    PROVE  d * t \in Int /\ (d * t > 0 <=> d > 0 /\ t > 0)
  OBVIOUS

\* A rule that taxes has a rate.
Rated(rule) == rule # NoRule => rule.rate \in Nat

LEMMA ChargeInt ==
    ASSUME NEW rule, Rated(rule), NEW d \in Int, NEW t \in Nat, d * t > 0 => rule # NoRule
    PROVE  Charge(rule, d, t) \in Int
  <1>1. CASE d * t > 0
    <2> DEFINE z == (d * t) * rule.rate
               u == 1000 * Paisa
    <2>1. rule.rate \in Nat
      BY <1>1 DEF Rated
    <2>2. z \in Int /\ u \in Nat \ {0}
      BY <2>1, PaisaAssumption
    <2> HIDE DEF z, u
    <2>3. HalfUp(z, u) \in Int
      BY <2>2, HalfUpClose
    <2> QED BY <1>1, <2>3 DEF Charge, Tax, z, u
  <1>2. CASE ~(d * t > 0)
    BY <1>2 DEF Charge
  <1> QED BY <1>1, <1>2

LEMMA GainedInt ==
    ASSUME NEW d \in Int, NEW t \in Nat
    PROVE  Gained(d, t) \in Int /\ (t = 0 => Gained(d, t) = 0)
  <1> DEFINE x == d * t
  <1>1. x \in Int /\ (t = 0 => x = 0) /\ Paisa \in Nat \ {0}
    BY PaisaAssumption
  <1> HIDE DEF x
  <1>2. HalfUp(x, Paisa) \in Int /\ (x = 0 => HalfUp(x, Paisa) = 0)
    BY <1>1, HalfUpClose
  <1> QED BY <1>1, <1>2 DEF Gained, x

\* How match_fifo takes from a lot, and when it finds no rule.
LEMMA MatchTakes ==
    ASSUME NEW m, Matched(m), NEW lot, lot.qty \in Nat, lot.price \in Int, NEW price \in Int,
           NEW day, NEW filer, NEW brackets, Rated(find_bracket(brackets, day, filer, day - lot.date))
    PROVE  LET rule == find_bracket(brackets, day, filer, day - lot.date)
               d == price - lot.price
               t == Taken(m, lot)
               new == MatchLot(m, lot, price, day, filer, brackets)
           IN  /\ t \in Nat
               /\ IF t > 0 /\ d > 0 /\ rule = NoRule THEN MatchState(new) /\ new.error = "no_rule"
                  ELSE Takes(m, new, t, d, rule)
  <1> DEFINE rule == find_bracket(brackets, day, filer, day - lot.date)
             d == price - lot.price
             t == Taken(m, lot)
             new == MatchLot(m, lot, price, day, filer, brackets)
  <1>1. t \in Nat /\ d \in Int /\ Rated(rule)
    BY DEF Taken, Matched
  <1>2. new = IF m.error # "none" \/ t <= 0 THEN m
              ELSE IF d * t > 0 /\ rule = NoRule THEN [m EXCEPT !.error = "no_rule"]
              ELSE [error |-> "none", remaining |-> m.remaining - t, matched |-> m.matched + 1,
                    gain |-> m.gain + Gained(d, t), cgt |-> m.cgt + Charge(rule, d, t)]
    BY DEF MatchLot, Taken, Charge, Gained
  <1>3. m.error = "none" /\ m.remaining \in Nat /\ m.matched \in Nat /\ m.gain \in Int /\ m.cgt \in Int /\ MatchState(m)
    BY DEF Matched
  <1>4. t <= m.remaining
    BY <1>3 DEF Taken
  <1> HIDE DEF rule, d, t, new
  <1>5. d * t \in Int /\ (d * t > 0 <=> d > 0 /\ t > 0)
    BY <1>1, ProductSign
  <1>6. CASE t = 0
    <2>1. new = m /\ d * t = 0
      BY <1>1, <1>2, <1>6
    <2>2. Charge(rule, d, t) = 0 /\ Gained(d, t) = 0
      BY <1>1, <1>6, <2>1, GainedInt DEF Charge
    <2>3. Takes(m, new, t, d, rule)
      BY <1>3, <1>6, <2>1, <2>2 DEF Takes, Matched
    <2> QED BY <1>1, <1>6, <2>3 DEF rule, d, t, new
  <1>7. CASE t > 0 /\ d > 0 /\ rule = NoRule
    <2>1. new = [m EXCEPT !.error = "no_rule"]
      BY <1>1, <1>2, <1>3, <1>5, <1>7
    <2>2. MatchState(new) /\ new.error = "no_rule"
      BY <1>3, <2>1 DEF MatchState
    <2> QED BY <1>1, <1>7, <2>2 DEF rule, d, t, new
  <1>8. CASE t > 0 /\ ~(d > 0 /\ rule = NoRule)
    <2> DEFINE c == Charge(rule, d, t)
               g == Gained(d, t)
    <2>1. new = [error |-> "none", remaining |-> m.remaining - t, matched |-> m.matched + 1,
                 gain |-> m.gain + g, cgt |-> m.cgt + c]
      BY <1>1, <1>2, <1>3, <1>5, <1>8
    <2>2. c \in Int /\ g \in Int
      BY <1>1, <1>5, <1>8, ChargeInt, GainedInt
    <2> HIDE DEF c, g
    <2>3. m.remaining - t \in Nat /\ m.matched + 1 \in Nat /\ m.gain + g \in Int /\ m.cgt + c \in Int
      BY <1>1, <1>3, <1>4, <2>2
    <2>4. MatchState(new) /\ new.error = "none"
      BY <2>1 DEF MatchState
    <2>5. /\ new.remaining = m.remaining - t /\ new.matched = m.matched + 1
          /\ new.gain = m.gain + g /\ new.cgt = m.cgt + c
      BY <2>1
    <2>6. Takes(m, new, t, d, rule)
      BY <1>8, <2>3, <2>4, <2>5 DEF Takes, Matched, c, g
    <2> QED BY <1>1, <1>8, <2>6 DEF rule, d, t, new
  <1> QED BY <1>1, <1>6, <1>7, <1>8

\* Nothing was rounded yet; two figures rounded m and n times are added.
LEMMA RoundedNone == RoundedTimes(0, 0, 0)
  BY PaisaAssumption DEF RoundedTimes

LEMMA RoundedSum ==
    ASSUME NEW a \in Int, NEW b \in Int, NEW x \in Int, NEW y \in Int, NEW m \in Nat, NEW n \in Nat,
           RoundedTimes(a, x, m), RoundedTimes(b, y, n)
    PROVE  RoundedTimes(a + b, x + y, m + n)
  <1> DEFINE pa == Paisa * a
             pb == Paisa * b
             pm == m * Paisa
             pn == n * Paisa
  <1>1. pa \in Int /\ pb \in Int /\ pm \in Int /\ pn \in Int /\ Paisa * (a + b) = pa + pb /\ (m + n) * Paisa = pm + pn
    BY PaisaAssumption
  <1>2. 2 * (pa - x) \in -pm .. pm /\ 2 * (pb - y) \in -pn .. pn
    BY DEF RoundedTimes
  <1> HIDE DEF pa, pb, pm, pn
  <1>3. 2 * ((pa + pb) - (x + y)) \in -(pm + pn) .. (pm + pn)
    BY <1>1, <1>2
  <1> QED BY <1>1, <1>3 DEF RoundedTimes

LEMMA GainedOnce ==
    ASSUME NEW d \in Int, NEW t \in Nat
    PROVE  RoundedTimes(Gained(d, t), d * t, 1)
  <1> DEFINE x == d * t
             h == HalfUp(x, Paisa)
  <1>1. x \in Int /\ Paisa \in Nat \ {0}
    BY PaisaAssumption
  <1> HIDE DEF x
  <1>2. h \in Int /\ 2 * (Paisa * h) - 2 * x \in -Paisa .. Paisa
    BY <1>1, HalfUpClose
  <1> HIDE DEF h
  <1> DEFINE p == Paisa * h
  <1>3. p \in Int /\ 1 * Paisa = Paisa
    BY <1>1, <1>2
  <1> HIDE DEF p
  <1>4. 2 * (p - x) \in -(1 * Paisa) .. 1 * Paisa
    BY <1>1, <1>2, <1>3 DEF p
  <1> QED BY <1>4 DEF RoundedTimes, Gained, p, h, x

\* A sell's gain stays within its roundings when it takes from one more lot.
LEMMA TakesRounds ==
    ASSUME NEW m, Matched(m), NEW new, NEW t \in Nat, NEW d \in Int, NEW rule, Takes(m, new, t, d, rule),
           NEW exact \in Int, RoundedTimes(m.gain, exact, m.matched)
    PROVE  RoundedTimes(new.gain, exact + d * t, new.matched)
  <1> DEFINE g == Gained(d, t)
             x == d * t
  <1>1. m.gain \in Int /\ m.matched \in Nat
    BY DEF Matched
  <1>2. new.matched = m.matched + (IF t > 0 THEN 1 ELSE 0) /\ new.gain = m.gain + g
    BY DEF Takes
  <1>3. g \in Int /\ x \in Int /\ RoundedTimes(g, x, 1) /\ (t = 0 => g = 0 /\ x = 0)
    BY GainedInt, GainedOnce
  <1> HIDE DEF g, x
  <1>4. RoundedTimes(m.gain + g, exact + x, m.matched + 1)
    BY <1>1, <1>3, RoundedSum
  <1>5. CASE t = 0
    <2>1. new.matched = m.matched /\ new.gain = m.gain /\ exact + x = exact
      BY <1>1, <1>2, <1>3, <1>5
    <2> QED BY <2>1 DEF x
  <1>6. CASE t > 0
    BY <1>2, <1>4, <1>6 DEF x
  <1> QED BY <1>5, <1>6

\* Rounding two parts differs from rounding their sum by at most a paisa.
LEMMA ChargeParts ==
    ASSUME NEW rule, Rated(rule), NEW d \in Int, NEW a \in Nat, NEW b \in Nat,
           a + b > 0 /\ d > 0 => rule # NoRule
    PROVE  /\ Charge(rule, d, a + b) - Charge(rule, d, a) - Charge(rule, d, b) \in -1 .. 1
           /\ a = 0 \/ b = 0 => Charge(rule, d, a + b) = Charge(rule, d, a) + Charge(rule, d, b)
  <1>1. d * 0 = 0 /\ Charge(rule, d, 0) = 0
    BY DEF Charge
  <1>2. CASE a = 0 \/ b = 0
    <2>1. d * (a + b) > 0 => rule # NoRule
      <3> DEFINE t == a + b
      <3>1. t \in Nat
        OBVIOUS
      <3> HIDE DEF t
      <3>2. d * t > 0 <=> d > 0 /\ t > 0
        BY <3>1, ProductSign
      <3> QED BY <3>2 DEF t
    <2>2. a + b \in Nat /\ (a = 0 => a + b = b) /\ (b = 0 => a + b = a)
      OBVIOUS
    <2>3. Charge(rule, d, a + b) \in Int
      BY <2>1, <2>2, ChargeInt
    <2> QED BY <1>1, <1>2, <2>2, <2>3
  <1>3. CASE a > 0 /\ b > 0 /\ d > 0
    <2>1. d * a > 0 /\ d * b > 0 /\ d * (a + b) > 0 /\ d * (a + b) = d * a + d * b
      BY <1>3, ProductSign
    <2> DEFINE x == (d * a) * rule.rate
               y == (d * b) * rule.rate
    <2>2. rule.rate \in Nat
      BY <1>3 DEF Rated
    <2>3. x \in Int /\ y \in Int /\ (d * (a + b)) * rule.rate = x + y
      BY <2>1, <2>2
    <2> DEFINE u == 1000 * Paisa
    <2>4. /\ Charge(rule, d, a) = HalfUp(x, u) /\ Charge(rule, d, b) = HalfUp(y, u)
          /\ Charge(rule, d, a + b) = HalfUp(x + y, u) /\ u \in Nat \ {0}
      BY <2>1, <2>3, PaisaAssumption DEF Charge, Tax
    <2> HIDE DEF x, y, u
    <2>5. HalfUp(x + y, u) - HalfUp(x, u) - HalfUp(y, u) \in -1 .. 1
      BY <2>3, <2>4, HalfUpParts
    <2> QED BY <1>3, <2>4, <2>5
  <1>4. CASE ~(d > 0)
    <2>1. ~(d * a > 0) /\ ~(d * b > 0) /\ ~(d * (a + b) > 0)
      BY <1>4, ProductSign
    <2> QED BY <2>1 DEF Charge
  <1> QED BY <1>2, <1>3, <1>4

LEMMA GainedParts ==
    ASSUME NEW d \in Int, NEW a \in Nat, NEW b \in Nat
    PROVE  /\ Gained(d, a + b) - Gained(d, a) - Gained(d, b) \in -1 .. 1
           /\ a = 0 \/ b = 0 => Gained(d, a + b) = Gained(d, a) + Gained(d, b)
  <1> DEFINE x == d * a
             y == d * b
  <1>1. x \in Int /\ y \in Int /\ d * (a + b) = x + y /\ (a = 0 => x = 0) /\ (b = 0 => y = 0)
    OBVIOUS
  <1>2. Gained(d, a) = HalfUp(x, Paisa) /\ Gained(d, b) = HalfUp(y, Paisa) /\ Gained(d, a + b) = HalfUp(x + y, Paisa)
    BY <1>1 DEF Gained
  <1>3. Paisa \in Nat \ {0}
    BY PaisaAssumption
  <1> HIDE DEF x, y
  <1>4. /\ HalfUp(x + y, Paisa) - HalfUp(x, Paisa) - HalfUp(y, Paisa) \in -1 .. 1
        /\ x = 0 \/ y = 0 => HalfUp(x + y, Paisa) = HalfUp(x, Paisa) + HalfUp(y, Paisa)
    BY <1>1, <1>3, HalfUpParts
  <1> QED BY <1>1, <1>2, <1>4

-----------------------------------------------------------------------------
\* A sell of q shares before its first lot.
Start(q) == [error |-> "none", remaining |-> q, matched |-> 0, gain |-> 0, cgt |-> 0]

\* Every lot of S is taxed by a rule with a rate, or by none.
AllRated(S, day, filer, brackets) ==
    \A x \in S : Rated(find_bracket(brackets, day, filer, day - x.date))

\* The whole sell w, its first part f, its second part s of what f left open.
Adds2(w, f, s, left) ==
    w.error = "none" =>
        /\ Matched(w) /\ Matched(f) /\ Matched(s) /\ left = f.remaining
        /\ w.remaining = f.remaining + s.remaining
        /\ w.gain - f.gain - s.gain \in -1 .. 1 /\ w.cgt - f.cgt - s.cgt \in -1 .. 1
        /\ f.remaining > 0 => w.gain = f.gain + s.gain /\ w.cgt = f.cgt + s.cgt

\* One more lot: the first part takes from it, the second from what is left of it.
LEMMA SplitLot ==
    ASSUME NEW S, Cuttable(S), Splits(S), NEW day, NEW filer, NEW brackets, AllRated(S, day, filer, brackets),
           NEW price \in Int, NEW lot \in S, NEW w, NEW f, NEW s, NEW acc \in Eating(S),
           Adds2(w, f, s, acc.left), w.error # "none" => MatchState(w)
    PROVE  LET M(m, x) == MatchLot(m, x, price, day, filer, brackets)
               take == IF lot.qty < acc.left THEN lot.qty ELSE acc.left
               rest == [lot EXCEPT !.qty = lot.qty - take]
           IN  /\ Adds2(M(w, lot), M(f, lot), IF take = lot.qty THEN s ELSE M(s, rest), acc.left - take)
               /\ M(w, lot).error # "none" => MatchState(M(w, lot))
  <1> DEFINE M(m, x) == MatchLot(m, x, price, day, filer, brackets)
             take == IF lot.qty < acc.left THEN lot.qty ELSE acc.left
             rest == [lot EXCEPT !.qty = lot.qty - take]
             new == IF take = lot.qty THEN s ELSE M(s, rest)
             d == price - lot.price
             rule == find_bracket(brackets, day, filer, day - lot.date)
  <1>1. CASE w.error # "none"
    <2>1. M(w, lot) = w
      BY <1>1 DEF MatchLot
    <2> QED BY <1>1, <2>1 DEF Adds2
  <1>2. CASE w.error = "none"
    <2>1. /\ Matched(w) /\ Matched(f) /\ Matched(s) /\ acc.left = f.remaining
          /\ w.remaining = f.remaining + s.remaining
          /\ w.gain - f.gain - s.gain \in -1 .. 1 /\ w.cgt - f.cgt - s.cgt \in -1 .. 1
          /\ f.remaining > 0 => w.gain = f.gain + s.gain /\ w.cgt = f.cgt + s.cgt
      BY <1>2 DEF Adds2
    <2>2. lot.qty \in Nat /\ lot.price \in Int /\ Rated(rule) /\ acc.left \in Nat /\ d \in Int
      BY DEF Cuttable, Splits, AllRated, Eating
    <2>3. take \in Nat /\ take <= lot.qty /\ take = Taken(f, lot)
      BY <2>1, <2>2 DEF Taken
    <2>4. rest \in S /\ rest.qty = lot.qty - take /\ rest.price = lot.price /\ rest.date = lot.date
      <3> HIDE DEF take
      <3>1. lot.qty - take \in Nat
        BY <2>2, <2>3
      <3> QED BY <3>1 DEF Cuttable, Splits
    <2> DEFINE tw == Taken(w, lot)
               more == IF take = lot.qty THEN 0 ELSE Taken(s, rest)
    <2>5. more \in Nat /\ tw = take + more
      <3>1. w.remaining \in Nat /\ f.remaining \in Nat /\ s.remaining \in Nat
        BY <2>1 DEF Matched
      <3> QED BY <2>1, <2>2, <2>3, <2>4, <3>1 DEF Taken
    <2>6. /\ tw \in Nat
          /\ IF tw > 0 /\ d > 0 /\ rule = NoRule THEN MatchState(M(w, lot)) /\ M(w, lot).error = "no_rule"
             ELSE Takes(w, M(w, lot), tw, d, rule)
      BY <2>1, <2>2, MatchTakes
    <2>7. IF take > 0 /\ d > 0 /\ rule = NoRule THEN MatchState(M(f, lot)) /\ M(f, lot).error = "no_rule"
          ELSE Takes(f, M(f, lot), take, d, rule)
      BY <2>1, <2>2, <2>3, MatchTakes
    <2>8. Takes(s, s, 0, d, rule)
      <3>1. d * 0 = 0
        BY <2>2
      <3>2. Charge(rule, d, 0) = 0 /\ Gained(d, 0) = 0
        BY <2>2, <3>1, GainedInt DEF Charge
      <3>3. s.remaining \in Nat /\ s.matched \in Nat /\ s.gain \in Int /\ s.cgt \in Int
        BY <2>1 DEF Matched
      <3> QED BY <2>1, <3>1, <3>2, <3>3 DEF Takes
    <2>9. ASSUME take # lot.qty
          PROVE  IF more > 0 /\ d > 0 /\ rule = NoRule THEN MatchState(new) /\ new.error = "no_rule"
                 ELSE Takes(s, new, more, d, rule)
      <3>1. /\ rest.qty \in Nat /\ rest.price \in Int /\ price - rest.price = d
            /\ find_bracket(brackets, day, filer, day - rest.date) = rule
        BY <2>2, <2>3, <2>4
      <3>2. new = M(s, rest) /\ more = Taken(s, rest)
        BY <2>9
      <3> HIDE DEF new, more, rest, take, rule, d
      <3> QED BY <2>1, <2>2, <3>1, <3>2, MatchTakes
    <2> HIDE DEF M, take, rest, d, rule, tw
    <2>10. CASE tw > 0 /\ d > 0 /\ rule = NoRule
      <3>1. MatchState(M(w, lot)) /\ M(w, lot).error = "no_rule"
        BY <2>6, <2>10
      <3>2. Adds2(M(w, lot), M(f, lot), new, acc.left - take)
        BY <3>1 DEF Adds2
      <3> QED BY <3>1, <3>2 DEF M, take, rest
    <2>11. CASE ~(tw > 0 /\ d > 0 /\ rule = NoRule)
      <3>1. Takes(w, M(w, lot), tw, d, rule)
        BY <2>6, <2>11
      <3>2. Takes(f, M(f, lot), take, d, rule)
        BY <2>3, <2>5, <2>7, <2>11
      <3>3. Takes(s, new, more, d, rule)
        <4>1. CASE take = lot.qty
          BY <2>8, <4>1
        <4>2. CASE take # lot.qty
          <5>1. ~(more > 0 /\ d > 0 /\ rule = NoRule)
            BY <2>3, <2>5, <2>11
          <5> QED BY <2>9, <4>2, <5>1
        <4> QED BY <4>1, <4>2
      <3>4. take < lot.qty => take = acc.left
        BY <2>2 DEF take
      <3>5. take = lot.qty => more = 0
        OBVIOUS
      <3> HIDE DEF more, new
      <3> DEFINE a == M(w, lot)
                 b == M(f, lot)
                 cw == Charge(rule, d, tw)
                 cf == Charge(rule, d, take)
                 cs == Charge(rule, d, more)
                 gw == Gained(d, tw)
                 gf == Gained(d, take)
                 gs == Gained(d, more)
      <3>6. cw - cf - cs \in -1 .. 1 /\ (take = 0 \/ more = 0 => cw = cf + cs)
        <4>1. take + more > 0 /\ d > 0 => rule # NoRule
          BY <2>5, <2>11
        <4> QED BY <2>2, <2>3, <2>5, <4>1, ChargeParts
      <3>7. /\ Matched(a) /\ a.remaining = w.remaining - tw /\ a.gain = w.gain + gw /\ a.cgt = w.cgt + cw
            /\ Matched(b) /\ b.remaining = f.remaining - take /\ b.gain = f.gain + gf /\ b.cgt = f.cgt + cf
            /\ Matched(new) /\ new.remaining = s.remaining - more /\ new.gain = s.gain + gs /\ new.cgt = s.cgt + cs
        BY <3>1, <3>2, <3>3 DEF Takes
      <3>8. /\ gw - gf - gs \in -1 .. 1 /\ (take = 0 \/ more = 0 => gw = gf + gs)
            /\ gw \in Int /\ gf \in Int /\ gs \in Int
        BY <2>2, <2>3, <2>5, <2>6, GainedInt, GainedParts
      <3>9. cf \in Int /\ cs \in Int /\ cw \in Int
        <4>1. /\ d * take > 0 <=> d > 0 /\ take > 0
              /\ d * more > 0 <=> d > 0 /\ more > 0
              /\ d * tw > 0 <=> d > 0 /\ tw > 0
          BY <2>2, <2>3, <2>5, <2>6, ProductSign
        <4>2. /\ d * take > 0 => rule # NoRule
              /\ d * more > 0 => rule # NoRule
              /\ d * tw > 0 => rule # NoRule
          BY <2>3, <2>5, <2>11, <4>1
        <4> QED BY <2>2, <2>3, <2>5, <2>6, <4>2, ChargeInt
      <3>10. /\ w.remaining \in Nat /\ w.gain \in Int /\ w.cgt \in Int
             /\ f.remaining \in Nat /\ f.gain \in Int /\ f.cgt \in Int
             /\ s.remaining \in Nat /\ s.gain \in Int /\ s.cgt \in Int
        BY <2>1 DEF Matched
      <3> HIDE DEF a, b, cw, cf, cs, gw, gf, gs
      <3>11. a.remaining = b.remaining + new.remaining
        BY <2>1, <2>3, <2>5, <3>7, <3>10
      <3>12. a.gain - b.gain - new.gain = (w.gain - f.gain - s.gain) + (gw - gf - gs)
        BY <3>7, <3>8, <3>10
      <3>13. a.cgt - b.cgt - new.cgt = (w.cgt - f.cgt - s.cgt) + (cw - cf - cs)
        BY <3>7, <3>9, <3>10
      <3>14. /\ a.cgt \in Int /\ b.cgt \in Int /\ new.cgt \in Int
             /\ a.gain \in Int /\ b.gain \in Int /\ new.gain \in Int
        BY <3>7, <3>8, <3>9, <3>10
      <3>15. CASE f.remaining > 0
        <4>1. w.cgt - f.cgt - s.cgt = 0 /\ w.gain - f.gain - s.gain = 0
          BY <2>1, <3>10, <3>15
        <4>2. a.cgt - b.cgt - new.cgt = cw - cf - cs /\ a.gain - b.gain - new.gain = gw - gf - gs
          BY <3>8, <3>9, <3>12, <3>13, <4>1
        <4>3. b.remaining > 0 => take = lot.qty
          BY <2>1, <2>2, <2>3, <3>4, <3>7, <3>10
        <4>4. b.remaining > 0 => a.gain = b.gain + new.gain /\ a.cgt = b.cgt + new.cgt
          BY <3>5, <3>6, <3>8, <3>9, <3>14, <4>2, <4>3
        <4>5. a.cgt - b.cgt - new.cgt \in -1 .. 1 /\ a.gain - b.gain - new.gain \in -1 .. 1
          BY <3>6, <3>8, <4>2
        <4>6. Adds2(a, b, new, acc.left - take)
          BY <2>1, <3>7, <3>11, <4>4, <4>5 DEF Adds2
        <4> QED BY <3>7, <4>6 DEF a, b, new, M, take, rest, Matched
      <3>16. CASE f.remaining = 0
        <4>1. take = 0
          BY <2>1, <2>2, <3>16 DEF take
        <4>2. cw - cf - cs = 0 /\ gw - gf - gs = 0
          BY <3>6, <3>8, <3>9, <4>1
        <4>3. a.cgt - b.cgt - new.cgt \in -1 .. 1 /\ a.gain - b.gain - new.gain \in -1 .. 1
          BY <2>1, <3>10, <3>12, <3>13, <4>2
        <4>4. b.remaining = 0
          BY <3>7, <3>16, <4>1
        <4>5. Adds2(a, b, new, acc.left - take)
          BY <2>1, <3>7, <3>11, <4>3, <4>4 DEF Adds2
        <4> QED BY <3>7, <4>5 DEF a, b, new, M, take, rest, Matched
      <3> QED BY <3>10, <3>15, <3>16
    <2> QED BY <2>10, <2>11
  <1> QED BY <1>1, <1>2

LEMMA SplitMatch ==
    ASSUME NEW S, Cuttable(S), Splits(S), NEW day, NEW filer, NEW brackets, AllRated(S, day, filer, brackets),
           NEW price \in Int, NEW seq \in Seq(S), NEW q1 \in Nat, NEW q2 \in Nat
    PROVE  LET w == MatchLots(Start(q1 + q2), seq, price, day, filer, brackets)
           IN  /\ Adds2(w, MatchLots(Start(q1), seq, price, day, filer, brackets),
                        MatchLots(Start(q2), OpenLots(seq, q1), price, day, filer, brackets),
                        EatAll([left |-> q1, lots |-> << >>], seq).left)
               /\ w.error # "none" => MatchState(w)
  <1> DEFINE n == Len(seq)
             base == [left |-> q1, lots |-> << >>]
             Second(open) == MatchLots(Start(q2), open, price, day, filer, brackets)
  <1>1. n \in Nat /\ DOMAIN seq = 1 .. n /\ \A k \in 1 .. n : seq[k] \in S
    OBVIOUS
  <1>2. base \in Eating(S) /\ base.lots = << >> /\ base.left = q1
    BY DEF Eating
  <1>3. OpenLots(seq, q1) = EatAll(base, seq).lots
    BY DEF OpenLots, EatAll
  <1>4. ASSUME NEW q \in Nat
        PROVE  Matched(Start(q)) /\ Start(q).remaining = q /\ Start(q).gain = 0 /\ Start(q).cgt = 0
    BY DEF Matched, MatchState, Start
  <1> HIDE DEF n, base
  <1>5. PICK w : Matches(w, Start(q1 + q2), seq, n, price, day, filer, brackets)
    BY <1>1, MatchRun
  <1>6. PICK f : Matches(f, Start(q1), seq, n, price, day, filer, brackets)
    BY <1>1, MatchRun
  <1>7. PICK e : Eats(e, base, seq, n)
    BY <1>1, EatRun
  <1> DEFINE Ok(k) == /\ e[k] \in Eating(S) /\ Adds2(w[k], f[k], Second(e[k].lots), e[k].left)
                      /\ w[k].error # "none" => MatchState(w[k])
             P == {k \in Nat : k <= n => Ok(k)}
  <1>8. 0 \in P
    <2>1. w[0] = Start(q1 + q2) /\ f[0] = Start(q1) /\ e[0] = base
      BY <1>5, <1>6, <1>7 DEF Matches, Eats
    <2>2. Second(<< >>) = Start(q2)
      BY MatchNothing
    <2>3. q1 + q2 \in Nat
      OBVIOUS
    <2>4. Adds2(Start(q1 + q2), Start(q1), Start(q2), q1)
      <3>1. /\ Matched(Start(q1)) /\ Start(q1).remaining = q1 /\ Start(q1).gain = 0 /\ Start(q1).cgt = 0
            /\ Matched(Start(q2)) /\ Start(q2).remaining = q2 /\ Start(q2).gain = 0 /\ Start(q2).cgt = 0
            /\ Matched(Start(q1 + q2)) /\ Start(q1 + q2).remaining = q1 + q2
            /\ Start(q1 + q2).gain = 0 /\ Start(q1 + q2).cgt = 0
        BY <1>4, <2>3
      <3> QED BY <3>1 DEF Adds2
    <2>5. Start(q1 + q2).error = "none"
      BY DEF Start
    <2>6. Ok(0)
      <3> HIDE DEF Second
      <3> QED BY <1>2, <2>1, <2>2, <2>4, <2>5
    <2> QED BY <2>6
  <1>9. ASSUME NEW k \in Nat, k \in P PROVE k + 1 \in P
    <2> SUFFICES ASSUME k + 1 <= n PROVE Ok(k + 1)
      OBVIOUS
    <2>1. k + 1 \in 1 .. n /\ (k + 1) - 1 = k /\ k <= n
      BY <1>1
    <2>2. Ok(k)
      BY <1>9, <2>1
    <2> DEFINE M(m, x) == MatchLot(m, x, price, day, filer, brackets)
               lot == seq[k + 1]
               acc == e[k]
               take == IF lot.qty < acc.left THEN lot.qty ELSE acc.left
               rest == [lot EXCEPT !.qty = lot.qty - take]
               s == Second(acc.lots)
    <2>3. lot \in S /\ acc \in Eating(S) /\ acc.lots \in Seq(S)
      BY <1>1, <2>1, <2>2 DEF Eating
    <2>4. w[k + 1] = M(w[k], lot) /\ f[k + 1] = M(f[k], lot) /\ e[k + 1] = Eat(acc, lot)
      BY <1>5, <1>6, <1>7, <2>1 DEF Matches, Eats
    <2>5. /\ Adds2(M(w[k], lot), M(f[k], lot), IF take = lot.qty THEN s ELSE M(s, rest), acc.left - take)
          /\ M(w[k], lot).error # "none" => MatchState(M(w[k], lot))
      <3>1. Adds2(w[k], f[k], s, acc.left) /\ (w[k].error # "none" => MatchState(w[k]))
        BY <2>2
      <3> HIDE DEF s, lot, acc
      <3> QED BY <2>3, <3>1, SplitLot
    <2>6. /\ Eat(acc, lot).left = acc.left - take
          /\ Eat(acc, lot).lots = IF take = lot.qty THEN acc.lots ELSE Append(acc.lots, rest)
      BY DEF Eat
    <2>7. rest \in S /\ Eat(acc, lot) \in Eating(S)
      <3>1. lot.qty \in Nat /\ acc.left \in Nat
        BY <2>3 DEF Cuttable, Eating
      <3>2. lot.qty - take \in Nat /\ acc.left - take \in Nat
        BY <3>1
      <3>3. rest \in S
        <4> HIDE DEF take
        <4> QED BY <2>3, <3>2 DEF Cuttable
      <3>4. Append(acc.lots, rest) \in Seq(S)
        BY <2>3, <3>3
      <3>5. Eat(acc, lot) = [left |-> acc.left - take, lots |-> IF take = lot.qty THEN acc.lots ELSE Append(acc.lots, rest)]
        BY DEF Eat
      <3> HIDE DEF take, rest, acc, lot
      <3> QED BY <2>3, <3>2, <3>3, <3>4, <3>5 DEF Eating
    <2>8. Second(Eat(acc, lot).lots) = IF take = lot.qty THEN s ELSE M(s, rest)
      <3>1. Second(Append(acc.lots, rest)) = M(s, rest)
        <4> HIDE DEF rest, acc
        <4> QED BY <2>3, <2>7, MatchAppend
      <3>2. CASE take = lot.qty
        <4>1. Eat(acc, lot).lots = acc.lots
          BY <2>6, <3>2
        <4> HIDE DEF take, rest, lot
        <4> QED BY <3>2, <4>1
      <3>3. CASE take # lot.qty
        <4>1. Eat(acc, lot).lots = Append(acc.lots, rest)
          BY <2>6, <3>3
        <4> HIDE DEF take, rest, lot, Second, M
        <4> QED BY <3>1, <3>3, <4>1
      <3> QED BY <3>2, <3>3
    <2> HIDE DEF Second, take, rest, M, s, lot, acc
    <2>9. Adds2(M(w[k], lot), M(f[k], lot), Second(Eat(acc, lot).lots), Eat(acc, lot).left)
      BY <2>5, <2>6, <2>8
    <2> QED BY <2>4, <2>5, <2>7, <2>9
  <1>10. Ok(n)
    <2> HIDE DEF Ok
    <2>1. \A k \in Nat : k \in P
      <3> HIDE DEF P
      <3> QED BY <1>8, <1>9, InductionSet
    <2> QED BY <1>1, <2>1
  <1>11. /\ w[n] = MatchLots(Start(q1 + q2), seq, price, day, filer, brackets)
         /\ f[n] = MatchLots(Start(q1), seq, price, day, filer, brackets)
         /\ e[n] = EatAll(base, seq)
    BY <1>5, <1>6, <1>7 DEF Matches, Eats
  <1>12. EatAll(base, seq).left = EatAll([left |-> q1, lots |-> << >>], seq).left
    BY DEF base
  <1> QED BY <1>3, <1>10, <1>11, <1>12

-----------------------------------------------------------------------------
\* One more lot is eaten last.
LEMMA EatAppend ==
    ASSUME NEW S, NEW seq \in Seq(S), NEW x \in S, NEW base
    PROVE  EatAll(base, Append(seq, x)) = Eat(EatAll(base, seq), x)
  <1> DEFINE n == Len(seq)
             more == Append(seq, x)
  <1>1. /\ n \in Nat /\ DOMAIN seq = 1 .. n /\ DOMAIN more = 1 .. n + 1 /\ more[n + 1] = x
        /\ \A k \in 1 .. n : more[k] = seq[k]
    OBVIOUS
  <1> HIDE DEF n, more
  <1>2. PICK r : Eats(r, base, seq, n)
    BY <1>1, EatRun
  <1>3. n + 1 \in Nat
    BY <1>1
  <1>4. PICK s : Eats(s, base, more, n + 1)
    BY <1>1, <1>3, EatRun
  <1> DEFINE P == {k \in Nat : k <= n => s[k] = r[k]}
  <1>5. 0 \in P
    BY <1>2, <1>4 DEF Eats
  <1>6. ASSUME NEW k \in Nat, k \in P PROVE k + 1 \in P
    <2> SUFFICES ASSUME k + 1 <= n PROVE s[k + 1] = r[k + 1]
      OBVIOUS
    <2>1. k + 1 \in 1 .. n /\ k + 1 \in 1 .. n + 1 /\ (k + 1) - 1 = k /\ k <= n
      BY <1>1
    <2>2. s[k] = r[k] /\ more[k + 1] = seq[k + 1]
      BY <1>1, <1>6, <2>1
    <2>3. s[k + 1] = Eat(s[k], more[k + 1]) /\ r[k + 1] = Eat(r[k], seq[k + 1])
      BY <1>2, <1>4, <2>1 DEF Eats
    <2> QED BY <2>2, <2>3
  <1>7. s[n] = r[n]
    <2>1. \A k \in Nat : k \in P
      <3> HIDE DEF P
      <3> QED BY <1>5, <1>6, InductionSet
    <2> QED BY <1>1, <2>1
  <1>8. s[n + 1] = Eat(s[n], x)
    <2>1. n + 1 \in 1 .. n + 1 /\ (n + 1) - 1 = n
      BY <1>1
    <2> QED BY <1>1, <1>4, <2>1 DEF Eats
  <1>9. s[n + 1] = EatAll(base, more) /\ r[n] = EatAll(base, seq)
    BY <1>2, <1>4 DEF Eats
  <1> QED BY <1>7, <1>8, <1>9 DEF more

LEMMA EatNothing ==
    ASSUME NEW base
    PROVE  EatAll(base, << >>) = base
  <1>1. DOMAIN << >> = 1 .. 0 /\ 0 \in Nat
    OBVIOUS
  <1>2. PICK r : Eats(r, base, << >>, 0)
    BY <1>1, EatRun
  <1> QED BY <1>2 DEF Eats

\* Cutting a lot twice is cutting it once.
LEMMA CutAgain ==
    ASSUME NEW x, NEW i, NEW j
    PROVE  [[x EXCEPT !.qty = i] EXCEPT !.qty = j] = [x EXCEPT !.qty = j]
  OBVIOUS

\* One lot, eaten at once by all shares, and first by left1 and then, what stays, by left2.
LEMMA EatParts ==
    ASSUME NEW S, Cuttable(S), NEW lot \in S, NEW a, a \in Eating(S), NEW b, b \in Eating(S)
    PROVE  LET both == [left |-> a.left + b.left, lots |-> b.lots]
               rest == [lot EXCEPT !.qty = lot.qty - a.left]
           IN  /\ Eat(a, lot) \in Eating(S)
               /\ IF lot.qty <= a.left
                  THEN /\ Eat(a, lot).lots = a.lots
                       /\ Eat(both, lot) = [left |-> Eat(a, lot).left + b.left, lots |-> b.lots]
                  ELSE /\ Eat(a, lot).lots = Append(a.lots, rest) /\ rest \in S
                       /\ Eat(a, lot).left = 0 /\ Eat(both, lot) = Eat(b, rest)
                       /\ Eat(b, rest) \in Eating(S)
  <1> DEFINE both == [left |-> a.left + b.left, lots |-> b.lots]
             rest == [lot EXCEPT !.qty = lot.qty - a.left]
             q == lot.qty
             x == a.left
             y == b.left
  <1>1. q \in Nat /\ x \in Nat /\ y \in Nat /\ a.lots \in Seq(S) /\ b.lots \in Seq(S)
    BY DEF Cuttable, Eating
  <1>2. both.left = x + y /\ both.lots = b.lots
    OBVIOUS
  <1>3. \A j \in Nat : [lot EXCEPT !.qty = j] \in S /\ [lot EXCEPT !.qty = j].qty = j
    BY DEF Cuttable
  <1>4. CASE q <= x
    <2>1. (IF q < x THEN q ELSE x) = q /\ (IF q < x + y THEN q ELSE x + y) = q
      BY <1>1, <1>4
    <2>2. Eat(a, lot) = [left |-> x - q, lots |-> a.lots] /\ Eat(both, lot) = [left |-> (x + y) - q, lots |-> b.lots]
      BY <1>2, <2>1 DEF Eat
    <2>3. x - q \in Nat /\ (x + y) - q = (x - q) + y
      BY <1>1, <1>4
    <2>4. Eat(a, lot) \in Eating(S)
      BY <1>1, <2>2, <2>3 DEF Eating
    <2> QED BY <1>4, <2>2, <2>3, <2>4
  <1>5. CASE ~(q <= x)
    <2> DEFINE t == IF q - x < y THEN q - x ELSE y
    <2>1. (IF q < x THEN q ELSE x) = x /\ (IF q < x + y THEN q ELSE x + y) = x + t /\ x # q /\ q - x \in Nat
      BY <1>1, <1>5
    <2>2. rest \in S /\ rest.qty = q - x
      BY <1>3, <2>1
    <2>3. Eat(a, lot) = [left |-> x - x, lots |-> Append(a.lots, rest)]
      BY <2>1 DEF Eat
    <2>4. Eat(b, rest) = [left |-> y - t, lots |-> IF t = q - x THEN b.lots
                                                  ELSE Append(b.lots, [rest EXCEPT !.qty = (q - x) - t])]
      BY <2>2 DEF Eat
    <2>5. Eat(both, lot) = [left |-> (x + y) - (x + t), lots |-> IF x + t = q THEN b.lots
                                                  ELSE Append(b.lots, [lot EXCEPT !.qty = q - (x + t)])]
      BY <1>2, <2>1 DEF Eat
    <2>6. t \in Nat /\ y - t \in Nat /\ t <= q - x /\ (x + y) - (x + t) = y - t /\ q - (x + t) = (q - x) - t
          /\ (x + t = q <=> t = q - x) /\ (q - x) - t \in Nat /\ x - x = 0
      BY <1>1, <2>1
    <2>7. [rest EXCEPT !.qty = (q - x) - t] = [lot EXCEPT !.qty = (q - x) - t]
      BY CutAgain
    <2>8. Eat(both, lot) = Eat(b, rest)
      <3> DEFINE u == (q - x) - t
                 v == q - (x + t)
                 l == (x + y) - (x + t)
                 m == y - t
                 cu == [rest EXCEPT !.qty = u]
                 cv == [lot EXCEPT !.qty = v]
      <3>1. u = v /\ l = m /\ (x + t = q <=> t = q - x)
        BY <2>6
      <3>2. cu = cv
        <4>1. [rest EXCEPT !.qty = u] = [lot EXCEPT !.qty = u]
          BY <2>7
        <4> HIDE DEF u, v, rest
        <4> QED BY <3>1, <4>1
      <3>3. Eat(b, rest) = [left |-> m, lots |-> IF t = q - x THEN b.lots ELSE Append(b.lots, cu)]
        BY <2>4
      <3>4. Eat(both, lot) = [left |-> l, lots |-> IF x + t = q THEN b.lots ELSE Append(b.lots, cv)]
        BY <2>5
      <3> HIDE DEF t, rest, both, q, x, y, u, v, l, m, cu, cv
      <3>5. CASE t = q - x
        BY <3>1, <3>3, <3>4, <3>5
      <3>6. CASE t # q - x
        BY <3>1, <3>2, <3>3, <3>4, <3>6
      <3> QED BY <3>5, <3>6
    <2>9. Eat(a, lot) \in Eating(S) /\ Eat(a, lot).left = 0 /\ Eat(a, lot).lots = Append(a.lots, rest)
      <3> HIDE DEF rest, q, x, y
      <3>1. Append(a.lots, rest) \in Seq(S)
        BY <1>1, <2>2
      <3> QED BY <2>3, <2>6, <3>1 DEF Eating
    <2>10. Eat(b, rest) \in Eating(S)
      <3> DEFINE cut == [lot EXCEPT !.qty = (q - x) - t]
      <3>1. cut \in S
        BY <1>3, <2>6
      <3>2. Eat(b, rest) = [left |-> y - t, lots |-> IF t = q - x THEN b.lots ELSE Append(b.lots, cut)]
        BY <2>4, <2>7
      <3> HIDE DEF t, rest, q, x, y, cut
      <3>3. Append(b.lots, cut) \in Seq(S)
        BY <1>1, <3>1
      <3> QED BY <1>1, <2>6, <3>2, <3>3 DEF Eating
    <2> QED BY <1>5, <2>2, <2>8, <2>9, <2>10
  <1> QED BY <1>4, <1>5

(***************************************************************************)
(* Selling a shares and then b shares leaves what selling a + b leaves.    *)
(***************************************************************************)
LEMMA EatTwice ==
    ASSUME NEW S, Cuttable(S), NEW seq \in Seq(S), NEW a \in Nat, NEW b \in Nat
    PROVE  OpenLots(OpenLots(seq, a), b) = OpenLots(seq, a + b)
  <1> DEFINE n == Len(seq)
             From(q) == [left |-> q, lots |-> << >>]
             Second(open) == EatAll(From(b), open)
  <1>1. n \in Nat /\ DOMAIN seq = 1 .. n /\ \A k \in 1 .. n : seq[k] \in S
    OBVIOUS
  <1>2. From(a) \in Eating(S) /\ From(b) \in Eating(S) /\ From(a).lots = << >> /\ From(a).left = a
    BY DEF Eating
  <1>3. \A open, q : OpenLots(open, q) = EatAll(From(q), open).lots
    BY DEF OpenLots, EatAll
  <1> HIDE DEF n
  <1>4. PICK f : Eats(f, From(a), seq, n)
    BY <1>1, EatRun
  <1>5. PICK w : Eats(w, From(a + b), seq, n)
    BY <1>1, EatRun
  <1> DEFINE Ok(k) == /\ f[k] \in Eating(S) /\ Second(f[k].lots) \in Eating(S)
                      /\ w[k] = [left |-> f[k].left + Second(f[k].lots).left, lots |-> Second(f[k].lots).lots]
             P == {k \in Nat : k <= n => Ok(k)}
  <1>6. 0 \in P
    <2>1. f[0] = From(a) /\ w[0] = From(a + b)
      BY <1>4, <1>5 DEF Eats
    <2>2. Second(<< >>) = From(b)
      BY EatNothing
    <2>3. From(b).left = b /\ From(b).lots = << >>
      OBVIOUS
    <2>4. Ok(0)
      <3>1. f[0].left = a /\ f[0].lots = << >>
        BY <1>2, <2>1
      <3>2. Second(f[0].lots) = From(b)
        BY <2>2, <3>1
      <3>3. w[0] = [left |-> a + b, lots |-> << >>]
        BY <2>1
      <3> HIDE DEF Second, From
      <3> QED BY <1>2, <2>1, <2>3, <3>1, <3>2, <3>3
    <2> QED BY <2>4
  <1>7. ASSUME NEW k \in Nat, k \in P PROVE k + 1 \in P
    <2> SUFFICES ASSUME k + 1 <= n PROVE Ok(k + 1)
      OBVIOUS
    <2>1. k + 1 \in 1 .. n /\ (k + 1) - 1 = k /\ k <= n
      BY <1>1
    <2>2. Ok(k)
      BY <1>7, <2>1
    <2> DEFINE lot == seq[k + 1]
               x == f[k]
               y == Second(x.lots)
               both == [left |-> x.left + y.left, lots |-> y.lots]
               rest == [lot EXCEPT !.qty = lot.qty - x.left]
    <2>3. f[k + 1] = Eat(x, lot) /\ w[k + 1] = Eat(both, lot)
      <3>1. f[k + 1] = Eat(f[k], seq[k + 1]) /\ w[k + 1] = Eat(w[k], seq[k + 1])
        BY <1>4, <1>5, <2>1 DEF Eats
      <3>2. w[k] = both
        BY <2>2
      <3> QED BY <3>1, <3>2
    <2>4. lot \in S /\ x \in Eating(S) /\ y \in Eating(S)
      BY <1>1, <2>1, <2>2
    <2>5. x.lots \in Seq(S)
      BY <2>4 DEF Eating
    <2> HIDE DEF x, y, lot, Second
    <2>6. /\ Eat(x, lot) \in Eating(S)
          /\ IF lot.qty <= x.left
             THEN /\ Eat(x, lot).lots = x.lots
                  /\ Eat(both, lot) = [left |-> Eat(x, lot).left + y.left, lots |-> y.lots]
             ELSE /\ Eat(x, lot).lots = Append(x.lots, rest) /\ rest \in S
                  /\ Eat(x, lot).left = 0 /\ Eat(both, lot) = Eat(y, rest)
                  /\ Eat(y, rest) \in Eating(S)
      BY <2>4, EatParts
    <2> HIDE DEF both, rest
    <2>7. CASE lot.qty <= x.left
      <3>1. f[k + 1].lots = x.lots
        BY <2>3, <2>6, <2>7
      <3>2. Second(f[k + 1].lots) = y
        BY <3>1 DEF y
      <3> QED BY <2>3, <2>4, <2>6, <2>7, <3>2
    <2>8. CASE ~(lot.qty <= x.left)
      <3>1. f[k + 1].lots = Append(x.lots, rest) /\ f[k + 1].left = 0
        BY <2>3, <2>6, <2>8
      <3>2. Second(Append(x.lots, rest)) = Eat(Second(x.lots), rest)
        BY <2>5, <2>6, <2>8, EatAppend DEF Second
      <3>3. Second(f[k + 1].lots) = Eat(y, rest)
        BY <3>1, <3>2 DEF y
      <3>4. Eat(y, rest) \in Eating(S) /\ w[k + 1] = Eat(y, rest)
        BY <2>3, <2>6, <2>8
      <3>5. \A z \in Eating(S) : z = [left |-> 0 + z.left, lots |-> z.lots]
        BY DEF Eating
      <3>6. w[k + 1] = [left |-> 0 + Eat(y, rest).left, lots |-> Eat(y, rest).lots]
        BY <3>4, <3>5
      <3>7. Ok(k + 1)
        BY <2>3, <2>6, <3>1, <3>3, <3>4, <3>6
      <3> QED BY <3>7
    <2> QED BY <2>7, <2>8
  <1>8. Ok(n)
    <2> HIDE DEF Ok
    <2>1. \A k \in Nat : k \in P
      <3> HIDE DEF P
      <3> QED BY <1>6, <1>7, InductionSet
    <2> QED BY <1>1, <2>1
  <1>9. f[n] = EatAll(From(a), seq) /\ w[n] = EatAll(From(a + b), seq)
    BY <1>4, <1>5 DEF Eats
  <1>10. w[n].lots = Second(f[n].lots).lots
    BY <1>8
  <1> HIDE DEF From
  <1> QED BY <1>3, <1>9, <1>10

\* A lot that prior sells do not reach stays as it is, behind the others.
LEMMA OpenAppend ==
    ASSUME NEW S, Cuttable(S), NEW seq \in Seq(S), NEW x \in S, x.qty > 0, [x EXCEPT !.qty = x.qty] = x,
           NEW sold \in Nat, sold <= HeldIn(seq)
    PROVE  OpenLots(Append(seq, x), sold) = Append(OpenLots(seq, sold), x)
  <1> DEFINE base == [left |-> sold, lots |-> << >>]
             acc == EatAll(base, seq)
  <1>1. acc \in Eating(S) /\ acc.left = 0
    BY OpenLotsHeld
  <1>2. \A lots : OpenLots(lots, sold) = EatAll(base, lots).lots
    BY DEF OpenLots, EatAll
  <1>3. EatAll(base, Append(seq, x)) = Eat(acc, x)
    BY EatAppend
  <1> HIDE DEF base, acc
  <1>4. x.qty \in Nat /\ ~(x.qty < 0) /\ x.qty - 0 = x.qty /\ x.qty # 0
    BY DEF Cuttable
  <1>5. Eat(acc, x).lots = Append(acc.lots, x)
    <2>1. (IF x.qty < acc.left THEN x.qty ELSE acc.left) = 0
      BY <1>1, <1>4
    <2>2. Eat(acc, x).lots = IF 0 = x.qty THEN acc.lots ELSE Append(acc.lots, [x EXCEPT !.qty = x.qty - 0])
      BY <2>1 DEF Eat
    <2> QED BY <1>4, <2>2
  <1> QED BY <1>2, <1>3, <1>5 DEF acc

-----------------------------------------------------------------------------
\* The seeded row that taxes a lot held so many days when it is sold on day.
Rule(day, filer, held) ==
    IF day > 730 THEN IF filer THEN 11 ELSE 12
    ELSE IF held <= 365 THEN IF filer THEN 1 ELSE 6
    ELSE IF held <= 730 THEN IF filer THEN 2 ELSE 7
    ELSE IF held <= 1095 THEN IF filer THEN 3 ELSE 8
    ELSE IF held <= 1460 THEN IF filer THEN 4 ELSE 9
    ELSE IF filer THEN 5 ELSE 10

LEMMA SeededRows ==
    /\ SeedBrackets[1] = Bracket(0, 730, TRUE, 0, 365, 150)
    /\ SeedBrackets[2] = Bracket(0, 730, TRUE, 366, 730, 125)
    /\ SeedBrackets[3] = Bracket(0, 730, TRUE, 731, 1095, 100)
    /\ SeedBrackets[4] = Bracket(0, 730, TRUE, 1096, 1460, 75)
    /\ SeedBrackets[5] = Bracket(0, 730, TRUE, 1461, Open, 0)
    /\ SeedBrackets[6] = Bracket(0, 730, FALSE, 0, 365, 300)
    /\ SeedBrackets[7] = Bracket(0, 730, FALSE, 366, 730, 250)
    /\ SeedBrackets[8] = Bracket(0, 730, FALSE, 731, 1095, 200)
    /\ SeedBrackets[9] = Bracket(0, 730, FALSE, 1096, 1460, 150)
    /\ SeedBrackets[10] = Bracket(0, 730, FALSE, 1461, Open, 0)
    /\ SeedBrackets[11] = Bracket(731, Open, TRUE, 0, Open, 150)
    /\ SeedBrackets[12] = Bracket(731, Open, FALSE, 0, Open, 450)
  BY DEF SeedBrackets

LEMMA SeededRules ==
    ASSUME NEW day \in Int, NEW filer \in BOOLEAN, NEW held \in Int, NEW k \in 1 .. 12
    PROVE  bracket_matches(SeedBrackets[k], day, filer, held) <=> day >= 0 /\ held >= 0 /\ k = Rule(day, filer, held)
  <1> DEFINE Right(j) == /\ bracket_matches(SeedBrackets[j], day, TRUE, held) <=> day >= 0 /\ held >= 0 /\ j = Rule(day, TRUE, held)
                         /\ bracket_matches(SeedBrackets[j], day, FALSE, held) <=> day >= 0 /\ held >= 0 /\ j = Rule(day, FALSE, held)
  <1>1. Right(1)
    BY SeededRows DEF bracket_matches, Bracket, Open, Rule
  <1>2. Right(2)
    BY SeededRows DEF bracket_matches, Bracket, Open, Rule
  <1>3. Right(3)
    BY SeededRows DEF bracket_matches, Bracket, Open, Rule
  <1>4. Right(4)
    BY SeededRows DEF bracket_matches, Bracket, Open, Rule
  <1>5. Right(5)
    BY SeededRows DEF bracket_matches, Bracket, Open, Rule
  <1>6. Right(6)
    BY SeededRows DEF bracket_matches, Bracket, Open, Rule
  <1>7. Right(7)
    BY SeededRows DEF bracket_matches, Bracket, Open, Rule
  <1>8. Right(8)
    BY SeededRows DEF bracket_matches, Bracket, Open, Rule
  <1>9. Right(9)
    BY SeededRows DEF bracket_matches, Bracket, Open, Rule
  <1>10. Right(10)
    BY SeededRows DEF bracket_matches, Bracket, Open, Rule
  <1>11. Right(11)
    BY SeededRows DEF bracket_matches, Bracket, Open, Rule
  <1>12. Right(12)
    BY SeededRows DEF bracket_matches, Bracket, Open, Rule
  <1> HIDE DEF Right
  <1>13. Right(k)
    BY <1>1, <1>2, <1>3, <1>4, <1>5, <1>6, <1>7, <1>8, <1>9, <1>10, <1>11, <1>12
  <1>14. CASE filer = TRUE
    BY <1>13, <1>14 DEF Right
  <1>15. CASE filer = FALSE
    BY <1>13, <1>15 DEF Right
  <1> QED BY <1>14, <1>15

(***************************************************************************)
(* find_bracket returns that row, and none before 2022-07-01 or for a lot  *)
(* dated after the sell.                                                   *)
(***************************************************************************)
LEMMA SeededFound ==
    ASSUME NEW day \in Int, NEW filer \in BOOLEAN, NEW held \in Int
    PROVE  /\ find_bracket(SeedBrackets, day, filer, held) =
                IF day >= 0 /\ held >= 0 THEN SeedBrackets[Rule(day, filer, held)] ELSE NoRule
           /\ Rule(day, filer, held) \in 1 .. 12
           /\ \A k \in 1 .. 12 : SeedBrackets[k].rate \in Nat
  <1> DEFINE r == Rule(day, filer, held)
             fit == {k \in DOMAIN SeedBrackets : bracket_matches(SeedBrackets[k], day, filer, held)}
             Best(k) == \A j \in fit : /\ MoreSpecific(SeedBrackets[k], SeedBrackets[j])
                                       /\ MoreSpecific(SeedBrackets[j], SeedBrackets[k]) => k <= j
  <1>1. DOMAIN SeedBrackets = 1 .. 12
    BY DEF SeedBrackets
  <1>2. r \in 1 .. 12
    BY DEF Rule
  <1>3. fit = IF day >= 0 /\ held >= 0 THEN {r} ELSE {}
    <2>1. \A k \in 1 .. 12 : bracket_matches(SeedBrackets[k], day, filer, held) <=> day >= 0 /\ held >= 0 /\ k = r
      BY SeededRules
    <2> HIDE DEF r
    <2> QED BY <1>1, <1>2, <2>1
  <1>4. find_bracket(SeedBrackets, day, filer, held) =
          IF fit = {} THEN NoRule ELSE SeedBrackets[CHOOSE k \in fit : Best(k)]
    BY DEF find_bracket
  <1>5. \A k \in 1 .. 12 : SeedBrackets[k].rate \in Nat /\ MoreSpecific(SeedBrackets[k], SeedBrackets[k])
    <2> DEFINE Fine(k) == SeedBrackets[k].rate \in Nat /\ MoreSpecific(SeedBrackets[k], SeedBrackets[k])
    <2>1. Fine(1) /\ Fine(2) /\ Fine(3) /\ Fine(4)
      BY SeededRows DEF MoreSpecific, Span, Bracket, Open
    <2>2. Fine(5) /\ Fine(6) /\ Fine(7) /\ Fine(8)
      BY SeededRows DEF MoreSpecific, Span, Bracket, Open
    <2>3. Fine(9) /\ Fine(10) /\ Fine(11) /\ Fine(12)
      BY SeededRows DEF MoreSpecific, Span, Bracket, Open
    <2> HIDE DEF Fine
    <2>4. \A k \in 1 .. 12 : Fine(k)
      BY <2>1, <2>2, <2>3
    <2> QED BY <2>4 DEF Fine
  <1>6. CASE day >= 0 /\ held >= 0
    <2>1. fit = {r}
      BY <1>3, <1>6
    <2>2. Best(r)
      <3> HIDE DEF fit, r
      <3>1. r <= r
        BY <1>2
      <3> QED BY <1>2, <1>5, <2>1, <3>1
    <2> HIDE DEF Best, fit, r
    <2>3. (CHOOSE k \in fit : Best(k)) = r
      BY <2>1, <2>2
    <2>4. find_bracket(SeedBrackets, day, filer, held) = SeedBrackets[r]
      BY <1>4, <2>1, <2>3
    <2> QED BY <1>2, <1>5, <1>6, <2>4 DEF r
  <1>7. CASE ~(day >= 0 /\ held >= 0)
    <2>1. fit = {}
      BY <1>3, <1>7
    <2> HIDE DEF fit
    <2> QED BY <1>2, <1>4, <1>5, <1>7, <2>1
  <1> QED BY <1>6, <1>7

LEMMA SeededRated ==
    ASSUME NEW day \in Int, NEW filer \in BOOLEAN, NEW held \in Int
    PROVE  Rated(find_bracket(SeedBrackets, day, filer, held))
  BY SeededFound DEF Rated

\* A filer has a rule when a non-filer has one, and pays no higher rate.
LEMMA FilersPayLess ==
    ASSUME NEW day \in Int, NEW held \in Int
    PROVE  LET a == find_bracket(SeedBrackets, day, TRUE, held)
               b == find_bracket(SeedBrackets, day, FALSE, held)
           IN  /\ a = NoRule <=> b = NoRule
               /\ a # NoRule => a.rate \in Nat /\ b.rate \in Nat /\ a.rate <= b.rate
  <1> DEFINE a == find_bracket(SeedBrackets, day, TRUE, held)
             b == find_bracket(SeedBrackets, day, FALSE, held)
             i == Rule(day, TRUE, held)
             j == Rule(day, FALSE, held)
  <1>1. TRUE \in BOOLEAN /\ FALSE \in BOOLEAN
    OBVIOUS
  <1>2. /\ a = IF day >= 0 /\ held >= 0 THEN SeedBrackets[i] ELSE NoRule
        /\ b = IF day >= 0 /\ held >= 0 THEN SeedBrackets[j] ELSE NoRule
        /\ SeedBrackets[i].rate \in Nat /\ SeedBrackets[j].rate \in Nat
    BY <1>1, SeededFound
  <1>3. <<i, j>> \in {<<1, 6>>, <<2, 7>>, <<3, 8>>, <<4, 9>>, <<5, 10>>, <<11, 12>>}
    BY DEF Rule
  <1>4. SeedBrackets[i].rate <= SeedBrackets[j].rate
    <2> DEFINE Less(p, q) == SeedBrackets[p].rate <= SeedBrackets[q].rate
    <2>1. Less(1, 6) /\ Less(2, 7) /\ Less(3, 8) /\ Less(4, 9) /\ Less(5, 10) /\ Less(11, 12)
      BY SeededRows DEF Bracket
    <2>2. Less(i, j)
      <3> HIDE DEF Less, i, j
      <3> QED BY <1>3, <2>1
    <2> QED BY <2>2
  <1>5. NoRule.rate = -1
    BY DEF NoRule
  <1> HIDE DEF a, b, i, j
  <1>6. (a = NoRule <=> b = NoRule) /\ (a # NoRule => a.rate \in Nat /\ b.rate \in Nat /\ a.rate <= b.rate)
    BY <1>2, <1>4, <1>5
  <1> QED BY <1>6 DEF a, b

LEMMA TaxGrows ==
    ASSUME NEW gain \in Nat, NEW a \in Nat, NEW b \in Nat, a <= b
    PROVE  Tax(gain, a) \in Nat /\ Tax(gain, b) \in Nat /\ Tax(gain, a) <= Tax(gain, b)
  <1> DEFINE x == gain * a
             y == gain * b
  <1>1. x \in Nat /\ y \in Nat /\ x <= y
    OBVIOUS
  <1> DEFINE u == 1000 * Paisa
  <1>2. u \in Nat \ {0}
    BY PaisaAssumption
  <1> HIDE DEF x, y, u
  <1>3. HalfUp(x, u) \in Nat /\ HalfUp(y, u) \in Nat /\ HalfUp(x, u) <= HalfUp(y, u)
    BY <1>1, <1>2, HalfUpGrows
  <1> QED BY <1>3 DEF Tax, x, y, u

-----------------------------------------------------------------------------
(***************************************************************************)
(* One sell matched for a filer (f) and for a non-filer (g): it succeeds   *)
(* for both or for neither, at the same gain, and the filer pays no more.  *)
(***************************************************************************)
Beside(f, g) ==
    /\ MatchState(f) /\ MatchState(g) /\ f.error = g.error
    /\ f.remaining = g.remaining /\ f.remaining \in Nat /\ f.gain = g.gain /\ f.gain \in Int
    /\ f.matched = g.matched /\ f.matched \in Nat
    /\ f.cgt \in Nat /\ g.cgt \in Nat /\ f.cgt <= g.cgt

Taxable(x) == x.qty \in Nat /\ x.price \in Int /\ x.date \in Int

LEMMA BesideLot ==
    ASSUME NEW f, NEW g, Beside(f, g), NEW lot, Taxable(lot), NEW price \in Int, NEW day \in Int
    PROVE  LET a == MatchLot(f, lot, price, day, TRUE, SeedBrackets)
               b == MatchLot(g, lot, price, day, FALSE, SeedBrackets)
           IN  Beside(a, b) /\ (a.error = f.error \/ a.error = "no_rule")
  <1> DEFINE take == IF lot.qty < f.remaining THEN lot.qty ELSE f.remaining
             gain == (price - lot.price) * take
             held == day - lot.date
             ra == find_bracket(SeedBrackets, day, TRUE, held)
             rb == find_bracket(SeedBrackets, day, FALSE, held)
             ta == IF gain > 0 THEN Tax(gain, ra.rate) ELSE 0
             tb == IF gain > 0 THEN Tax(gain, rb.rate) ELSE 0
             more == HalfUp(gain, Paisa)
             a == MatchLot(f, lot, price, day, TRUE, SeedBrackets)
             b == MatchLot(g, lot, price, day, FALSE, SeedBrackets)
  <1>1. /\ MatchState(f) /\ MatchState(g) /\ f.error = g.error
        /\ f.remaining = g.remaining /\ f.remaining \in Nat /\ f.gain = g.gain /\ f.gain \in Int
        /\ f.matched = g.matched /\ f.matched \in Nat
        /\ f.cgt \in Nat /\ g.cgt \in Nat /\ f.cgt <= g.cgt
    BY DEF Beside
  <1>2. lot.qty \in Nat /\ lot.price \in Int /\ held \in Int /\ price - lot.price \in Int
    BY DEF Taxable
  <1>3. /\ a = IF f.error # "none" \/ take <= 0 THEN f
                ELSE IF gain > 0 /\ ra = NoRule THEN [f EXCEPT !.error = "no_rule"]
                ELSE [error |-> "none", remaining |-> f.remaining - take, matched |-> f.matched + 1,
                      gain |-> f.gain + more, cgt |-> f.cgt + ta]
        /\ b = IF g.error # "none" \/ take <= 0 THEN g
                ELSE IF gain > 0 /\ rb = NoRule THEN [g EXCEPT !.error = "no_rule"]
                ELSE [error |-> "none", remaining |-> g.remaining - take, matched |-> g.matched + 1,
                      gain |-> g.gain + more, cgt |-> g.cgt + tb]
    BY <1>1 DEF MatchLot
  <1>4. take \in Nat /\ take <= f.remaining
    BY <1>1, <1>2
  <1>5. gain \in Int /\ more \in Int
    <2> DEFINE d == price - lot.price
    <2>1. d \in Int
      BY <1>2
    <2> HIDE DEF d, take
    <2>2. d * take \in Int
      BY <1>4, <2>1
    <2>3. gain \in Int
      BY <2>2 DEF d
    <2> HIDE DEF gain
    <2> QED BY <2>3, PaisaAssumption, HalfUpClose
  <1>6. (ra = NoRule <=> rb = NoRule) /\ (ra # NoRule => ra.rate \in Nat /\ rb.rate \in Nat /\ ra.rate <= rb.rate)
    <2> HIDE DEF held
    <2> QED BY <1>2, FilersPayLess
  <1> HIDE DEF take, gain, held, ra, rb, more
  <1>7. ~(gain > 0 /\ ra = NoRule) => ta \in Nat /\ tb \in Nat /\ ta <= tb
    <2> SUFFICES ASSUME ~(gain > 0 /\ ra = NoRule) PROVE ta \in Nat /\ tb \in Nat /\ ta <= tb
      OBVIOUS
    <2>1. CASE gain > 0
      <3> DEFINE p == ra.rate
                 q == rb.rate
      <3>1. gain \in Nat /\ p \in Nat /\ q \in Nat /\ p <= q
        BY <1>5, <1>6, <2>1
      <3> HIDE DEF p, q
      <3>2. Tax(gain, p) \in Nat /\ Tax(gain, q) \in Nat /\ Tax(gain, p) <= Tax(gain, q)
        BY <3>1, TaxGrows
      <3>3. ta = Tax(gain, p) /\ tb = Tax(gain, q)
        BY <2>1 DEF p, q
      <3> HIDE DEF ta, tb
      <3> QED BY <3>2, <3>3
    <2>2. CASE ~(gain > 0)
      BY <2>2
    <2> QED BY <2>1, <2>2
  <1> HIDE DEF ta, tb, a, b
  <1>8. CASE f.error # "none" \/ take <= 0
    BY <1>1, <1>3, <1>8 DEF a, b
  <1>9. CASE ~(f.error # "none" \/ take <= 0) /\ gain > 0 /\ ra = NoRule
    <2>1. a = [f EXCEPT !.error = "no_rule"] /\ b = [g EXCEPT !.error = "no_rule"]
      BY <1>1, <1>3, <1>6, <1>9
    <2>2. /\ MatchState(a) /\ a.error = "no_rule" /\ a.remaining = f.remaining /\ a.gain = f.gain /\ a.cgt = f.cgt
          /\ a.matched = f.matched /\ b.matched = g.matched
          /\ MatchState(b) /\ b.error = "no_rule" /\ b.remaining = g.remaining /\ b.gain = g.gain /\ b.cgt = g.cgt
      BY <1>1, <2>1 DEF MatchState
    <2>3. Beside(a, b)
      BY <1>1, <2>2 DEF Beside
    <2> QED BY <2>2, <2>3 DEF a, b
  <1>10. CASE ~(f.error # "none" \/ take <= 0) /\ ~(gain > 0 /\ ra = NoRule)
    <2>1. /\ a = [error |-> "none", remaining |-> f.remaining - take, matched |-> f.matched + 1,
                      gain |-> f.gain + more, cgt |-> f.cgt + ta]
          /\ b = [error |-> "none", remaining |-> g.remaining - take, matched |-> g.matched + 1,
                      gain |-> g.gain + more, cgt |-> g.cgt + tb]
      BY <1>1, <1>3, <1>6, <1>10
    <2>2. /\ MatchState(a) /\ a.error = "none" /\ a.remaining = f.remaining - take /\ a.gain = f.gain + more /\ a.cgt = f.cgt + ta
          /\ a.matched = f.matched + 1 /\ b.matched = g.matched + 1
          /\ MatchState(b) /\ b.error = "none" /\ b.remaining = g.remaining - take /\ b.gain = g.gain + more /\ b.cgt = g.cgt + tb
      BY <2>1 DEF MatchState
    <2>3. Beside(a, b)
      BY <1>1, <1>4, <1>5, <1>7, <1>10, <2>2 DEF Beside
    <2> QED BY <1>10, <2>2, <2>3 DEF a, b
  <1> QED BY <1>8, <1>9, <1>10

\* So it is for a whole sell.
LEMMA BesideMatch ==
    ASSUME NEW S, Cuttable(S), Datable(S), \A x \in S : x.price \in Int, NEW lots \in Seq(S), NEW qty \in Nat,
           NEW price \in Int, NEW day \in Int
    PROVE  LET f == match_fifo(lots, qty, price, day, TRUE, SeedBrackets)
               g == match_fifo(lots, qty, price, day, FALSE, SeedBrackets)
           IN  Beside(f, g) /\ f.error \in {"none", "no_rule", "insufficient"}
  <1> DEFINE start == [error |-> "none", remaining |-> qty, matched |-> 0, gain |-> 0, cgt |-> 0]
             seq == OldestFirst(lots)
             n == Len(seq)
             a == MatchLots(start, seq, price, day, TRUE, SeedBrackets)
             b == MatchLots(start, seq, price, day, FALSE, SeedBrackets)
             f == match_fifo(lots, qty, price, day, TRUE, SeedBrackets)
             g == match_fifo(lots, qty, price, day, FALSE, SeedBrackets)
  <1>1. seq \in Seq(S)
    BY OldestFirstHeld
  <1>2. n \in Nat /\ DOMAIN seq = 1 .. n /\ \A k \in 1 .. n : seq[k] \in S
    BY <1>1
  <1>3. \A x \in S : Taxable(x)
    BY DEF Cuttable, Datable, Taxable
  <1>4. /\ f = IF a.error = "none" /\ a.remaining > 0 THEN [a EXCEPT !.error = "insufficient"] ELSE a
        /\ g = IF b.error = "none" /\ b.remaining > 0 THEN [b EXCEPT !.error = "insufficient"] ELSE b
    BY DEF match_fifo
  <1>5. Beside(start, start) /\ start.error = "none"
    BY DEF Beside, MatchState
  <1> HIDE DEF start, seq, n, f, g
  <1>6. PICK r : Matches(r, start, seq, n, price, day, TRUE, SeedBrackets)
    BY <1>2, MatchRun
  <1>7. PICK s : Matches(s, start, seq, n, price, day, FALSE, SeedBrackets)
    BY <1>2, MatchRun
  <1> DEFINE Ok(k) == Beside(r[k], s[k]) /\ r[k].error \in {"none", "no_rule"}
             P == {k \in Nat : k <= n => Ok(k)}
  <1>8. 0 \in P
    BY <1>5, <1>6, <1>7 DEF Matches
  <1>9. ASSUME NEW k \in Nat, k \in P PROVE k + 1 \in P
    <2> SUFFICES ASSUME k + 1 <= n PROVE Ok(k + 1)
      OBVIOUS
    <2>1. k + 1 \in 1 .. n /\ (k + 1) - 1 = k /\ k <= n
      BY <1>2
    <2> DEFINE u == r[k]
               v == s[k]
               lot == seq[k + 1]
    <2>2. /\ r[k + 1] = MatchLot(u, lot, price, day, TRUE, SeedBrackets)
          /\ s[k + 1] = MatchLot(v, lot, price, day, FALSE, SeedBrackets)
      BY <1>6, <1>7, <2>1 DEF Matches
    <2>3. Beside(u, v) /\ u.error \in {"none", "no_rule"} /\ Taxable(lot)
      BY <1>2, <1>3, <1>9, <2>1
    <2> DEFINE y == MatchLot(u, lot, price, day, TRUE, SeedBrackets)
               z == MatchLot(v, lot, price, day, FALSE, SeedBrackets)
    <2> HIDE DEF u, v, lot
    <2>4. Beside(y, z) /\ (y.error = u.error \/ y.error = "no_rule")
      BY <2>3, BesideLot
    <2>5. r[k + 1] = y /\ s[k + 1] = z
      BY <2>2
    <2> HIDE DEF y, z
    <2>6. Beside(y, z) /\ y.error \in {"none", "no_rule"}
      BY <2>3, <2>4
    <2> QED BY <2>5, <2>6
  <1>10. Beside(a, b) /\ a.error \in {"none", "no_rule"}
    <2> HIDE DEF Ok
    <2>1. \A k \in Nat : k \in P
      <3> HIDE DEF P
      <3> QED BY <1>8, <1>9, InductionSet
    <2>2. Ok(n)
      BY <1>2, <2>1
    <2> QED BY <1>6, <1>7, <2>2 DEF Ok, Matches
  <1> HIDE DEF a, b
  <1>11. Beside(f, g) /\ f.error \in {"none", "no_rule", "insufficient"}
    <2>1. CASE a.error = "none" /\ a.remaining > 0
      <3>1. f = [a EXCEPT !.error = "insufficient"] /\ g = [b EXCEPT !.error = "insufficient"]
        BY <1>4, <1>10, <2>1 DEF Beside
      <3>2. /\ MatchState(f) /\ f.error = "insufficient" /\ f.remaining = a.remaining /\ f.gain = a.gain /\ f.cgt = a.cgt
            /\ f.matched = a.matched /\ g.matched = b.matched
            /\ MatchState(g) /\ g.error = "insufficient" /\ g.remaining = b.remaining /\ g.gain = b.gain /\ g.cgt = b.cgt
        BY <1>10, <3>1 DEF Beside, MatchState
      <3> QED BY <1>10, <3>2 DEF Beside
    <2>2. CASE ~(a.error = "none" /\ a.remaining > 0)
      <3>1. f = a /\ g = b
        BY <1>4, <1>10, <2>2 DEF Beside
      <3> QED BY <1>10, <3>1
    <2> QED BY <2>1, <2>2
  <1> QED BY <1>11 DEF f, g

=============================================================================
