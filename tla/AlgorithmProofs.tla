--------------------------- MODULE AlgorithmProofs ---------------------------
(***************************************************************************)
(* The algorithms for every input: the tax engine over every list of open  *)
(* lots (which rule taxes a lot, what a sell is charged for), the backward *)
(* pass that adjusts prices, and the books of a backtest.                  *)
(***************************************************************************)
EXTENDS MCAlgorithms, LotFacts

-----------------------------------------------------------------------------
\* An open lot of the tax engine.
TaxLot == [id : Nat, date : Int, qty : Nat, price : Nat]

LotsOK == lots \in Seq(TaxLot)

LEMMA InitLots == Init => LotsOK
  BY DEF Init, LotsOK

LEMMA NextLots == LotsOK /\ [Next]_lots => LotsOK'
  <1> SUFFICES ASSUME LotsOK, [Next]_lots PROVE LotsOK'
    OBVIOUS
  <1>1. CASE UNCHANGED lots
    BY <1>1 DEF LotsOK
  <1>2. ASSUME NEW id \in 1 .. MaxLots, NEW day \in BuyDays, NEW qty \in Quantities, NEW price \in Prices,
               Buy(id, day, qty, price)
        PROVE  LotsOK'
    <2> DEFINE lot == [id |-> id, date |-> day, qty |-> qty, price |-> price]
               older == {k \in DOMAIN lots : lots[k].date <= day}
               c == Cardinality(older)
               n == Len(lots)
    <2>1. lot \in TaxLot
      BY LotsAssumption DEF TaxLot
    <2>2. lots \in Seq(TaxLot) /\ n \in Nat /\ DOMAIN lots = 1 .. n
      BY DEF LotsOK
    <2>3. c \in 0 .. n
      <3>2. older \subseteq 1 .. n
        BY <2>2
      <3> HIDE DEF older, n
      <3>1. IsFiniteSet(1 .. n) /\ Cardinality(1 .. n) = n
        BY <2>2, FS_Interval
      <3>3. IsFiniteSet(older) /\ Cardinality(older) <= n /\ Cardinality(older) \in Nat
        BY <3>1, <3>2, FS_Subset, FS_CardinalityType
      <3> QED BY <2>2, <3>3
    <2>4. lots' = SubSeq(lots, 1, c) \o <<lot>> \o SubSeq(lots, c + 1, n)
      <3>1. lots' = InsertAt(lots, c + 1, lot)
        BY <1>2 DEF Buy
      <3>2. (c + 1) - 1 = c
        BY <2>3
      <3> HIDE DEF c, lot
      <3> QED BY <3>1, <3>2 DEF InsertAt
    <2> HIDE DEF c, lot, n
    <2>5. SubSeq(lots, 1, c) \in Seq(TaxLot) /\ <<lot>> \in Seq(TaxLot) /\ SubSeq(lots, c + 1, n) \in Seq(TaxLot)
      BY <2>1, <2>2, <2>3 DEF n
    <2>6. SubSeq(lots, 1, c) \o <<lot>> \o SubSeq(lots, c + 1, n) \in Seq(TaxLot)
      BY <2>5
    <2> QED BY <2>4, <2>6 DEF LotsOK
  <1> QED BY <1>1, <1>2 DEF Next

LEMMA LotsInvariance == AlgSpec => []LotsOK
  <1>1. AlgInit => Init
    BY DEF AlgInit, Init
  <1>2. [AlgNext]_algVars => [Next]_lots
    BY DEF AlgNext, algVars
  <1> QED BY <1>1, <1>2, InitLots, NextLots, PTL DEF AlgSpec

-----------------------------------------------------------------------------
LEMMA OneRule ==
    ASSUME NEW day \in Nat, NEW filer \in BOOLEAN, NEW held \in Int
    PROVE  {b \in Range(SeedBrackets) : bracket_matches(b, day, filer, held)} =
             IF held >= 0 THEN {SeedBrackets[Rule(day, filer, held)]} ELSE {}
  <1>1. DOMAIN SeedBrackets = 1 .. 12
    BY DEF SeedBrackets
  <1>2. Range(SeedBrackets) = {SeedBrackets[k] : k \in 1 .. 12}
    BY <1>1 DEF Range
  <1>3. Rule(day, filer, held) \in 1 .. 12
    BY DEF Rule
  <1>4. \A k \in 1 .. 12 : bracket_matches(SeedBrackets[k], day, filer, held) <=> held >= 0 /\ k = Rule(day, filer, held)
    <2>1. day \in Int /\ day >= 0
      OBVIOUS
    <2> QED BY <2>1, SeededRules
  <1> QED BY <1>2, <1>3, <1>4

(***************************************************************************)
(* The seeded rules decide every sell on or after 2022-07-01 of every      *)
(* list of lots, whatever the days: exactly one row applies to a lot, none *)
(* to a lot dated after the sell.                                          *)
(***************************************************************************)
THEOREM RulesAlwaysDecide == AlgSpec => []RulesDecide
  <1>1. LotsOK => RulesDecide
    <2> SUFFICES ASSUME LotsOK, NEW k \in DOMAIN lots, NEW day \in SellDays, NEW filer \in BOOLEAN
                 PROVE  LET held == day - lots[k].date
                            fit == {b \in Range(SeedBrackets) : bracket_matches(b, day, filer, held)}
                        IN  /\ held >= 0 => Cardinality(fit) = 1
                            /\ held < 0 => fit = {}
      BY DEF RulesDecide
    <2>1. lots[k] \in TaxLot /\ day \in Nat
      BY LotsAssumption DEF LotsOK
    <2>2. day - lots[k].date \in Int
      BY <2>1 DEF TaxLot
    <2> DEFINE held == day - lots[k].date
    <2>3. {b \in Range(SeedBrackets) : bracket_matches(b, day, filer, held)} =
            IF held >= 0 THEN {SeedBrackets[Rule(day, filer, held)]} ELSE {}
      BY <2>1, <2>2, OneRule
    <2>4. Cardinality({SeedBrackets[Rule(day, filer, held)]}) = 1
      BY FS_Singleton
    <2>5. held < 0 <=> ~(held >= 0)
      BY <2>2
    <2> HIDE DEF held
    <2>6. LET fit == {b \in Range(SeedBrackets) : bracket_matches(b, day, filer, held)}
          IN  /\ held >= 0 => Cardinality(fit) = 1
              /\ held < 0 => fit = {}
      BY <2>3, <2>4, <2>5
    <2> QED BY <2>6 DEF held
  <1> QED BY <1>1, LotsInvariance, PTL

-----------------------------------------------------------------------------
LEMMA TaxLotFacts ==
    /\ Cuttable(TaxLot) /\ Datable(TaxLot) /\ Splits(TaxLot)
    /\ \A day \in Nat, filer \in BOOLEAN : AllRated(TaxLot, day, filer, SeedBrackets)
  <1>1. Cuttable(TaxLot) /\ Datable(TaxLot) /\ Splits(TaxLot)
    BY DEF Cuttable, Datable, Splits, TaxLot
  <1>2. ASSUME NEW day \in Nat, NEW filer \in BOOLEAN, NEW x \in TaxLot
        PROVE  Rated(find_bracket(SeedBrackets, day, filer, day - x.date))
    <2>1. day - x.date \in Int /\ day \in Int
      BY DEF TaxLot
    <2> QED BY <2>1, SeededRated
  <1> QED BY <1>1, <1>2 DEF AllRated

\* What a sell of q shares of sorted lots comes to, before it is refused.
Run(seq, q, price, day, filer) == MatchLots(Start(q), seq, price, day, filer, SeedBrackets)

LEMMA MatchIsRun ==
    ASSUME NEW open, NEW q, NEW price, NEW day, NEW filer
    PROVE  LET m == Run(OldestFirst(open), q, price, day, filer)
           IN  Match(open, q, price, day, filer) =
                 IF m.error = "none" /\ m.remaining > 0 THEN [m EXCEPT !.error = "insufficient"] ELSE m
  BY DEF Match, match_fifo, Run, Start

(***************************************************************************)
(* However the shares, prices and days lie, selling in two parts on a day  *)
(* gains and is taxed like selling at once, but for a paisa each: prior    *)
(* sells are eaten off the lots (_compute_sell_cgt) exactly as match_fifo  *)
(* took them, and only the lot in two parts is rounded twice.              *)
(***************************************************************************)
THEOREM SplittingIsNeutral == AlgSpec => []SplitSell
  <1>1. LotsOK => SplitSell
    <2> SUFFICES ASSUME LotsOK, NEW q1 \in Quantities, NEW q2 \in Quantities, NEW price \in Prices,
                        NEW day \in SellDays, NEW filer \in BOOLEAN,
                        Match(lots, q1 + q2, price, day, filer).error = "none"
                 PROVE  LET whole  == Match(lots, q1 + q2, price, day, filer)
                            first  == Match(lots, q1, price, day, filer)
                            second == Match(After(q1), q2, price, day, filer)
                        IN  /\ first.error = "none" /\ second.error = "none"
                            /\ whole.gain - first.gain - second.gain \in -1 .. 1
                            /\ whole.cgt - first.cgt - second.cgt \in -1 .. 1
      BY DEF SplitSell
    <2> DEFINE seq == OldestFirst(lots)
               w == Run(seq, q1 + q2, price, day, filer)
               f == Run(seq, q1, price, day, filer)
               s == Run(After(q1), q2, price, day, filer)
    <2>1. q1 \in Nat /\ q2 \in Nat /\ price \in Int /\ day \in Nat /\ q1 + q2 \in Nat
      BY LotsAssumption
    <2>2. lots \in Seq(TaxLot) /\ seq \in Seq(TaxLot) /\ InOrder(seq)
      BY OldestFirstSorts, TaxLotFacts DEF LotsOK
    <2>3. After(q1) \in Seq(TaxLot) /\ InOrder(After(q1)) /\ After(q1) = OpenLots(seq, q1)
      <3> HIDE DEF seq
      <3>1. OpenLots(seq, q1) \in Seq(TaxLot) /\ InOrder(OpenLots(seq, q1))
        BY <2>1, <2>2, OpenLotsHeld, OpenLotsInOrder, TaxLotFacts
      <3> QED BY <3>1 DEF After, seq
    <2>4. OldestFirst(After(q1)) = After(q1)
      BY <2>3, InOrderStays, TaxLotFacts
    <2>5. /\ Match(lots, q1 + q2, price, day, filer) =
               IF w.error = "none" /\ w.remaining > 0 THEN [w EXCEPT !.error = "insufficient"] ELSE w
          /\ Match(lots, q1, price, day, filer) =
               IF f.error = "none" /\ f.remaining > 0 THEN [f EXCEPT !.error = "insufficient"] ELSE f
          /\ Match(After(q1), q2, price, day, filer) =
               IF s.error = "none" /\ s.remaining > 0 THEN [s EXCEPT !.error = "insufficient"] ELSE s
      BY <2>4, MatchIsRun
    <2>6. PICK left : Adds2(w, f, s, left) /\ (w.error # "none" => MatchState(w))
      <3>1. AllRated(TaxLot, day, filer, SeedBrackets) /\ Cuttable(TaxLot) /\ Splits(TaxLot)
        BY <2>1, TaxLotFacts
      <3> HIDE DEF seq
      <3> QED BY <2>1, <2>2, <2>3, <3>1, SplitMatch DEF Run
    <2> HIDE DEF w, f, s
    <2>7. w.error = "none" /\ ~(w.remaining > 0)
      <3>1. w.error = "none" => MatchState(w)
        BY <2>6 DEF Adds2, Matched
      <3>2. [w EXCEPT !.error = "insufficient"].error = "insufficient"
        BY <2>6, <3>1 DEF MatchState
      <3> QED BY <2>5, <3>2
    <2>8. /\ Matched(w) /\ Matched(f) /\ Matched(s) /\ w.remaining = f.remaining + s.remaining
          /\ w.gain - f.gain - s.gain \in -1 .. 1 /\ w.cgt - f.cgt - s.cgt \in -1 .. 1
      BY <2>6, <2>7 DEF Adds2
    <2>9. ~(f.remaining > 0) /\ ~(s.remaining > 0) /\ f.error = "none" /\ s.error = "none"
      BY <2>7, <2>8 DEF Matched
    <2>10. /\ Match(lots, q1 + q2, price, day, filer) = w /\ Match(lots, q1, price, day, filer) = f
           /\ Match(After(q1), q2, price, day, filer) = s
      BY <2>5, <2>7, <2>9
    <2> QED BY <2>8, <2>9, <2>10
  <1> QED BY <1>1, LotsInvariance, PTL

-----------------------------------------------------------------------------
SharesIn(base, seq) == FoldLeft(AddShares, base, seq)
Lays(run, base, seq, n) ==
    run[0] = base /\ run[n] = SharesIn(base, seq) /\ \A k \in 1 .. n : run[k] = AddShares(run[k - 1], seq[k])

\* The shares of the lots, one lot after the other.
LEMMA SharesRun ==
    ASSUME NEW base, NEW seq, NEW n \in Nat, DOMAIN seq = 1 .. n
    PROVE  \E run : Lays(run, base, seq, n)
  <1> DEFINE Val(h, s) == IF s = {} THEN base ELSE AddShares(h[s \ {Max(s)}], seq[Max(s)])
             Is(m, h) == h = [s \in SUBSET (1 .. m) |-> Val(h, s)]
             P == {m \in Nat : \E h : Is(m, h)}
  <1>1. 0 \in P
    <2>1. SUBSET (1 .. 0) = {{}}
      OBVIOUS
    <2>2. Is(0, [s \in {{}} |-> base])
      BY <2>1
    <2> QED BY <2>2
  <1>2. ASSUME NEW m \in Nat, m \in P PROVE m + 1 \in P
    <2>1. PICK h : h = [s \in SUBSET (1 .. m) |-> Val(h, s)]
      BY <1>2
    <2> DEFINE g == [s \in SUBSET (1 .. m + 1) |->
                       IF m + 1 \in s THEN AddShares(h[s \ {m + 1}], seq[m + 1]) ELSE h[s]]
    <2>2. ASSUME NEW s \in SUBSET (1 .. m) PROVE g[s] = h[s]
      BY <1>2
    <2>3. ASSUME NEW s \in SUBSET (1 .. m + 1) PROVE g[s] = Val(g, s)
      <3>1. CASE m + 1 \in s
        <4>1. Max(s) = m + 1 /\ s \ {m + 1} \in SUBSET (1 .. m)
          BY <1>2, <3>1, MaxOfTop
        <4>2. g[s \ {m + 1}] = h[s \ {m + 1}]
          BY <2>2, <4>1
        <4>3. g[s] = AddShares(h[s \ {m + 1}], seq[m + 1])
          BY <3>1
        <4> HIDE DEF g
        <4> QED BY <3>1, <4>1, <4>2, <4>3
      <3>2. CASE m + 1 \notin s
        <4>1. s \in SUBSET (1 .. m)
          BY <1>2, <3>2
        <4>2. g[s] = h[s] /\ h[s] = Val(h, s)
          BY <2>1, <2>2, <4>1
        <4>3. s # {} => g[s \ {Max(s)}] = h[s \ {Max(s)}]
          BY <1>2, <2>2, <4>1, MaxIsIn
        <4> HIDE DEF g
        <4> QED BY <4>2, <4>3
      <3> QED BY <3>1, <3>2
    <2>4. g = [s \in SUBSET (1 .. m + 1) |-> Val(g, s)]
      <3>1. [s \in SUBSET (1 .. m + 1) |-> g[s]] = [s \in SUBSET (1 .. m + 1) |-> Val(g, s)]
        <4> HIDE DEF g, Val
        <4> QED BY <2>3
      <3>2. g = [s \in SUBSET (1 .. m + 1) |-> g[s]]
        OBVIOUS
      <3> HIDE DEF g, Val
      <3> QED BY <3>1, <3>2
    <2> HIDE DEF g, Val
    <2>5. Is(m + 1, g)
      BY <2>4
    <2> QED BY <1>2, <2>5
  <1>3. \A m \in Nat : m \in P
    <2> HIDE DEF P
    <2> QED BY <1>1, <1>2, InductionSet
  <1> DEFINE iter == CHOOSE h : Is(n, h)
  <1>4. Is(n, iter)
    <2> HIDE DEF Is
    <2> QED BY <1>3
  <1>5. FoldLeft(AddShares, base, seq) = iter[1 .. n]
    BY DEF FoldLeft, MapThenFoldSet
  <1> HIDE DEF iter
  <1>6. \A s \in SUBSET (1 .. n) : iter[s] = Val(iter, s)
    BY <1>4
  <1> DEFINE run == [k \in 0 .. n |-> iter[1 .. k]]
  <1>7. run[0] = base
    <2>1. 1 .. 0 = {} /\ {} \in SUBSET (1 .. n) /\ 0 \in 0 .. n
      OBVIOUS
    <2> QED BY <1>6, <2>1
  <1>8. ASSUME NEW k \in 1 .. n PROVE run[k] = AddShares(run[k - 1], seq[k])
    <2>1. k \in 0 .. n /\ k - 1 \in 0 .. n /\ 1 .. k # {} /\ 1 .. k \in SUBSET (1 .. n)
      OBVIOUS
    <2>2. (1 .. k) \ {k} = 1 .. (k - 1)
      OBVIOUS
    <2>3. Max(1 .. k) = k
      <3> DEFINE j == k - 1
      <3>1. j \in Nat /\ j + 1 = k
        OBVIOUS
      <3> HIDE DEF j
      <3>2. 1 .. j + 1 \in SUBSET (1 .. j + 1) /\ j + 1 \in 1 .. j + 1
        BY <3>1
      <3>3. Max(1 .. j + 1) = j + 1
        BY <3>1, <3>2, MaxOfTop
      <3> QED BY <3>1, <3>3
    <2>4. iter[1 .. k] = AddShares(iter[1 .. (k - 1)], seq[k])
      BY <1>6, <2>1, <2>2, <2>3
    <2> QED BY <2>1, <2>4
  <1>9. run[n] = SharesIn(base, seq)
    BY <1>5 DEF SharesIn
  <1> HIDE DEF run
  <1>10. Lays(run, base, seq, n)
    BY <1>7, <1>8, <1>9 DEF Lays
  <1> QED BY <1>10

\* One more lot lays its shares behind those laid out.
LEMMA SharesGrow ==
    ASSUME NEW shares \in Seq(Int), NEW lot \in TaxLot
    PROVE  /\ AddShares(shares, lot) \in Seq(Int) /\ Len(AddShares(shares, lot)) = Len(shares) + lot.qty
           /\ \A k \in 1 .. Len(shares) : AddShares(shares, lot)[k] = shares[k] /\ shares[k] \in Int
           /\ \A k \in Len(shares) + 1 .. Len(shares) + lot.qty : AddShares(shares, lot)[k] = lot.price
  <1> DEFINE same == [k \in 1 .. lot.qty |-> lot.price]
             more == AddShares(shares, lot)
             n == Len(shares)
  <1>1. lot.qty \in Nat /\ lot.price \in Int /\ n \in Nat
    BY DEF TaxLot
  <1>2. same \in Seq(Int) /\ Len(same) = lot.qty /\ \A k \in 1 .. lot.qty : same[k] = lot.price
    BY <1>1
  <1>3. more = shares \o same
    BY DEF AddShares
  <1> HIDE DEF same, more
  <1>4. more \in Seq(Int) /\ Len(more) = n + lot.qty
    <2>0. same \in Seq(Int)
      BY <1>2
    <2>1. shares \o same \in Seq(Int) /\ Len(shares \o same) = Len(shares) + Len(same)
      BY <2>0
    <2> QED BY <1>2, <1>3, <2>1
  <1>5. \A k \in 1 .. n : more[k] = shares[k] /\ shares[k] \in Int
    BY <1>1, <1>2, <1>3
  <1>6. ASSUME NEW k \in n + 1 .. n + lot.qty PROVE more[k] = lot.price
    <2>1. k - n \in 1 .. lot.qty /\ k \in 1 .. n + lot.qty /\ ~(k <= n)
      BY <1>1
    <2>2. more[k] = same[k - n]
      BY <1>1, <1>2, <1>3, <2>1
    <2> QED BY <1>2, <2>1, <2>2
  <1> QED BY <1>4, <1>5, <1>6 DEF more, n

\* f goes on after a with t times the same value.
GoesOn(f, a, t, d) == (\A j \in 1 .. a : f[j] \in Int) /\ \A j \in a + 1 .. a + t : f[j] = d

LEMMA SumGoesOn ==
    ASSUME NEW f, NEW a \in Nat, NEW t \in Nat, NEW d \in Int, GoesOn(f, a, t, d)
    PROVE  SumFunctionOnSet(f, 1 .. a + t) = SumFunctionOnSet(f, 1 .. a) + d * t
  <1> USE DEF GoesOn
  <1> DEFINE sum == SumFunctionOnSet(f, 1 .. a)
             P == {u \in Nat : u <= t => SumFunctionOnSet(f, 1 .. a + u) = sum + d * u}
  <1>1. sum \in Int
    <2>1. IsFiniteSet(1 .. a)
      BY FS_Interval
    <2> QED BY <2>1, SumRemove DEF SumWorks
  <1>2. 0 \in P
    <2>1. a + 0 = a /\ d * 0 = 0
      OBVIOUS
    <2> HIDE DEF sum
    <2>2. sum + d * 0 = sum
      BY <1>1, <2>1
    <2> QED BY <2>1, <2>2 DEF sum
  <1>3. ASSUME NEW u \in Nat, u \in P PROVE u + 1 \in P
    <2> SUFFICES ASSUME u + 1 <= t PROVE SumFunctionOnSet(f, 1 .. a + (u + 1)) = sum + d * (u + 1)
      OBVIOUS
    <2> DEFINE m == a + u
    <2>1. m \in Nat /\ m + 1 = a + (u + 1) /\ u <= t /\ m + 1 \in a + 1 .. a + t
      BY <1>3
    <2>2. \A j \in 1 .. m + 1 : j \in 1 .. a \/ j \in a + 1 .. a + t
      BY <1>3, <2>1
    <2>3. SumFunctionOnSet(f, 1 .. m) = sum + d * u
      BY <1>3, <2>1
    <2> HIDE DEF m, sum
    <2>4. \A j \in 1 .. m + 1 : f[j] \in Int
      BY <2>2
    <2>5. SumFunctionOnSet(f, 1 .. m + 1) = f[m + 1] + SumFunctionOnSet(f, 1 .. m)
      BY <2>1, <2>4, SumUpTo
    <2>6. f[m + 1] = d
      BY <2>1
    <2>7. d + (sum + d * u) = sum + d * (u + 1)
      BY <1>1, <1>3
    <2> QED BY <2>1, <2>3, <2>5, <2>6, <2>7
  <1>4. \A u \in Nat : u \in P
    <2> HIDE DEF P
    <2> QED BY <1>2, <1>3, InductionSet
  <1> QED BY <1>4

\* The gain on each of the first a shares.
Gains(shares, a, price) == [k \in 1 .. a |-> price - shares[k]]

\* A sell of qty shares of which the shares laid out so far have met a part.
Exact(m, shares, qty, price) ==
    LET a == qty - m.remaining
    IN  /\ Matched(m) /\ a \in Nat /\ a <= Len(shares) /\ (m.remaining > 0 => a = Len(shares))
        /\ RoundedTimes(m.gain, SumFunctionOnSet(Gains(shares, a, price), 1 .. a), m.matched)

LEMMA ExactStep ==
    ASSUME NEW m, NEW shares \in Seq(Int), NEW qty \in Nat, NEW price \in Int, Exact(m, shares, qty, price),
           NEW lot \in TaxLot, NEW new, NEW rule, Takes(m, new, Taken(m, lot), price - lot.price, rule)
    PROVE  Exact(new, AddShares(shares, lot), qty, price)
  <1> DEFINE a == qty - m.remaining
             t == Taken(m, lot)
             d == price - lot.price
             more == AddShares(shares, lot)
             n == Len(shares)
  <1>1. lot.qty \in Nat /\ lot.price \in Int /\ d \in Int
    BY DEF TaxLot
  <1>2. /\ Matched(m) /\ m.remaining \in Nat /\ m.gain \in Int /\ a \in Nat /\ a <= n /\ n \in Nat
        /\ m.remaining > 0 => a = n
    BY DEF Exact, Matched
  <1>14. RoundedTimes(m.gain, SumFunctionOnSet(Gains(shares, a, price), 1 .. a), m.matched)
    BY DEF Exact
  <1>3. t \in Nat /\ t <= lot.qty /\ t <= m.remaining /\ (t < lot.qty => t = m.remaining)
    <2> DEFINE x == m.remaining
               y == lot.qty
    <2>1. x \in Nat /\ y \in Nat /\ t = IF y < x THEN y ELSE x
      BY <1>1, <1>2 DEF Taken
    <2> HIDE DEF x, y, t
    <2>2. t \in Nat /\ t <= y /\ t <= x /\ (t < y => t = x)
      BY <2>1
    <2> QED BY <2>2 DEF x, y
  <1>4. Matched(new) /\ new.remaining = m.remaining - t /\ Takes(m, new, t, d, rule)
    BY DEF Takes
  <1>5. /\ more \in Seq(Int) /\ Len(more) = n + lot.qty
        /\ \A k \in 1 .. n : more[k] = shares[k] /\ shares[k] \in Int
        /\ \A k \in n + 1 .. n + lot.qty : more[k] = lot.price
    BY SharesGrow
  <1> HIDE DEF more, n
  <1> DEFINE b == a + t
             f == Gains(more, b, price)
             g == Gains(shares, a, price)
  <1>6. qty - new.remaining = b /\ b \in Nat /\ b <= n + lot.qty /\ (new.remaining > 0 => b = n + lot.qty)
    <2>1. qty - new.remaining = b
      BY <1>2, <1>3, <1>4
    <2>2. new.remaining > 0 => m.remaining > 0 /\ t = lot.qty
      <3> DEFINE x == m.remaining
                 y == new.remaining
                 z == lot.qty
      <3>1. x \in Nat /\ z \in Nat /\ t \in Nat /\ t <= z /\ t <= x /\ (t < z => t = x) /\ y = x - t
        BY <1>1, <1>2, <1>3, <1>4
      <3> HIDE DEF x, y, z, t
      <3>2. y > 0 => x > 0 /\ t = z
        BY <3>1
      <3> QED BY <3>2 DEF x, y, z
    <2> HIDE DEF a, t
    <2>3. b \in Nat /\ b <= n + lot.qty
      BY <1>1, <1>2, <1>3
    <2> QED BY <1>2, <2>1, <2>2, <2>3
  <1> HIDE DEF a, t
  <1>7. \A j \in 1 .. a : j \in 1 .. b /\ j \in 1 .. n
    BY <1>2, <1>3
  <1>8. \A j \in 1 .. a : g[j] \in Int /\ f[j] = g[j]
    BY <1>2, <1>5, <1>7 DEF Gains
  <1>9. \A j \in a + 1 .. a + t : f[j] = d
    <2> SUFFICES ASSUME NEW j \in a + 1 .. a + t PROVE f[j] = d
      OBVIOUS
    <2>1. m.remaining > 0 /\ a = n
      BY <1>2, <1>3
    <2>2. j \in 1 .. b /\ j \in n + 1 .. n + lot.qty
      BY <1>1, <1>2, <1>3, <2>1
    <2> QED BY <1>5, <2>2 DEF Gains
  <1> HIDE DEF d, f, g
  <1>10. SumFunctionOnSet(f, 1 .. a + t) = SumFunctionOnSet(f, 1 .. a) + d * t
    <2>1. \A j \in 1 .. a : f[j] \in Int
      BY <1>8
    <2>2. a \in Nat /\ t \in Nat /\ d \in Int
      BY <1>1, <1>2, <1>3
    <2>3. GoesOn(f, a, t, d)
      BY <1>9, <2>1 DEF GoesOn
    <2> QED BY <2>2, <2>3, SumGoesOn
  <1>11. SumFunctionOnSet(f, 1 .. a) = SumFunctionOnSet(g, 1 .. a)
    <2>1. IsFiniteSet(1 .. a)
      BY <1>2, FS_Interval
    <2> QED BY <1>8, <2>1, SumAgree
  <1> DEFINE exact == SumFunctionOnSet(g, 1 .. a)
  <1>12. RoundedTimes(new.gain, SumFunctionOnSet(f, 1 .. b), new.matched)
    <2>1. exact \in Int
      <3>1. IsFiniteSet(1 .. a)
        BY <1>2, FS_Interval
      <3> QED BY <1>8, <3>1, SumRemove DEF SumWorks
    <2>2. SumFunctionOnSet(f, 1 .. b) = exact + d * t
      BY <1>10, <1>11
    <2>3. RoundedTimes(m.gain, exact, m.matched)
      BY <1>14 DEF g
    <2> HIDE DEF exact
    <2>4. RoundedTimes(new.gain, exact + d * t, new.matched)
      <3>1. t \in Nat /\ d \in Int /\ Matched(m) /\ Takes(m, new, t, d, rule)
        BY <1>1, <1>2, <1>3, <1>4
      <3> QED BY <2>1, <2>3, <3>1, TakesRounds
    <2> QED BY <2>2, <2>4
  <1>13. Exact(new, more, qty, price)
    BY <1>4, <1>5, <1>6, <1>12 DEF Exact, f
  <1> QED BY <1>13 DEF more

\* Matching a sell lot by lot gains what the oldest shares gain, one by one,
\* but for the rounding of each lot.
LEMMA ExactRun ==
    ASSUME NEW seq \in Seq(TaxLot), NEW qty \in Nat, NEW price \in Int, NEW day \in Nat, NEW filer \in BOOLEAN
    PROVE  LET m == Run(seq, qty, price, day, filer)
               shares == SharesIn(<< >>, seq)
           IN  /\ Len(shares) = HeldIn(seq)
               /\ \/ m.error = "no_rule"
                  \/ m.error = "none" /\ Exact(m, shares, qty, price)
  <1> DEFINE n == Len(seq)
             q == QtyOf(seq)
  <1>1. n \in Nat /\ DOMAIN seq = 1 .. n /\ \A k \in 1 .. n : seq[k] \in TaxLot
    OBVIOUS
  <1>2. HeldIn(seq) = SumFunctionOnSet(q, 1 .. n) /\ \A k \in 1 .. n : q[k] \in Nat
    BY TaxLotFacts, HeldNat
  <1>3. \A k \in 1 .. n : q[k] = seq[k].qty
    BY <1>1 DEF QtyOf
  <1>4. AllRated(TaxLot, day, filer, SeedBrackets)
    BY TaxLotFacts
  <1> HIDE DEF n, q
  <1>5. PICK r : Matches(r, Start(qty), seq, n, price, day, filer, SeedBrackets)
    BY <1>1, MatchRun
  <1>6. PICK h : Lays(h, << >>, seq, n)
    BY <1>1, SharesRun
  <1> DEFINE Fits(m, shares) == m.error = "no_rule" \/ (m.error = "none" /\ Exact(m, shares, qty, price))
             Ok(k) == /\ h[k] \in Seq(Int) /\ Len(h[k]) = SumFunctionOnSet(q, 1 .. k)
                      /\ Fits(r[k], h[k])
             P == {k \in Nat : k <= n => Ok(k)}
  <1>7. 0 \in P
    <2>1. r[0] = Start(qty) /\ h[0] = << >> /\ << >> \in Seq(Int) /\ Len(<< >>) = 0
      BY <1>5, <1>6 DEF Matches, Lays
    <2>2. 1 .. 0 = {} /\ SumFunctionOnSet(q, {}) = 0
      BY SumEmpty
    <2>3. /\ Matched(Start(qty)) /\ Start(qty).remaining = qty /\ Start(qty).gain = 0
          /\ Start(qty).matched = 0 /\ Start(qty).error = "none"
      BY DEF Matched, MatchState, Start
    <2>4. qty - Start(qty).remaining = 0
      BY <2>3
    <2>5. SumFunctionOnSet(Gains(<< >>, 0, price), 1 .. 0) = 0
      BY <2>2, SumEmpty
    <2>6. Exact(Start(qty), << >>, qty, price)
      BY <2>1, <2>3, <2>4, <2>5, RoundedNone DEF Exact
    <2> QED BY <2>1, <2>2, <2>3, <2>6
  <1>8. ASSUME NEW k \in Nat, k \in P PROVE k + 1 \in P
    <2> SUFFICES ASSUME k + 1 <= n PROVE Ok(k + 1)
      OBVIOUS
    <2>1. k + 1 \in 1 .. n /\ (k + 1) - 1 = k /\ k <= n
      BY <1>1
    <2>2. Ok(k)
      BY <1>8, <2>1
    <2> DEFINE lot == seq[k + 1]
    <2>3. lot \in TaxLot /\ q[k + 1] = lot.qty
      BY <1>1, <1>3, <2>1
    <2>4. r[k + 1] = MatchLot(r[k], lot, price, day, filer, SeedBrackets) /\ h[k + 1] = AddShares(h[k], lot)
      BY <1>5, <1>6, <2>1 DEF Matches, Lays
    <2> HIDE DEF lot
    <2>5. h[k + 1] \in Seq(Int) /\ Len(h[k + 1]) = Len(h[k]) + lot.qty
      BY <2>2, <2>3, <2>4, SharesGrow
    <2>6. Len(h[k + 1]) = SumFunctionOnSet(q, 1 .. k + 1)
      <3>1. \A j \in 1 .. k + 1 : q[j] \in Int
        BY <1>1, <1>2, <2>1
      <3>2. /\ SumFunctionOnSet(q, 1 .. k + 1) = q[k + 1] + SumFunctionOnSet(q, 1 .. k)
            /\ SumFunctionOnSet(q, 1 .. k) \in Int
        BY <3>1, SumUpTo
      <3>3. lot.qty \in Int
        BY <2>3 DEF TaxLot
      <3> QED BY <2>2, <2>3, <2>5, <3>2, <3>3
    <2>7. CASE r[k].error = "no_rule"
      <3>1. r[k + 1] = r[k]
        BY <2>4, <2>7 DEF MatchLot
      <3> QED BY <2>5, <2>6, <2>7, <3>1
    <2>8. CASE r[k].error = "none" /\ Exact(r[k], h[k], qty, price)
      <3> DEFINE rule == find_bracket(SeedBrackets, day, filer, day - lot.date)
                 d == price - lot.price
                 t == Taken(r[k], lot)
                 new == MatchLot(r[k], lot, price, day, filer, SeedBrackets)
      <3>1. Matched(r[k]) /\ lot.qty \in Nat /\ lot.price \in Int /\ Rated(rule)
        BY <1>4, <2>3, <2>8 DEF Exact, AllRated, TaxLot
      <3>2. IF t > 0 /\ d > 0 /\ rule = NoRule THEN MatchState(new) /\ new.error = "no_rule"
            ELSE Takes(r[k], new, t, d, rule)
        BY <3>1, MatchTakes
      <3> HIDE DEF rule, new
      <3>3. CASE new.error = "no_rule"
        BY <2>4, <2>5, <2>6, <3>3 DEF new
      <3>4. CASE Takes(r[k], new, t, d, rule)
        <4>1. Exact(new, h[k + 1], qty, price)
          BY <2>2, <2>3, <2>4, <2>8, <3>4, ExactStep
        <4>2. new.error = "none" /\ new = r[k + 1]
          BY <2>4, <3>4 DEF Takes, Matched, new
        <4> QED BY <2>5, <2>6, <4>1, <4>2
      <3> QED BY <3>2, <3>3, <3>4
    <2> QED BY <2>2, <2>7, <2>8
  <1>9. Ok(n)
    <2> HIDE DEF Ok
    <2>1. \A k \in Nat : k \in P
      <3> HIDE DEF P
      <3> QED BY <1>7, <1>8, InductionSet
    <2> QED BY <1>1, <2>1
  <1>10. r[n] = Run(seq, qty, price, day, filer) /\ h[n] = SharesIn(<< >>, seq)
    BY <1>5, <1>6 DEF Matches, Lays, Run
  <1> QED BY <1>2, <1>9, <1>10

(***************************************************************************)
(* match_fifo is selling share by share, oldest first, for every list of   *)
(* lots: the gain is that of the oldest shares up to one rounding for each *)
(* lot, and a sell is refused exactly when it is of more than is held.     *)
(***************************************************************************)
THEOREM FifoIsExact == AlgSpec => []FifoExact
  <1>1. LotsOK => FifoExact
    <2> SUFFICES ASSUME LotsOK, NEW qty \in 1 .. Held + 1, NEW price \in Prices,
                        NEW day \in SellDays, NEW filer \in BOOLEAN,
                        Match(lots, qty, price, day, filer).error # "no_rule"
                 PROVE  LET m == Match(lots, qty, price, day, filer)
                        IN  /\ (m.error = "insufficient") <=> (qty > Held)
                            /\ qty <= Held => RoundedTimes(m.gain, GainOfShares(qty, price), m.matched)
      BY DEF FifoExact
    <2> DEFINE seq == OldestFirst(lots)
               m == Run(seq, qty, price, day, filer)
               shares == SharesIn(<< >>, seq)
    <2>1. lots \in Seq(TaxLot) /\ seq \in Seq(TaxLot) /\ HeldIn(seq) = HeldIn(lots) /\ HeldIn(lots) \in Nat
      BY TaxLotFacts, OldestFirstHeld, HeldNat DEF LotsOK
    <2>2. Held = HeldIn(lots)
      BY DEF Held, HeldIn, QtyOf
    <2>3. qty \in Nat /\ price \in Int /\ day \in Nat
      BY <2>1, <2>2, LotsAssumption
    <2>4. Match(lots, qty, price, day, filer) =
            IF m.error = "none" /\ m.remaining > 0 THEN [m EXCEPT !.error = "insufficient"] ELSE m
      BY MatchIsRun
    <2>5. /\ Len(shares) = HeldIn(seq)
          /\ m.error = "no_rule" \/ (m.error = "none" /\ Exact(m, shares, qty, price))
      <3> HIDE DEF seq
      <3> QED BY <2>1, <2>3, ExactRun
    <2>6. Shares = shares
      BY DEF Shares, SharesIn
    <2> HIDE DEF m, shares
    <2>7. m.error = "none" /\ Exact(m, shares, qty, price)
      BY <2>4, <2>5
    <2> DEFINE a == qty - m.remaining
    <2>8. /\ MatchState(m) /\ m.remaining \in Nat /\ a \in Nat /\ a <= Held /\ (m.remaining > 0 => a = Held)
      BY <2>1, <2>2, <2>5, <2>7 DEF Exact, Matched
    <2>12. RoundedTimes(m.gain, SumFunctionOnSet(Gains(shares, a, price), 1 .. a), m.matched)
      BY <2>7 DEF Exact
    <2>9. m.remaining > 0 <=> qty > Held
      <3> DEFINE x == m.remaining
      <3>1. x \in Nat /\ qty - x <= Held /\ (x > 0 => qty - x = Held) /\ Held \in Nat
        BY <2>1, <2>2, <2>8
      <3> HIDE DEF x
      <3>2. x > 0 <=> qty > Held
        BY <2>3, <3>1
      <3> QED BY <3>2 DEF x
    <2>10. CASE m.remaining > 0
      <3>1. Match(lots, qty, price, day, filer).error = "insufficient"
        BY <2>4, <2>7, <2>8, <2>10 DEF MatchState
      <3> QED BY <2>1, <2>2, <2>3, <2>9, <2>10, <3>1
    <2>11. CASE ~(m.remaining > 0)
      <3>1. Match(lots, qty, price, day, filer) = m
        BY <2>4, <2>11
      <3>2. a = qty
        BY <2>3, <2>8, <2>11
      <3>3. GainOfShares(qty, price) = SumFunctionOnSet(Gains(shares, qty, price), 1 .. qty)
        BY <2>6 DEF GainOfShares, SumFunction, Gains
      <3>4. RoundedTimes(m.gain, GainOfShares(qty, price), m.matched)
        BY <2>12, <3>2, <3>3
      <3> QED BY <2>7, <2>9, <2>11, <3>1, <3>4
    <2> QED BY <2>10, <2>11
  <1> QED BY <1>1, LotsInvariance, PTL

-----------------------------------------------------------------------------
\* The factors one event after the other, and the documented rewriting of the prices.
Adjusted(cum, e) == Cumulate(cum, _event_to_adjustment(e))
CumulateAll(base, seq) == FoldLeft(LAMBDA cum, e : Cumulate(cum, _event_to_adjustment(e)), base, seq)
Cumulates(run, base, seq, n) ==
    /\ run[0] = base /\ run[n] = CumulateAll(base, seq)
    /\ \A k \in 1 .. n : run[k] = Adjusted(run[k - 1], seq[k])

LEMMA CumulateRun ==
    ASSUME NEW base, NEW seq, NEW n \in Nat, DOMAIN seq = 1 .. n
    PROVE  \E run : Cumulates(run, base, seq, n)
  <1> DEFINE Val(h, s) == IF s = {} THEN base ELSE Adjusted(h[s \ {Max(s)}], seq[Max(s)])
             Is(m, h) == h = [s \in SUBSET (1 .. m) |-> Val(h, s)]
             P == {m \in Nat : \E h : Is(m, h)}
  <1>1. 0 \in P
    <2>1. SUBSET (1 .. 0) = {{}}
      OBVIOUS
    <2>2. Is(0, [s \in {{}} |-> base])
      BY <2>1
    <2> QED BY <2>2
  <1>2. ASSUME NEW m \in Nat, m \in P PROVE m + 1 \in P
    <2>1. PICK h : h = [s \in SUBSET (1 .. m) |-> Val(h, s)]
      BY <1>2
    <2> DEFINE g == [s \in SUBSET (1 .. m + 1) |->
                       IF m + 1 \in s THEN Adjusted(h[s \ {m + 1}], seq[m + 1]) ELSE h[s]]
    <2>2. ASSUME NEW s \in SUBSET (1 .. m) PROVE g[s] = h[s]
      BY <1>2
    <2>3. ASSUME NEW s \in SUBSET (1 .. m + 1) PROVE g[s] = Val(g, s)
      <3>1. CASE m + 1 \in s
        <4>1. Max(s) = m + 1 /\ s \ {m + 1} \in SUBSET (1 .. m)
          BY <1>2, <3>1, MaxOfTop
        <4>2. g[s \ {m + 1}] = h[s \ {m + 1}]
          BY <2>2, <4>1
        <4>3. g[s] = Adjusted(h[s \ {m + 1}], seq[m + 1])
          BY <3>1
        <4> HIDE DEF g
        <4> QED BY <3>1, <4>1, <4>2, <4>3
      <3>2. CASE m + 1 \notin s
        <4>1. s \in SUBSET (1 .. m)
          BY <1>2, <3>2
        <4>2. g[s] = h[s] /\ h[s] = Val(h, s)
          BY <2>1, <2>2, <4>1
        <4>3. s # {} => g[s \ {Max(s)}] = h[s \ {Max(s)}]
          BY <1>2, <2>2, <4>1, MaxIsIn
        <4> HIDE DEF g
        <4> QED BY <4>2, <4>3
      <3> QED BY <3>1, <3>2
    <2>4. g = [s \in SUBSET (1 .. m + 1) |-> Val(g, s)]
      <3>1. [s \in SUBSET (1 .. m + 1) |-> g[s]] = [s \in SUBSET (1 .. m + 1) |-> Val(g, s)]
        <4> HIDE DEF g, Val
        <4> QED BY <2>3
      <3>2. g = [s \in SUBSET (1 .. m + 1) |-> g[s]]
        OBVIOUS
      <3> HIDE DEF g, Val
      <3> QED BY <3>1, <3>2
    <2> HIDE DEF g, Val
    <2>5. Is(m + 1, g)
      BY <2>4
    <2> QED BY <1>2, <2>5
  <1>3. \A m \in Nat : m \in P
    <2> HIDE DEF P
    <2> QED BY <1>1, <1>2, InductionSet
  <1> DEFINE iter == CHOOSE h : Is(n, h)
  <1>4. Is(n, iter)
    <2> HIDE DEF Is
    <2> QED BY <1>3
  <1>5. CumulateAll(base, seq) = iter[1 .. n]
    BY DEF CumulateAll, Adjusted, FoldLeft, MapThenFoldSet
  <1> HIDE DEF iter
  <1>6. \A s \in SUBSET (1 .. n) : iter[s] = Val(iter, s)
    BY <1>4
  <1> DEFINE run == [k \in 0 .. n |-> iter[1 .. k]]
  <1>7. run[0] = base
    <2>1. 1 .. 0 = {} /\ {} \in SUBSET (1 .. n) /\ 0 \in 0 .. n
      OBVIOUS
    <2> QED BY <1>6, <2>1
  <1>8. ASSUME NEW k \in 1 .. n PROVE run[k] = Adjusted(run[k - 1], seq[k])
    <2>1. k \in 0 .. n /\ k - 1 \in 0 .. n /\ 1 .. k # {} /\ 1 .. k \in SUBSET (1 .. n)
      OBVIOUS
    <2>2. (1 .. k) \ {k} = 1 .. (k - 1)
      OBVIOUS
    <2>3. Max(1 .. k) = k
      <3> DEFINE j == k - 1
      <3>1. j \in Nat /\ j + 1 = k
        OBVIOUS
      <3> HIDE DEF j
      <3>2. 1 .. j + 1 \in SUBSET (1 .. j + 1) /\ j + 1 \in 1 .. j + 1
        BY <3>1
      <3>3. Max(1 .. j + 1) = j + 1
        BY <3>1, <3>2, MaxOfTop
      <3> QED BY <3>1, <3>3
    <2>4. iter[1 .. k] = Adjusted(iter[1 .. (k - 1)], seq[k])
      BY <1>6, <2>1, <2>2, <2>3
    <2> QED BY <2>1, <2>4
  <1>9. run[n] = CumulateAll(base, seq)
    BY <1>5
  <1> HIDE DEF run
  <1>10. Cumulates(run, base, seq, n)
    BY <1>7, <1>8, <1>9 DEF Cumulates
  <1> QED BY <1>10

\* The documented algorithm, event after event.
CrossAll(base, seq) == FoldLeft(CrossEvent, base, seq)
Crosses(run, base, seq, n) ==
    /\ run[0] = base /\ run[n] = CrossAll(base, seq)
    /\ \A k \in 1 .. n : run[k] = CrossEvent(run[k - 1], seq[k])

LEMMA CrossRun ==
    ASSUME NEW base, NEW seq, NEW n \in Nat, DOMAIN seq = 1 .. n
    PROVE  \E run : Crosses(run, base, seq, n)
  <1> DEFINE Val(h, s) == IF s = {} THEN base ELSE CrossEvent(h[s \ {Max(s)}], seq[Max(s)])
             Is(m, h) == h = [s \in SUBSET (1 .. m) |-> Val(h, s)]
             P == {m \in Nat : \E h : Is(m, h)}
  <1>1. 0 \in P
    <2>1. SUBSET (1 .. 0) = {{}}
      OBVIOUS
    <2>2. Is(0, [s \in {{}} |-> base])
      BY <2>1
    <2> QED BY <2>2
  <1>2. ASSUME NEW m \in Nat, m \in P PROVE m + 1 \in P
    <2>1. PICK h : h = [s \in SUBSET (1 .. m) |-> Val(h, s)]
      BY <1>2
    <2> DEFINE g == [s \in SUBSET (1 .. m + 1) |->
                       IF m + 1 \in s THEN CrossEvent(h[s \ {m + 1}], seq[m + 1]) ELSE h[s]]
    <2>2. ASSUME NEW s \in SUBSET (1 .. m) PROVE g[s] = h[s]
      BY <1>2
    <2>3. ASSUME NEW s \in SUBSET (1 .. m + 1) PROVE g[s] = Val(g, s)
      <3>1. CASE m + 1 \in s
        <4>1. Max(s) = m + 1 /\ s \ {m + 1} \in SUBSET (1 .. m)
          BY <1>2, <3>1, MaxOfTop
        <4>2. g[s \ {m + 1}] = h[s \ {m + 1}]
          BY <2>2, <4>1
        <4>3. g[s] = CrossEvent(h[s \ {m + 1}], seq[m + 1])
          BY <3>1
        <4> HIDE DEF g
        <4> QED BY <3>1, <4>1, <4>2, <4>3
      <3>2. CASE m + 1 \notin s
        <4>1. s \in SUBSET (1 .. m)
          BY <1>2, <3>2
        <4>2. g[s] = h[s] /\ h[s] = Val(h, s)
          BY <2>1, <2>2, <4>1
        <4>3. s # {} => g[s \ {Max(s)}] = h[s \ {Max(s)}]
          BY <1>2, <2>2, <4>1, MaxIsIn
        <4> HIDE DEF g
        <4> QED BY <4>2, <4>3
      <3> QED BY <3>1, <3>2
    <2>4. g = [s \in SUBSET (1 .. m + 1) |-> Val(g, s)]
      <3>1. [s \in SUBSET (1 .. m + 1) |-> g[s]] = [s \in SUBSET (1 .. m + 1) |-> Val(g, s)]
        <4> HIDE DEF g, Val
        <4> QED BY <2>3
      <3>2. g = [s \in SUBSET (1 .. m + 1) |-> g[s]]
        OBVIOUS
      <3> HIDE DEF g, Val
      <3> QED BY <3>1, <3>2
    <2> HIDE DEF g, Val
    <2>5. Is(m + 1, g)
      BY <2>4
    <2> QED BY <1>2, <2>5
  <1>3. \A m \in Nat : m \in P
    <2> HIDE DEF P
    <2> QED BY <1>1, <1>2, InductionSet
  <1> DEFINE iter == CHOOSE h : Is(n, h)
  <1>4. Is(n, iter)
    <2> HIDE DEF Is
    <2> QED BY <1>3
  <1>5. CrossAll(base, seq) = iter[1 .. n]
    BY DEF CrossAll, FoldLeft, MapThenFoldSet
  <1> HIDE DEF iter
  <1>6. \A s \in SUBSET (1 .. n) : iter[s] = Val(iter, s)
    BY <1>4
  <1> DEFINE run == [k \in 0 .. n |-> iter[1 .. k]]
  <1>7. run[0] = base
    <2>1. 1 .. 0 = {} /\ {} \in SUBSET (1 .. n) /\ 0 \in 0 .. n
      OBVIOUS
    <2> QED BY <1>6, <2>1
  <1>8. ASSUME NEW k \in 1 .. n PROVE run[k] = CrossEvent(run[k - 1], seq[k])
    <2>1. k \in 0 .. n /\ k - 1 \in 0 .. n /\ 1 .. k # {} /\ 1 .. k \in SUBSET (1 .. n)
      OBVIOUS
    <2>2. (1 .. k) \ {k} = 1 .. (k - 1)
      OBVIOUS
    <2>3. Max(1 .. k) = k
      <3> DEFINE j == k - 1
      <3>1. j \in Nat /\ j + 1 = k
        OBVIOUS
      <3> HIDE DEF j
      <3>2. 1 .. j + 1 \in SUBSET (1 .. j + 1) /\ j + 1 \in 1 .. j + 1
        BY <3>1
      <3>3. Max(1 .. j + 1) = j + 1
        BY <3>1, <3>2, MaxOfTop
      <3> QED BY <3>1, <3>3
    <2>4. iter[1 .. k] = CrossEvent(iter[1 .. (k - 1)], seq[k])
      BY <1>6, <2>1, <2>2, <2>3
    <2> QED BY <2>1, <2>4
  <1>9. run[n] = CrossAll(base, seq)
    BY <1>5
  <1> HIDE DEF run
  <1>10. Crosses(run, base, seq, n)
    BY <1>7, <1>8, <1>9 DEF Crosses
  <1> QED BY <1>10

-----------------------------------------------------------------------------
\* A corporate action with its numbers.
IsEvent(e) ==
    /\ e.ex_date \in Int /\ e.num \in Int /\ e.den \in Int /\ e.amount \in Int

IsFactors(f) == f = [mult |-> f.mult, add |-> f.add, den |-> f.den] /\ f.mult \in Int /\ f.add \in Int /\ f.den \in Int

\* Sorting the events puts no later one behind an earlier one.
LEMMA NewestFirstSorts ==
    ASSUME NEW events, NEW n \in Nat, DOMAIN events = 1 .. n, \A i \in 1 .. n : IsEvent(events[i])
    PROVE  /\ NewestFirst(events) \in Seq({events[i] : i \in 1 .. n}) /\ Len(NewestFirst(events)) = n
           /\ DOMAIN NewestFirst(events) = 1 .. n
           /\ \A k \in 1 .. n : IsEvent(NewestFirst(events)[k])
           /\ \A j, k \in 1 .. n : j < k => NewestFirst(events)[j].ex_date >= NewestFirst(events)[k].ex_date
  <1> DEFINE K == 1 .. n
             S == {events[i] : i \in K}
             before == [i \in K |-> NewerEvents(events, i)]
             perm == [k \in K |-> CHOOSE i \in K : Cardinality(NewerEvents(events, i)) = k - 1]
             sorted == NewestFirst(events)
  <1>2. \A k \in K : events[k].ex_date \in Int
    BY DEF IsEvent
  <1>5. sorted = [k \in K |-> events[perm[k]]]
    BY DEF NewestFirst
  <1>6. IsFiniteSet(K) /\ Cardinality(K) = n
    <2>1. 1 \in Int /\ n \in Int /\ (IF 1 > n THEN 0 ELSE n - 1 + 1) = n
      OBVIOUS
    <2> QED BY <2>1, FS_Interval
  <1>7. \A i \in K : before[i] = NewerEvents(events, i)
    OBVIOUS
  <1>8. Orders(before, K) /\ \A i, j \in K : events[j].ex_date > events[i].ex_date => j \in before[i]
    <2>1. \A i, j \in K : j \in before[i] <=>
            events[j].ex_date > events[i].ex_date \/ (events[j].ex_date = events[i].ex_date /\ j < i)
      BY <1>7 DEF NewerEvents
    <2>2. \A i \in K : before[i] \in SUBSET K
      BY <1>7 DEF NewerEvents
    <2>3. \A i \in K : i \in Int
      OBVIOUS
    <2> HIDE DEF before, K
    <2>4. \A i \in K : i \notin before[i]
      BY <1>2, <2>1, <2>3
    <2>5. \A i, j \in K : i # j => i \in before[j] \/ j \in before[i]
      BY <1>2, <2>1, <2>3
    <2>6. ASSUME NEW i \in K, NEW j \in K, i \in before[j], NEW h \in before[i] PROVE h \in before[j]
      <3>1. h \in K
        BY <2>2, <2>6
      <3> QED BY <1>2, <2>1, <2>3, <2>6, <3>1
    <2> QED BY <1>6, <2>1, <2>2, <2>4, <2>5, <2>6 DEF Orders
  <1>9. Ranks(perm, before, K)
    <2>1. ASSUME NEW k \in K, NEW i \in K, Cardinality(before[i]) = k - 1
          PROVE  perm[k] \in K /\ Cardinality(before[perm[k]]) = k - 1
      <3>1. perm[k] = CHOOSE j \in K : Cardinality(NewerEvents(events, j)) = k - 1
        OBVIOUS
      <3> HIDE DEF perm, K
      <3> QED BY <1>7, <2>1, <3>1
    <2>2. DOMAIN perm = 1 .. Cardinality(K)
      BY <1>6
    <2> HIDE DEF perm, before
    <2> QED BY <1>6, <2>1, <2>2 DEF Ranks
  <1> HIDE DEF before, perm, sorted
  <1>10. /\ Lists(perm, n, K)
         /\ \A k \in K : Cardinality(before[perm[k]]) = k - 1
         /\ \A i, j \in K : i \in before[j] => Cardinality(before[i]) < Cardinality(before[j])
    BY <1>6, <1>8, <1>9, RankedLists
  <1>11. \A k \in K : perm[k] \in K
    BY <1>10 DEF Lists
  <1>12. sorted \in Seq(S) /\ DOMAIN sorted = K /\ Len(sorted) = n
    BY <1>5, <1>11
  <1>13. ASSUME NEW j \in K, NEW k \in K, j < k PROVE sorted[j].ex_date >= sorted[k].ex_date
    <2>1. sorted[k] = events[perm[k]] /\ sorted[j] = events[perm[j]] /\ perm[k] \in K /\ perm[j] \in K
      BY <1>5, <1>11, <1>13
    <2>2. CASE events[perm[k]].ex_date > events[perm[j]].ex_date
      <3>2. Cardinality(before[perm[k]]) < Cardinality(before[perm[j]])
        BY <1>8, <1>10, <1>13, <2>1, <2>2
      <3>3. Cardinality(before[perm[k]]) = k - 1 /\ Cardinality(before[perm[j]]) = j - 1
        BY <1>10, <1>13
      <3> QED BY <1>13, <3>2, <3>3
    <2> QED BY <1>2, <2>1, <2>2
  <1>14. \A k \in K : IsEvent(sorted[k])
    BY <1>5, <1>11
  <1> QED BY <1>12, <1>13, <1>14 DEF sorted

\* Where the backward pass stops for a date: behind the events after it.
LEMMA AdjIdxSplits ==
    ASSUME NEW S, NEW sorted \in Seq(S), NEW n \in Nat, Len(sorted) = n, NEW d \in Int,
           \A k \in 1 .. n : sorted[k].ex_date \in Int,
           \A j, k \in 1 .. n : j < k => sorted[j].ex_date >= sorted[k].ex_date
    PROVE  /\ AdjIdx(sorted, d) \in 0 .. n
           /\ \A k \in 1 .. n : d < sorted[k].ex_date <=> k <= AdjIdx(sorted, d)
  <1> DEFINE T == {m \in 0 .. n : m < n => ~(sorted[m + 1].ex_date > d)}
             a == AdjIdx(sorted, d)
  <1>1. T \subseteq Nat /\ n \in T
    OBVIOUS
  <1>2. a = Min(T)
    BY DEF AdjIdx
  <1>3. \E m \in T : \A s \in T : m <= s
    <2> HIDE DEF T
    <2> QED BY <1>1, NatSetHasMin
  <1>4. a \in T /\ \A s \in T : a <= s
    <2> HIDE DEF T, a
    <2> QED BY <1>2, <1>3 DEF Min
  <1> HIDE DEF a
  <1>5. a \in 0 .. n /\ (a < n => ~(sorted[a + 1].ex_date > d))
    BY <1>4
  <1>6. ASSUME NEW k \in 1 .. n, k <= a PROVE sorted[k].ex_date > d
    <2>1. k - 1 \in 0 .. n /\ k - 1 < n /\ ~(a <= k - 1) /\ (k - 1) + 1 = k
      BY <1>5, <1>6
    <2>2. k - 1 \notin T
      BY <1>4, <2>1
    <2> QED BY <2>1, <2>2
  <1>7. ASSUME NEW k \in 1 .. n, ~(k <= a) PROVE ~(sorted[k].ex_date > d)
    <2>1. a < n /\ a + 1 \in 1 .. n /\ (k = a + 1 \/ a + 1 < k)
      BY <1>5, <1>7
    <2>2. ~(sorted[a + 1].ex_date > d) /\ (a + 1 < k => sorted[a + 1].ex_date >= sorted[k].ex_date)
      BY <1>5, <2>1
    <2>3. sorted[a + 1].ex_date \in Int /\ sorted[k].ex_date \in Int
      BY <2>1
    <2> HIDE DEF T
    <2> QED BY <2>1, <2>2, <2>3
  <1> QED BY <1>5, <1>6, <1>7 DEF a

LEMMA EventFactors ==
    ASSUME NEW e, IsEvent(e)
    PROVE  IsFactors(_event_to_adjustment(e))
  <1>1. CASE e.action_type \in {"split", "bonus", "rights"} /\ e.num # Null /\ e.den # Null
    BY <1>1 DEF _event_to_adjustment, IsFactors, IsEvent
  <1>2. CASE ~(e.action_type \in {"split", "bonus", "rights"} /\ e.num # Null /\ e.den # Null) /\ e.action_type = "dividend_cash"
    BY <1>2 DEF _event_to_adjustment, IsFactors, IsEvent
  <1>3. CASE ~(e.action_type \in {"split", "bonus", "rights"} /\ e.num # Null /\ e.den # Null) /\ e.action_type # "dividend_cash"
    BY <1>3 DEF _event_to_adjustment, IsFactors, Unchanged
  <1> QED BY <1>1, <1>2, <1>3

LEMMA ProductsInt ==
    ASSUME NEW a \in Int, NEW b \in Int
    PROVE  /\ a * b \in Int
           /\ \A c, d \in Int : a * b + c * d \in Int
  OBVIOUS

\* Crossing one more event: the rewritten price is the price through the factors so far.
LEMMA OneMore ==
    ASSUME NEW p \in Int, NEW m \in Int, NEW a \in Int, NEW q \in Int, NEW mult \in Int, NEW add \in Int
    PROVE  (p * m - a) * mult - add * q = p * (m * mult) - (a * mult + add * q)
  <1>1. (p * m - a) * mult = p * m * mult - a * mult
    OBVIOUS
  <1>2. p * m * mult = p * (m * mult)
    OBVIOUS
  <1> DEFINE x == p * m * mult
             y == a * mult
             z == add * q
             w == (p * m - a) * mult
             v == p * (m * mult)
  <1>3. x \in Int /\ y \in Int /\ z \in Int /\ w = x - y /\ v = x
    BY <1>1, <1>2
  <1> HIDE DEF x, y, z, w, v
  <1>4. w - z = v - (y + z)
    BY <1>3
  <1> QED BY <1>4 DEF x, y, z, w, v

(***************************************************************************)
(* For every price and every list of corporate actions the one backward    *)
(* pass of compute_adjusted_prices, which carries cumulated factors and a  *)
(* pointer into the sorted events, gives exactly the prices that the       *)
(* docstring's event-by-event rewriting gives.                             *)
(***************************************************************************)
THEOREM BackwardPassIsExact ==
    ASSUME NEW prices, DOMAIN prices \subseteq Int, \A d \in DOMAIN prices : prices[d] \in Int,
           NEW events, NEW n \in Nat, DOMAIN events = 1 .. n, \A i \in 1 .. n : IsEvent(events[i])
    PROVE  compute_adjusted_prices(prices, events) = DocumentedPrices(prices, events)
  <1> DEFINE sorted == NewestFirst(events)
             S == {events[i] : i \in 1 .. n}
             base == [d \in DOMAIN prices |-> [num |-> prices[d], den |-> 1]]
  <1>1. /\ sorted \in Seq(S) /\ Len(sorted) = n /\ DOMAIN sorted = 1 .. n
        /\ \A k \in 1 .. n : IsEvent(sorted[k])
        /\ \A j, k \in 1 .. n : j < k => sorted[j].ex_date >= sorted[k].ex_date
    BY NewestFirstSorts
  <1> HIDE DEF sorted, S
  <1>2. PICK rows : Crosses(rows, base, sorted, n)
    BY <1>1, CrossRun
  <1>3. \A k \in 1 .. n : rows[k] = CrossEvent(rows[k - 1], sorted[k])
    BY <1>2 DEF Crosses
  <1>4. rows[0] = base /\ rows[n] = CrossAll(base, sorted)
    BY <1>2 DEF Crosses
  <1>5. ASSUME NEW d \in DOMAIN prices
        PROVE  LET f == FactorsAt(events, d)
               IN  rows[n][d] = [num |-> prices[d] * f.mult - f.add, den |-> f.den]
    <2> DEFINE a == AdjIdx(sorted, d)
               crossed == SubSeq(sorted, 1, a)
               p == prices[d]
    <2>0. d \in Int /\ p \in Int
      BY <1>5
    <2>1. a \in 0 .. n /\ \A k \in 1 .. n : d < sorted[k].ex_date <=> k <= a
      <3>1. \A k \in 1 .. n : sorted[k].ex_date \in Int
        BY <1>1 DEF IsEvent
      <3> QED BY <1>1, <2>0, <3>1, AdjIdxSplits
    <2> HIDE DEF a
    <2>2. a \in Nat /\ DOMAIN crossed = 1 .. a /\ \A k \in 1 .. a : crossed[k] = sorted[k]
      BY <1>1, <2>1
    <2>3. FactorsAt(events, d) = CumulateAll(Unchanged, crossed)
      BY DEF FactorsAt, CumulateAll, sorted, a
    <2> HIDE DEF crossed
    <2>4. PICK fs : Cumulates(fs, Unchanged, crossed, a)
      BY <2>2, CumulateRun
    <2>5. \A k \in 1 .. a : fs[k] = Adjusted(fs[k - 1], sorted[k])
      BY <2>2, <2>4 DEF Cumulates
    <2>6. fs[0] = Unchanged /\ fs[a] = FactorsAt(events, d)
      BY <2>3, <2>4 DEF Cumulates
    <2> DEFINE Through(k) == /\ d \in DOMAIN rows[k] /\ IsFactors(fs[k])
                             /\ rows[k][d] = [num |-> p * fs[k].mult - fs[k].add, den |-> fs[k].den]
               P == {k \in Nat : k <= a => Through(k)}
    <2>7. Through(0)
      <3>1. rows[0][d] = [num |-> p, den |-> 1] /\ d \in DOMAIN rows[0]
        BY <1>4
      <3> HIDE DEF p
      <3>2. fs[0].mult = 1 /\ fs[0].add = 0 /\ fs[0].den = 1 /\ IsFactors(fs[0])
        BY <2>6 DEF Unchanged, IsFactors
      <3>3. p * fs[0].mult - fs[0].add = p
        BY <2>0, <3>2
      <3> QED BY <3>1, <3>2, <3>3
    <2>8. ASSUME NEW k \in Nat, k + 1 <= a, Through(k) PROVE Through(k + 1)
      <3> DEFINE j == k + 1
                 e == sorted[j]
                 adj == _event_to_adjustment(e)
                 f == fs[k]
                 r == rows[k]
                 row == r[d]
      <3>1. j \in 1 .. a /\ j \in 1 .. n /\ j - 1 = k
        BY <2>1, <2>8
      <3>2. IsEvent(e) /\ d < e.ex_date
        BY <1>1, <2>1, <3>1
      <3>3. rows[j] = CrossEvent(r, e) /\ fs[j] = Adjusted(f, e)
        BY <1>3, <2>5, <3>1
      <3>4. IsFactors(adj)
        BY <3>2, EventFactors
      <3>5. d \in DOMAIN r /\ IsFactors(f) /\ row = [num |-> p * f.mult - f.add, den |-> f.den]
        BY <2>8
      <3> HIDE DEF j, e, f, r, p
      <3>6. d \in DOMAIN rows[j]
            /\ rows[j][d] = [num |-> row.num * adj.mult - adj.add * row.den, den |-> row.den * adj.den]
        BY <3>2, <3>3, <3>5 DEF CrossEvent
      <3> HIDE DEF adj, row
      <3>7. fs[j] = [mult |-> f.mult * adj.mult, add |-> f.add * adj.mult + adj.add * f.den, den |-> f.den * adj.den]
        BY <3>3 DEF Adjusted, Cumulate, adj
      <3>8. row.num = p * f.mult - f.add /\ row.den = f.den
        BY <3>5
      <3>9. /\ f.mult \in Int /\ f.add \in Int /\ f.den \in Int
            /\ adj.mult \in Int /\ adj.add \in Int /\ adj.den \in Int
        BY <3>4, <3>5 DEF IsFactors
      <3>10. (p * f.mult - f.add) * adj.mult - adj.add * f.den = p * (f.mult * adj.mult) - (f.add * adj.mult + adj.add * f.den)
        BY <2>0, <3>9, OneMore DEF p
      <3>11. row.num * adj.mult - adj.add * row.den = p * fs[j].mult - fs[j].add /\ row.den * adj.den = fs[j].den
        BY <3>7, <3>8, <3>10
      <3>12. IsFactors(fs[j])
        <4> DEFINE x == f.mult * adj.mult
                   y == f.add * adj.mult + adj.add * f.den
                   z == f.den * adj.den
        <4>1. x \in Int /\ y \in Int /\ z \in Int
          BY <3>9, ProductsInt
        <4>2. fs[j] = [mult |-> x, add |-> y, den |-> z]
          BY <3>7
        <4> HIDE DEF x, y, z
        <4> QED BY <4>1, <4>2 DEF IsFactors
      <3>13. Through(j)
        BY <3>6, <3>11, <3>12
      <3> QED BY <3>13 DEF j
    <2>9. \A k \in Nat : k \in P
      <3>1. 0 \in P
        BY <2>7
      <3>2. ASSUME NEW k \in Nat, k \in P PROVE k + 1 \in P
        <4>1. k + 1 \in Nat /\ (k + 1 <= a => k <= a)
          BY <2>2
        <4> HIDE DEF Through
        <4> QED BY <2>8, <3>2, <4>1
      <3> HIDE DEF P
      <3> QED BY <3>1, <3>2, InductionSet
    <2>10. Through(a)
      BY <2>2, <2>9
    <2> DEFINE Q == {k \in Nat : a + k <= n => d \in DOMAIN rows[a + k] /\ rows[a + k][d] = rows[a][d]}
    <2>11. 0 \in Q
      <3>1. a + 0 = a
        BY <2>2
      <3>2. d \in DOMAIN rows[a]
        BY <2>10
      <3> QED BY <3>1, <3>2
    <2>12. ASSUME NEW k \in Nat, k \in Q PROVE k + 1 \in Q
      <3> SUFFICES ASSUME a + (k + 1) <= n
                   PROVE  d \in DOMAIN rows[a + (k + 1)] /\ rows[a + (k + 1)][d] = rows[a][d]
        OBVIOUS
      <3> DEFINE j == a + (k + 1)
                 e == sorted[j]
                 r == rows[a + k]
      <3>1. j \in 1 .. n /\ j - 1 = a + k /\ ~(j <= a) /\ a + k <= n
        BY <2>2
      <3>2. ~(d < e.ex_date) /\ rows[j] = CrossEvent(r, e)
        BY <1>3, <2>1, <3>1
      <3>3. d \in DOMAIN r /\ r[d] = rows[a][d]
        BY <2>12, <3>1
      <3> HIDE DEF j, e, r
      <3>4. d \in DOMAIN rows[j] /\ rows[j][d] = r[d]
        BY <3>2, <3>3 DEF CrossEvent
      <3> QED BY <3>3, <3>4 DEF j
    <2>13. \A k \in Nat : k \in Q
      <3> HIDE DEF Q
      <3> QED BY <2>11, <2>12, InductionSet
    <2>14. rows[n][d] = rows[a][d]
      <3>1. n - a \in Nat /\ a + (n - a) = n
        BY <2>1
      <3>2. n - a \in Q
        BY <2>13, <3>1
      <3> QED BY <3>1, <3>2
    <2> QED BY <2>6, <2>10, <2>14
  <1>6. DocumentedPrices(prices, events) = [d \in DOMAIN prices |-> ClampAndRound(rows[n][d].num, rows[n][d].den)]
    BY <1>4 DEF DocumentedPrices, CrossAll, sorted
  <1>7. ASSUME NEW d \in DOMAIN prices
        PROVE  LET f == FactorsAt(events, d)
               IN  ClampAndRound(rows[n][d].num, rows[n][d].den) = ClampAndRound(prices[d] * f.mult - f.add, f.den)
    <2> DEFINE f == FactorsAt(events, d)
               x == prices[d] * f.mult - f.add
    <2>1. rows[n][d] = [num |-> x, den |-> f.den]
      BY <1>5
    <2> HIDE DEF x, f
    <2>2. rows[n][d].num = x /\ rows[n][d].den = f.den
      BY <2>1
    <2>3. ClampAndRound(rows[n][d].num, rows[n][d].den) = ClampAndRound(x, f.den)
      BY <2>2
    <2> QED BY <2>3 DEF x, f
  <1> QED BY <1>6, <1>7 DEF compute_adjusted_prices

\* The inputs of the runs are such prices and events.
LEMMA AdjustInputsFit ==
    ASSUME NEW x \in AdjustInputs
    PROVE  compute_adjusted_prices(x.prices, x.events) = DocumentedPrices(x.prices, x.events)
  <1>1. \A e \in AdjustEvents : IsEvent(e)
    BY DEF AdjustEvents, IsEvent
  <1>2. DOMAIN x.prices \subseteq Int /\ \A d \in DOMAIN x.prices : x.prices[d] \in Int
    BY DEF AdjustInputs
  <1>3. \E n \in Nat : DOMAIN x.events = 1 .. n /\ \A i \in 1 .. n : x.events[i] \in AdjustEvents
    <2>1. x.events \in UNION {[1 .. n -> AdjustEvents] : n \in 0 .. 2} \/ x.events \in [1 .. 3 -> AdjustEvents]
      BY DEF AdjustInputs
    <2>2. CASE x.events \in UNION {[1 .. n -> AdjustEvents] : n \in 0 .. 2}
      <3>1. PICK n \in 0 .. 2 : x.events \in [1 .. n -> AdjustEvents]
        BY <2>2
      <3> QED BY <3>1
    <2>3. CASE x.events \in [1 .. 3 -> AdjustEvents]
      BY <2>3
    <2> QED BY <2>1, <2>2, <2>3
  <1> QED BY <1>1, <1>2, <1>3, BackwardPassIsExact

\* An input of one of the other algorithms is of its own kind.
LEMMA AdjustCases ==
    ASSUME case \in Cases, case.of = "adjust"
    PROVE  case.input \in AdjustInputs
  BY DEF Cases, Case

(***************************************************************************)
(* compute_adjusted_prices gives what its docstring documents on every     *)
(* input of the algorithms' specification.                                 *)
(***************************************************************************)
THEOREM AdjustmentIsExact == AlgSpec => []AdjustExact
  <1> DEFINE Fits == case.of = "adjust" => case.input \in AdjustInputs
  <1>1. AlgInit => Fits
    BY AdjustCases DEF AlgInit, Case
  <1>2. Fits /\ [AlgNext]_algVars => Fits'
    BY DEF AlgNext, algVars
  <1>3. Fits => AdjustExact
    BY AdjustInputsFit DEF AdjustExact
  <1> QED BY <1>1, <1>2, <1>3, PTL DEF AlgSpec

-----------------------------------------------------------------------------
(***************************************************************************)
(* Exact fractions.  Gcd is a recursive function over pairs: it exists     *)
(* because the second number shrinks, and it divides both.                 *)
(***************************************************************************)
Pairs(m) == Nat \X (0 .. m)
GcdOf(h, p) == IF p[2] = 0 THEN p[1] ELSE h[<<p[2], p[1] % p[2]>>]
IsGcd(h, S) == h = [p \in S |-> GcdOf(h, p)]

\* The pair of the next call.
LEMMA NextPair ==
    ASSUME NEW m \in Nat, NEW p \in Pairs(m), p[2] # 0
    PROVE  <<p[2], p[1] % p[2]>> \in Pairs(p[2] - 1) /\ p[2] - 1 \in Nat /\ p[2] - 1 <= m
  <1>1. p[1] \in Nat /\ p[2] \in Nat \ {0} /\ p[2] <= m
    BY DEF Pairs
  <1>2. p[1] % p[2] \in 0 .. (p[2] - 1)
    <2> DEFINE a == p[1]
               b == p[2]
    <2>1. a \in Nat /\ b \in Nat \ {0}
      BY <1>1
    <2> HIDE DEF a, b
    <2>2. a % b \in Nat /\ a % b <= b - 1
      BY <2>1, Modulo
    <2> DEFINE r == a % b
    <2> HIDE DEF r
    <2>3. r \in 0 .. (b - 1)
      BY <2>1, <2>2 DEF r
    <2> QED BY <2>3 DEF r, a, b
  <1> DEFINE r == p[1] % p[2]
  <1>3. r \in 0 .. (p[2] - 1)
    BY <1>2
  <1> HIDE DEF r
  <1>4. <<p[2], r>> \in Nat \X (0 .. (p[2] - 1))
    BY <1>1, <1>3
  <1> QED BY <1>1, <1>4 DEF Pairs, r

LEMMA GcdBounded ==
    ASSUME NEW n \in Nat
    PROVE  \E h : IsGcd(h, Pairs(n))
  <1> DEFINE P == {m \in Nat : \E h : IsGcd(h, Pairs(m))}
  <1>1. 0 \in P
    <2> DEFINE h == [p \in Pairs(0) |-> p[1]]
    <2>1. \A p \in Pairs(0) : p[2] = 0
      BY DEF Pairs
    <2>2. \A p \in Pairs(0) : GcdOf(h, p) = p[1]
      BY <2>1 DEF GcdOf
    <2>3. h = [p \in Pairs(0) |-> GcdOf(h, p)]
      <3>1. [p \in Pairs(0) |-> GcdOf(h, p)] = [p \in Pairs(0) |-> p[1]]
        <4> HIDE DEF h
        <4> QED BY <2>2
      <3> QED BY <3>1
    <2>4. IsGcd(h, Pairs(0))
      <3> HIDE DEF h
      <3> QED BY <2>3 DEF IsGcd
    <2> HIDE DEF h
    <2> QED BY <2>4
  <1>2. ASSUME NEW m \in Nat, m \in P PROVE m + 1 \in P
    <2>1. PICK h : IsGcd(h, Pairs(m))
      BY <1>2
    <2> DEFINE g == [p \in Pairs(m + 1) |-> GcdOf(h, p)]
    <2>2. ASSUME NEW p \in Pairs(m) PROVE p \in Pairs(m + 1) /\ g[p] = h[p]
      <3>1. p \in Pairs(m + 1)
        BY DEF Pairs
      <3>2. h[p] = GcdOf(h, p)
        BY <2>1 DEF IsGcd
      <3> QED BY <3>1, <3>2
    <2>3. ASSUME NEW p \in Pairs(m + 1) PROVE g[p] = GcdOf(g, p)
      <3>1. g[p] = GcdOf(h, p)
        OBVIOUS
      <3>2. CASE p[2] = 0
        BY <3>1, <3>2 DEF GcdOf
      <3>3. CASE p[2] # 0
        <4> DEFINE q == <<p[2], p[1] % p[2]>>
        <4>1. q \in Pairs(p[2] - 1) /\ p[2] - 1 \in Nat /\ p[2] - 1 <= m + 1
          BY <3>3, NextPair
        <4>2. p[2] - 1 <= m
          <5>1. p[2] <= m + 1 /\ p[2] \in Nat
            BY DEF Pairs
          <5> QED BY <5>1
        <4>3. q \in Pairs(m)
          <5> HIDE DEF q
          <5> QED BY <4>1, <4>2 DEF Pairs
        <4>4. g[q] = h[q]
          <5> HIDE DEF q, g
          <5> QED BY <2>2, <4>3
        <4>5. GcdOf(g, p) = g[q] /\ GcdOf(h, p) = h[q]
          <5> HIDE DEF g
          <5> QED BY <3>3 DEF GcdOf
        <4> HIDE DEF g, q
        <4> QED BY <3>1, <4>4, <4>5
      <3> QED BY <3>2, <3>3
    <2>4. g = [p \in Pairs(m + 1) |-> g[p]]
      OBVIOUS
    <2> HIDE DEF g
    <2>5. IsGcd(g, Pairs(m + 1))
      BY <2>3, <2>4 DEF IsGcd
    <2>6. m + 1 \in Nat
      OBVIOUS
    <2> QED BY <2>5, <2>6
  <1>3. \A m \in Nat : m \in P
    <2> HIDE DEF P
    <2> QED BY <1>1, <1>2, InductionSet
  <1> QED BY <1>3

\* Two of them agree where both are defined.
LEMMA GcdAgree ==
    ASSUME NEW m \in Nat, NEW n \in Nat, NEW g, IsGcd(g, Pairs(m)), NEW h, IsGcd(h, Pairs(n)),
           NEW k \in Nat, k <= m, k <= n
    PROVE  \A p \in Pairs(k) : g[p] = h[p]
  <1> DEFINE P == {j \in Nat : j <= k => \A p \in Pairs(j) : g[p] = h[p]}
  <1>0. \A j \in Nat : j <= k => Pairs(j) \subseteq Pairs(m) /\ Pairs(j) \subseteq Pairs(n)
    BY DEF Pairs
  <1>1. ASSUME NEW j \in Nat, j <= k, NEW p \in Pairs(j) PROVE g[p] = GcdOf(g, p) /\ h[p] = GcdOf(h, p)
    BY <1>0, <1>1 DEF IsGcd
  <1>2. 0 \in P
    <2>1. ASSUME NEW p \in Pairs(0) PROVE g[p] = h[p]
      <3>1. p[2] = 0
        BY DEF Pairs
      <3>2. g[p] = GcdOf(g, p) /\ h[p] = GcdOf(h, p)
        BY <1>1
      <3> QED BY <3>1, <3>2 DEF GcdOf
    <2> QED BY <2>1
  <1>3. ASSUME NEW j \in Nat, j \in P PROVE j + 1 \in P
    <2>1. ASSUME j + 1 <= k, NEW p \in Pairs(j + 1) PROVE g[p] = h[p]
      <3>1. j + 1 \in Nat /\ j <= k
        BY <2>1
      <3>2. g[p] = GcdOf(g, p) /\ h[p] = GcdOf(h, p)
        BY <1>1, <2>1, <3>1
      <3>3. CASE p[2] = 0
        BY <3>2, <3>3 DEF GcdOf
      <3>4. CASE p[2] # 0
        <4> DEFINE q == <<p[2], p[1] % p[2]>>
        <4>1. q \in Pairs(p[2] - 1) /\ p[2] - 1 \in Nat
          BY <2>1, <3>1, <3>4, NextPair
        <4>2. p[2] \in Nat /\ p[2] <= j + 1
          BY <2>1 DEF Pairs
        <4>3. q \in Pairs(j)
          <5> HIDE DEF q
          <5> QED BY <4>1, <4>2 DEF Pairs
        <4>4. g[q] = h[q]
          <5> HIDE DEF q
          <5> QED BY <1>3, <3>1, <4>3
        <4> QED BY <3>2, <3>4, <4>4 DEF GcdOf
      <3> QED BY <3>3, <3>4
    <2>2. j + 1 \in Nat
      OBVIOUS
    <2> QED BY <2>1, <2>2
  <1>4. \A j \in Nat : j \in P
    <2> HIDE DEF P
    <2> QED BY <1>2, <1>3, InductionSet
  <1> QED BY <1>4

LEMMA GcdRecursion ==
    ASSUME NEW a \in Nat, NEW b \in Nat
    PROVE  Gcd[<<a, b>>] = IF b = 0 THEN a ELSE Gcd[<<b, a % b>>]
  <1> DEFINE S == Nat \X Nat
             part == [m \in Nat |-> CHOOSE h : IsGcd(h, Pairs(m))]
             full == [p \in S |-> part[p[2]][p]]
  <1>1. ASSUME NEW m \in Nat PROVE IsGcd(part[m], Pairs(m))
    <2>1. part[m] = CHOOSE h : IsGcd(h, Pairs(m))
      OBVIOUS
    <2> HIDE DEF part
    <2> QED BY <2>1, GcdBounded
  <1> HIDE DEF part
  <1>2. ASSUME NEW p \in S PROVE full[p] = GcdOf(full, p)
    <2> DEFINE m == p[2]
    <2>1. m \in Nat /\ p \in Pairs(m) /\ full[p] = part[m][p]
      BY DEF Pairs
    <2>2. part[m][p] = GcdOf(part[m], p)
      <3> HIDE DEF m, full
      <3> QED BY <1>1, <2>1 DEF IsGcd
    <2>3. CASE m = 0
      <3>1. GcdOf(full, p) = GcdOf(part[m], p)
        <4> HIDE DEF full
        <4> QED BY <2>3 DEF GcdOf
      <3> HIDE DEF full
      <3> QED BY <2>1, <2>2, <3>1
    <2>4. CASE m # 0
      <3> DEFINE q == <<m, p[1] % m>>
                 k == q[2]
      <3>1. q \in Pairs(m - 1) /\ m - 1 \in Nat /\ m - 1 <= m
        <4> HIDE DEF full
        <4> QED BY <2>1, <2>4, NextPair
      <3>2. q \in S /\ k \in Nat /\ k <= m - 1 /\ q \in Pairs(k)
        BY <3>1 DEF Pairs
      <3>3. full[q] = part[k][q]
        <4> HIDE DEF q
        <4>1. q \in S
          BY <3>2
        <4> QED BY <4>1
      <3>4. part[k][q] = part[m][q]
        <4> DEFINE gk == part[k]
                   gm == part[m]
        <4>1. IsGcd(gk, Pairs(k)) /\ IsGcd(gm, Pairs(m)) /\ k <= m /\ k <= k
          BY <1>1, <2>1, <3>1, <3>2
        <4> HIDE DEF gk, gm, k, m, q
        <4>2. \A r \in Pairs(k) : gk[r] = gm[r]
          BY <2>1, <3>2, <4>1, GcdAgree
        <4> QED BY <3>2, <4>2 DEF gk, gm
      <3>5. GcdOf(full, p) = full[q] /\ GcdOf(part[m], p) = part[m][q]
        <4> HIDE DEF full
        <4> QED BY <2>4 DEF GcdOf
      <3> HIDE DEF full, q, m
      <3> QED BY <2>1, <2>2, <3>3, <3>4, <3>5
    <2> QED BY <2>3, <2>4
  <1>3. full = [p \in S |-> GcdOf(full, p)]
    <2>1. full = [p \in S |-> full[p]]
      OBVIOUS
    <2> HIDE DEF full, S
    <2> QED BY <1>2, <2>1
  <1>4. Gcd = CHOOSE h : h = [p \in S |-> GcdOf(h, p)]
    BY DEF Gcd, GcdOf
  <1>5. Gcd = [p \in S |-> GcdOf(Gcd, p)]
    <2> HIDE DEF full, S
    <2> QED BY <1>3, <1>4
  <1>6. <<a, b>> \in S
    OBVIOUS
  <1>7. Gcd[<<a, b>>] = GcdOf(Gcd, <<a, b>>)
    BY <1>5, <1>6
  <1> QED BY <1>7 DEF GcdOf

\* It is positive and goes into both numbers.
LEMMA GcdDivides ==
    ASSUME NEW a \in Nat, NEW b \in Nat, a # 0 \/ b # 0
    PROVE  /\ Gcd[<<a, b>>] \in Nat \ {0}
           /\ \E x, y \in Nat : a = x * Gcd[<<a, b>>] /\ b = y * Gcd[<<a, b>>]
  <1> DEFINE Goes(c, d) == /\ Gcd[<<c, d>>] \in Nat \ {0}
                           /\ \E x, y \in Nat : c = x * Gcd[<<c, d>>] /\ d = y * Gcd[<<c, d>>]
             P == {m \in Nat : \A c, d \in Nat : d <= m /\ (c # 0 \/ d # 0) => Goes(c, d)}
  <1>1. ASSUME NEW c \in Nat \ {0} PROVE Goes(c, 0)
    <2>1. Gcd[<<c, 0>>] = c
      BY GcdRecursion
    <2>2. 1 \in Nat /\ 0 \in Nat /\ c = 1 * c /\ 0 = 0 * c
      OBVIOUS
    <2> QED BY <2>1, <2>2
  <1>2. 0 \in P
    BY <1>1
  <1>3. ASSUME NEW m \in Nat, m \in P PROVE m + 1 \in P
    <2>1. ASSUME NEW c \in Nat, NEW d \in Nat, d <= m + 1, c # 0 \/ d # 0 PROVE Goes(c, d)
      <3>1. CASE d = 0
        BY <1>1, <2>1, <3>1
      <3>2. CASE d # 0
        <4> DEFINE r == c % d
                   q == c \div d
                   g == Gcd[<<d, r>>]
        <4>1. r \in Nat /\ r <= d - 1 /\ q \in Nat /\ c = d * q + r
          BY <3>2, Modulo
        <4>2. Gcd[<<c, d>>] = g
          BY <3>2, GcdRecursion
        <4> HIDE DEF r, q
        <4>3. r <= m
          BY <2>1, <4>1
        <4>4. Goes(d, r)
          <5> HIDE DEF Goes
          <5> QED BY <1>3, <3>2, <4>1, <4>3
        <4>5. g \in Nat \ {0}
          BY <4>4
        <4>6. PICK x, y \in Nat : d = x * g /\ r = y * g
          BY <4>4
        <4> HIDE DEF g
        <4>7. x * q + y \in Nat
          BY <4>1
        <4>8. c = (x * q + y) * g
          <5>1. d * q = x * q * g
            BY <4>1, <4>5, <4>6
          <5>2. (x * q + y) * g = x * q * g + y * g
            BY <4>1, <4>5
          <5> QED BY <4>1, <4>6, <5>1, <5>2
        <4> QED BY <4>2, <4>5, <4>6, <4>7, <4>8
      <3> QED BY <3>1, <3>2
    <2>2. m + 1 \in Nat
      OBVIOUS
    <2> HIDE DEF Goes
    <2> QED BY <2>1, <2>2
  <1>4. \A m \in Nat : m \in P
    <2> HIDE DEF P
    <2> QED BY <1>2, <1>3, InductionSet
  <1>5. Goes(a, b)
    <2> HIDE DEF Goes
    <2>1. b \in P
      BY <1>4
    <2> QED BY <2>1
  <1> QED BY <1>5

\* A number of the engine, and the number x / D.
IsFraction(a) == a = [tag |-> "num", n |-> a.n, d |-> a.d] /\ a.n \in Int /\ a.d \in Nat \ {0}
Worth(a, x, D) == IsFraction(a) /\ x \in Int /\ D \in Nat \ {0} /\ a.n * D = x * a.d

LEMMA Cancel ==
    ASSUME NEW a \in Int, NEW b \in Int, NEW c \in Nat \ {0}, a * c = b * c
    PROVE  a = b
  OBVIOUS

LEMMA Undo ==
    ASSUME NEW q \in Int, NEW g \in Nat \ {0}
    PROVE  (q * g) \div g = q
  OBVIOUS

LEMMA Rearrange ==
    ASSUME NEW a \in Int, NEW b \in Int, NEW c \in Int
    PROVE  a * b * c = a * c * b /\ a * b * c = b * c * a /\ a * b * c = a * (b * c)
  OBVIOUS

LEMMA PositiveProduct ==
    ASSUME NEW a \in Nat \ {0}, NEW b \in Nat \ {0}
    PROVE  a * b \in Nat \ {0}
  OBVIOUS

\* Reducing a fraction does not change its value.
LEMMA Reduced ==
    ASSUME NEW n \in Int, NEW d \in Nat \ {0}
    PROVE  IsFraction(Fraction(n, d)) /\ Fraction(n, d).n * d = n * Fraction(n, d).d
  <1> DEFINE a == IF n < 0 THEN -n ELSE n
             g == Gcd[<<a, d>>]
  <1>1. a \in Nat
    OBVIOUS
  <1>2. g \in Nat \ {0} /\ \E x, y \in Nat : a = x * g /\ d = y * g
    <2> HIDE DEF a
    <2> QED BY <1>1, GcdDivides
  <1>3. PICK x, y \in Nat : a = x * g /\ d = y * g
    BY <1>2
  <1>4. Fraction(n, d) = [tag |-> "num", n |-> (1 * n) \div g, d |-> (1 * d) \div g]
    <2>1. ~(d < 0)
      OBVIOUS
    <2> QED BY <2>1 DEF Fraction
  <1> HIDE DEF g
  <1> DEFINE q == IF n < 0 THEN -x ELSE x
  <1>5. q \in Int /\ n = q * g
    BY <1>2, <1>3
  <1> HIDE DEF q, a
  <1>6. (1 * n) \div g = q /\ (1 * d) \div g = y
    <2>1. 1 * n = q * g /\ 1 * d = y * g
      BY <1>3, <1>5
    <2>2. (q * g) \div g = q /\ (y * g) \div g = y
      BY <1>2, <1>5, Undo
    <2> QED BY <2>1, <2>2
  <1>7. Fraction(n, d) = [tag |-> "num", n |-> q, d |-> y]
    BY <1>4, <1>6
  <1>8. y # 0
    BY <1>2, <1>3
  <1>9. q * d = n * y
    <2>1. q * (y * g) = (q * g) * y
      BY <1>2, <1>5
    <2> QED BY <1>3, <1>5, <2>1
  <1> QED BY <1>5, <1>7, <1>8, <1>9 DEF IsFraction

LEMMA FractionValue ==
    ASSUME NEW N \in Int, NEW M \in Nat \ {0}, NEW D \in Nat \ {0}, NEW X \in Int, N * D = X * M
    PROVE  Worth(Fraction(N, M), X, D)
  <1> DEFINE f == Fraction(N, M)
             u == f.n
             v == f.d
  <1>1. IsFraction(f) /\ u * M = N * v
    BY Reduced
  <1>2. u \in Int /\ v \in Int
    BY <1>1 DEF IsFraction
  <1> HIDE DEF f, u, v
  <1>3. (u * D) * M = (u * M) * D
    BY <1>2, Rearrange
  <1>4. (N * v) * D = (N * D) * v
    BY <1>2, Rearrange
  <1>5. (X * M) * v = (X * v) * M
    BY <1>2, Rearrange
  <1>6. (u * D) * M = (X * v) * M
    BY <1>1, <1>3, <1>4, <1>5
  <1>7. u * D \in Int /\ X * v \in Int
    BY <1>2
  <1>8. u * D = X * v
    <2> DEFINE s == u * D
               t == X * v
    <2> HIDE DEF s, t
    <2>1. s \in Int /\ t \in Int /\ s * M = t * M
      BY <1>6, <1>7 DEF s, t
    <2>2. s = t
      BY <2>1, Cancel
    <2> QED BY <2>2 DEF s, t
  <1> QED BY <1>1, <1>8 DEF Worth, f, u, v

\* The sum over a common denominator.
LEMMA PlusValue ==
    ASSUME NEW a, NEW b, NEW x, NEW y, NEW D, Worth(a, x, D), Worth(b, y, D)
    PROVE  Worth(Plus(a, b), x + y, D)
  <1> DEFINE p == a.d
             q == b.d
             g == Gcd[<<p, q>>]
  <1>1. /\ p \in Nat \ {0} /\ q \in Nat \ {0} /\ a.n \in Int /\ b.n \in Int /\ D \in Nat \ {0} /\ x \in Int /\ y \in Int
        /\ a.tag = "num" /\ b.tag = "num"
    BY DEF Worth, IsFraction
  <1>2. a.n * D = x * p /\ b.n * D = y * q
    BY DEF Worth
  <1> DEFINE k == a.n
             l == b.n
             r == p \div g
             s == q \div g
  <1>3. Plus(a, b) = Fraction(k * s + l * r, p * s)
    BY <1>1 DEF Plus, Lift
  <1> HIDE DEF p, q, k, l
  <1>4. g \in Nat \ {0} /\ \E i, j \in Nat : p = i * g /\ q = j * g
    BY <1>1, GcdDivides
  <1>5. PICK i, j \in Nat : p = i * g /\ q = j * g
    BY <1>4
  <1> HIDE DEF g
  <1>6. r = i /\ s = j
    BY <1>4, <1>5, Undo
  <1> HIDE DEF r, s
  <1>7. j # 0 /\ i # 0
    BY <1>1, <1>4, <1>5
  <1>8. k \in Int /\ l \in Int /\ k * D = x * p /\ l * D = y * q
    BY <1>1, <1>2 DEF k, l
  <1>9. (k * s + l * r) * D = (x + y) * (p * s)
    <2>1. (k * j + l * i) * D = k * j * D + l * i * D
      BY <1>1, <1>8
    <2>2. k * j * D = k * D * j /\ l * i * D = l * D * i
      BY <1>1, <1>8, Rearrange
    <2>3. k * j * D = (x * p) * j /\ l * i * D = (y * q) * i
      BY <1>8, <2>2
    <2>4. (x * p) * j = x * (p * j)
      BY <1>1, Rearrange
    <2>5. q * i = p * j
      <3>1. (j * g) * i = (i * g) * j
        BY <1>4
      <3> QED BY <1>5, <3>1
    <2>6. (y * q) * i = y * (q * i)
      BY <1>1, Rearrange
    <2>7. p * j \in Int
      BY <1>1
    <2>8. x * (p * j) + y * (p * j) = (x + y) * (p * j)
      <3> DEFINE m == p * j
      <3> HIDE DEF m
      <3>1. m \in Int
        BY <2>7 DEF m
      <3>2. x * m + y * m = (x + y) * m
        BY <1>1, <3>1
      <3> QED BY <3>2 DEF m
    <2> QED BY <1>6, <2>1, <2>3, <2>4, <2>5, <2>6, <2>8
  <1>10. k * s + l * r \in Int /\ p * s \in Nat \ {0}
    BY <1>1, <1>6, <1>7, <1>8, PositiveProduct, ProductsInt
  <1>11. x + y \in Int
    BY <1>1
  <1> QED BY <1>1, <1>3, <1>9, <1>10, <1>11, FractionValue

LEMMA MinusValue ==
    ASSUME NEW a, NEW b, NEW x, NEW y, NEW D, Worth(a, x, D), Worth(b, y, D)
    PROVE  Worth(Minus(a, b), x - y, D)
  <1> DEFINE c == [b EXCEPT !.n = -@]
             k == b.n
             d == b.d
  <1>1. b = [tag |-> "num", n |-> k, d |-> d] /\ k \in Int /\ d \in Nat \ {0} /\ y \in Int /\ D \in Nat \ {0} /\ k * D = y * d
    BY DEF Worth, IsFraction
  <1>2. x \in Int
    BY DEF Worth
  <1> HIDE DEF k, d
  <1>3. c = [tag |-> "num", n |-> -k, d |-> d]
    BY <1>1
  <1>4. (-k) * D = (-y) * d
    <2>1. (-k) * D = -(k * D) /\ (-y) * d = -(y * d)
      BY <1>1
    <2> QED BY <1>1, <2>1
  <1> HIDE DEF c
  <1>5. Worth(c, -y, D)
    BY <1>1, <1>3, <1>4 DEF Worth, IsFraction
  <1>6. Worth(Plus(a, c), x + (-y), D)
    BY <1>5, PlusValue
  <1>7. x + (-y) = x - y
    BY <1>1, <1>2
  <1> QED BY <1>6, <1>7 DEF Minus, c

LEMMA TimesValue ==
    ASSUME NEW a, NEW b, NEW x, NEW y, NEW D, NEW E, Worth(a, x, D), Worth(b, y, E)
    PROVE  Worth(Times(a, b), x * y, D * E)
  <1> DEFINE k == a.n
             l == b.n
             p == a.d
             q == b.d
  <1>1. /\ k \in Int /\ l \in Int /\ p \in Nat \ {0} /\ q \in Nat \ {0} /\ x \in Int /\ y \in Int
        /\ D \in Nat \ {0} /\ E \in Nat \ {0} /\ k * D = x * p /\ l * E = y * q
    BY DEF Worth, IsFraction
  <1>2. Times(a, b) = Fraction(k * l, p * q)
    BY DEF Times, Lift, Worth, IsFraction
  <1> HIDE DEF k, l, p, q
  <1>3. (k * l) * (D * E) = (x * y) * (p * q)
    <2>1. (k * l) * (D * E) = (k * D) * (l * E) /\ (x * p) * (y * q) = (x * y) * (p * q)
      BY <1>1
    <2> QED BY <1>1, <2>1
  <1>4. k * l \in Int /\ x * y \in Int /\ p * q \in Nat \ {0} /\ D * E \in Nat \ {0}
    BY <1>1, PositiveProduct
  <1> QED BY <1>2, <1>3, <1>4, FractionValue

LEMMA RatioValue ==
    ASSUME NEW a, NEW b, NEW x, NEW y, NEW D, NEW E, Worth(a, x, D), Worth(b, y, E), y > 0
    PROVE  Worth(Ratio(a, b), x * E, D * y)
  <1> DEFINE k == a.n
             l == b.n
             p == a.d
             q == b.d
  <1>1. /\ k \in Int /\ l \in Int /\ p \in Nat \ {0} /\ q \in Nat \ {0} /\ x \in Int /\ y \in Int
        /\ D \in Nat \ {0} /\ E \in Nat \ {0} /\ k * D = x * p /\ l * E = y * q
    BY DEF Worth, IsFraction
  <1>2. Ratio(a, b) = Fraction(k * q, p * l)
    BY DEF Ratio, Lift, Worth, IsFraction
  <1> HIDE DEF k, l, p, q
  <1>3. y \in Nat \ {0}
    BY <1>1
  <1>4. l \in Nat \ {0}
    <2>1. y * q > 0
      BY <1>1, <1>3, PositiveProduct
    <2>2. l * E > 0
      BY <1>1, <2>1
    <2> QED BY <1>1, <2>2
  <1>5. (k * q) * (D * y) = (x * E) * (p * l)
    <2>1. (k * q) * (D * y) = (k * D) * (y * q) /\ (x * E) * (p * l) = (x * p) * (l * E)
      BY <1>1
    <2> QED BY <1>1, <2>1
  <1>6. k * q \in Int /\ x * E \in Int /\ p * l \in Nat \ {0} /\ D * y \in Nat \ {0}
    BY <1>1, <1>3, <1>4, PositiveProduct
  <1> QED BY <1>2, <1>5, <1>6, FractionValue

\* Two fractions over one denominator compare like their numerators.
LEMMA CompareValues ==
    ASSUME NEW a, NEW b, NEW x, NEW y, NEW D, Worth(a, x, D), Worth(b, y, D)
    PROVE  /\ Same(a, b) <=> x = y
           /\ Less(a, b) <=> x < y
           /\ AtMost(a, b) <=> x <= y
  <1> DEFINE k == a.n
             l == b.n
             p == a.d
             q == b.d
  <1>1. /\ k \in Int /\ l \in Int /\ p \in Nat \ {0} /\ q \in Nat \ {0} /\ x \in Int /\ y \in Int
        /\ D \in Nat \ {0} /\ k * D = x * p /\ l * D = y * q
    BY DEF Worth, IsFraction
  <1>2. /\ Same(a, b) <=> k * q = l * p
        /\ Less(a, b) <=> k * q < l * p
        /\ AtMost(a, b) <=> k * q <= l * p
    BY DEF Same, Less, AtMost, IsNum, Worth, IsFraction
  <1> HIDE DEF k, l, p, q
  <1> DEFINE u == k * q
             v == l * p
             m == p * q
  <1>3. u \in Int /\ v \in Int /\ m \in Nat \ {0}
    BY <1>1, PositiveProduct
  <1>4. u * D = x * m /\ v * D = y * m
    <2>1. u * D = (k * D) * q /\ v * D = (l * D) * p /\ (x * p) * q = x * m /\ (y * q) * p = y * m
      BY <1>1
    <2> QED BY <1>1, <2>1
  <1> HIDE DEF u, v, m
  <1>5. u - v \in Int /\ x - y \in Int /\ (u - v) * D = (x - y) * m
    <2>1. (u - v) * D = u * D - v * D /\ (x - y) * m = x * m - y * m
      BY <1>1, <1>3
    <2> QED BY <1>1, <1>3, <1>4, <2>1
  <1>6. (u - v = 0 <=> x - y = 0) /\ (u - v < 0 <=> x - y < 0)
    <2> DEFINE s == u - v
               t == x - y
    <2> HIDE DEF s, t
    <2>1. s \in Int /\ t \in Int /\ s * D = t * m
      BY <1>5 DEF s, t
    <2>2. s = 0 <=> t = 0
      BY <1>1, <1>3, <2>1
    <2>3. s < 0 => s * D < 0
      BY <1>1, <2>1
    <2>4. s >= 0 => s * D >= 0
      BY <1>1, <2>1
    <2>5. t < 0 => t * m < 0
      BY <1>3, <2>1
    <2>6. t >= 0 => t * m >= 0
      BY <1>3, <2>1
    <2>7. s < 0 <=> t < 0
      <3> DEFINE z == s * D
      <3>1. z \in Int /\ t * m = z
        BY <1>1, <2>1
      <3> HIDE DEF z
      <3> QED BY <2>1, <2>3, <2>4, <2>5, <2>6, <3>1 DEF z
    <2> QED BY <2>2, <2>7 DEF s, t
  <1>7. (u = v <=> x = y) /\ (u < v <=> x < y) /\ (u <= v <=> x <= y)
    BY <1>1, <1>3, <1>6
  <1> QED BY <1>2, <1>7 DEF u, v

\* Over a larger denominator; whole numbers.
LEMMA ScaleValue ==
    ASSUME NEW a, NEW x, NEW D, Worth(a, x, D), NEW k \in Nat \ {0}
    PROVE  Worth(a, x * k, D * k)
  <1> DEFINE n == a.n
             d == a.d
  <1>1. n \in Int /\ d \in Nat \ {0} /\ x \in Int /\ D \in Nat \ {0} /\ n * D = x * d
    BY DEF Worth, IsFraction
  <1> HIDE DEF n, d
  <1>2. n * (D * k) = (x * k) * d
    <2>1. n * (D * k) = (n * D) * k /\ (x * k) * d = (x * d) * k
      BY <1>1
    <2> QED BY <1>1, <2>1
  <1>3. x * k \in Int /\ D * k \in Nat \ {0}
    BY <1>1, PositiveProduct
  <1> QED BY <1>2, <1>3 DEF Worth, n, d

LEMMA NumValue ==
    ASSUME NEW n \in Int, NEW D \in Nat \ {0}
    PROVE  Worth(Num(n), n * D, D)
  BY DEF Num, Worth, IsFraction

LEMMA OwnValue ==
    ASSUME NEW a, IsFraction(a)
    PROVE  Worth(a, a.n, a.d)
  BY DEF Worth, IsFraction

LEMMA SameTransitive ==
    ASSUME NEW a, NEW b, NEW c, IsFraction(a), IsFraction(b), IsFraction(c), Same(a, b), Same(b, c)
    PROVE  Same(a, c)
  <1> DEFINE i == a.n
             j == b.n
             k == c.n
             p == a.d
             q == b.d
             r == c.d
  <1>1. i \in Int /\ j \in Int /\ k \in Int /\ p \in Nat \ {0} /\ q \in Nat \ {0} /\ r \in Nat \ {0}
    BY DEF IsFraction
  <1>2. i * q = j * p /\ j * r = k * q
    BY DEF Same
  <1>3. IsNum(a) /\ IsNum(c)
    BY DEF Same
  <1> HIDE DEF i, j, k, p, q, r
  <1>4. (i * r) * q = (k * p) * q
    <2>1. (i * r) * q = (i * q) * r /\ (j * p) * r = (j * r) * p /\ (k * q) * p = (k * p) * q
      BY <1>1
    <2> QED BY <1>2, <2>1
  <1> DEFINE u == i * r
             v == k * p
  <1>5. u \in Int /\ v \in Int
    BY <1>1
  <1> HIDE DEF u, v
  <1>6. u = v
    BY <1>1, <1>4, <1>5, Cancel DEF u, v
  <1> QED BY <1>3, <1>6 DEF Same, u, v, i, k, p, r

\* Four fractions over one denominator.
LEMMA Common ==
    ASSUME NEW a, NEW b, NEW c, NEW e, IsFraction(a), IsFraction(b), IsFraction(c), IsFraction(e)
    PROVE  \E D \in Nat \ {0} : \E x, y, z, w \in Int : Worth(a, x, D) /\ Worth(b, y, D) /\ Worth(c, z, D) /\ Worth(e, w, D)
  <1>1. /\ a.d \in Nat \ {0} /\ b.d \in Nat \ {0} /\ c.d \in Nat \ {0} /\ e.d \in Nat \ {0}
        /\ Worth(a, a.n, a.d) /\ Worth(b, b.n, b.d) /\ Worth(c, c.n, c.d) /\ Worth(e, e.n, e.d)
    BY OwnValue DEF IsFraction
  <1> DEFINE p == a.d
             q == b.d
             r == c.d
             s == e.d
             D == ((p * q) * r) * s
  <1>2. p * q \in Nat \ {0} /\ r * s \in Nat \ {0} /\ p * r \in Nat \ {0}
    BY <1>1, PositiveProduct
  <1>3. q * (r * s) \in Nat \ {0} /\ p * (r * s) \in Nat \ {0} /\ (p * q) * s \in Nat \ {0} /\ (p * q) * r \in Nat \ {0}
    BY <1>1, <1>2, PositiveProduct
  <1>4. /\ p * (q * (r * s)) = D /\ q * (p * (r * s)) = D /\ r * ((p * q) * s) = D /\ s * ((p * q) * r) = D
    BY <1>1
  <1>5. D \in Nat \ {0}
    BY <1>1, <1>3, PositiveProduct
  <1>6. Worth(a, a.n * (q * (r * s)), p * (q * (r * s)))
    BY <1>1, <1>3, ScaleValue
  <1>7. Worth(b, b.n * (p * (r * s)), q * (p * (r * s)))
    BY <1>1, <1>3, ScaleValue
  <1>8. Worth(c, c.n * ((p * q) * s), r * ((p * q) * s))
    BY <1>1, <1>3, ScaleValue
  <1>9. Worth(e, e.n * ((p * q) * r), s * ((p * q) * r))
    BY <1>1, <1>3, ScaleValue
  <1> DEFINE x == a.n * (q * (r * s))
             y == b.n * (p * (r * s))
             z == c.n * ((p * q) * s)
             w == e.n * ((p * q) * r)
  <1>10. Worth(a, x, D) /\ Worth(b, y, D) /\ Worth(c, z, D) /\ Worth(e, w, D)
    <2> HIDE DEF D, x, y, z, w
    <2> QED BY <1>4, <1>6, <1>7, <1>8, <1>9 DEF x, y, z, w
  <1>11. x \in Int /\ y \in Int /\ z \in Int /\ w \in Int
    <2> HIDE DEF D, x, y, z, w
    <2> QED BY <1>10 DEF Worth
  <1> HIDE DEF x, y, z, w, D
  <1> QED BY <1>5, <1>10, <1>11

-----------------------------------------------------------------------------
\* The rate of the request.
CommissionOK(rate) == IsFraction(rate) /\ 0 <= rate.n /\ rate.n < rate.d

\* Buying with all the cash spends it, and the position is carried at it.
LEMMA BuySpendsAll ==
    ASSUME NEW rate, CommissionOK(rate), NEW price \in Nat \ {0}, NEW cash, IsFraction(cash), Less(Zero, cash),
           NEW quantity, quantity = Ratio(cash, Times(Num(price), Plus(Num(1), rate))),
           NEW fee, fee = Times(Times(Num(price), quantity), rate),
           NEW left, left = Minus(cash, Plus(Times(Num(price), quantity), fee))
    PROVE  /\ IsFraction(quantity) /\ Less(Zero, quantity) /\ IsFraction(fee) /\ IsFraction(left) /\ Same(left, Zero)
           /\ LET held == Plus(left, Plus(Times(quantity, Num(price)), fee))
              IN  IsFraction(held) /\ Same(held, cash)
  <1> DEFINE C == cash.n
             D == cash.d
             n == rate.n
             d == rate.d
             s == d + n
             T == price * s
  <1>1. C \in Int /\ D \in Nat \ {0} /\ n \in Nat /\ d \in Nat \ {0} /\ Worth(cash, C, D) /\ Worth(rate, n, d)
    BY OwnValue DEF CommissionOK, IsFraction
  <1> HIDE DEF C, D, n, d
  <1>2. s \in Nat \ {0} /\ 1 \in Int /\ 1 \in Nat \ {0} /\ price \in Int
    BY <1>1
  <1>3. T \in Nat \ {0}
    BY <1>2, PositiveProduct
  <1>4. Worth(Num(1), 1 * d, d) /\ Worth(Num(price), price * 1, 1)
    BY <1>1, <1>2, NumValue
  <1>5. Worth(Plus(Num(1), rate), s, d)
    <2>1. Worth(Plus(Num(1), rate), 1 * d + n, d)
      BY <1>1, <1>4, PlusValue
    <2>2. 1 * d + n = s
      BY <1>1
    <2> QED BY <2>1, <2>2
  <1>6. Worth(Num(price), price, 1)
    BY <1>4
  <1> HIDE DEF s
  <1>7. Worth(Times(Num(price), Plus(Num(1), rate)), T, d)
    <2>1. Worth(Times(Num(price), Plus(Num(1), rate)), price * s, 1 * d)
      BY <1>5, <1>6, TimesValue
    <2>2. 1 * d = d
      BY <1>1
    <2> QED BY <2>1, <2>2
  <1> HIDE DEF T
  <1>8. Worth(quantity, C * d, D * T)
    <2>1. T > 0
      BY <1>3
    <2> QED BY <1>1, <1>7, <2>1, RatioValue
  <1> DEFINE Q == C * d
             M == D * T
  <1>9. Q \in Int /\ M \in Nat \ {0} /\ Worth(quantity, Q, M)
    BY <1>1, <1>3, <1>8, PositiveProduct
  <1>10. C > 0
    <2>1. Worth(Zero, 0 * D, D)
      BY <1>1, NumValue DEF Zero
    <2>2. 0 * D = 0
      BY <1>1
    <2>3. Worth(Zero, 0, D)
      BY <2>1, <2>2
    <2>4. 0 < C
      BY <1>1, <2>3, CompareValues
    <2> QED BY <1>1, <2>4
  <1>11. Q > 0
    BY <1>1, <1>10, PositiveProduct
  <1>12. Q = C * d /\ M = D * T
    OBVIOUS
  <1> HIDE DEF Q, M
  <1>13. Worth(Times(Num(price), quantity), price * Q, M) /\ Worth(Times(quantity, Num(price)), Q * price, M)
    <2>1. Worth(Times(Num(price), quantity), price * Q, 1 * M) /\ Worth(Times(quantity, Num(price)), Q * price, M * 1)
      BY <1>6, <1>9, TimesValue
    <2>2. 1 * M = M /\ M * 1 = M
      BY <1>9
    <2> QED BY <2>1, <2>2
  <1> DEFINE A == price * Q
  <1>14. A \in Int /\ Q * price = A /\ Worth(Times(Num(price), quantity), A, M) /\ Worth(Times(quantity, Num(price)), A, M)
    <2>1. Q * price = price * Q /\ price * Q \in Int
      BY <1>2, <1>9
    <2> QED BY <1>13, <2>1
  <1>15. A = price * (C * d)
    BY <1>12
  <1> HIDE DEF A
  <1>16. Worth(fee, A * n, M * d)
    BY <1>1, <1>14, TimesValue
  <1>17. Worth(Times(Num(price), quantity), A * d, M * d) /\ Worth(Times(quantity, Num(price)), A * d, M * d)
    BY <1>1, <1>14, ScaleValue
  <1>18. Worth(cash, C * (T * d), M * d)
    <2>1. T * d \in Nat \ {0}
      BY <1>1, <1>3, PositiveProduct
    <2>2. Worth(cash, C * (T * d), D * (T * d))
      BY <1>1, <2>1, ScaleValue
    <2>3. D * (T * d) = M * d
      BY <1>1, <1>3, <1>12
    <2> QED BY <2>2, <2>3
  <1>19. C * (T * d) = A * d + A * n
    <2>1. A * d + A * n = A * s
      BY <1>1, <1>14 DEF s
    <2>2. (price * (C * d)) * s = C * ((price * s) * d)
      BY <1>1, <1>2
    <2> QED BY <1>15, <2>1, <2>2 DEF T
  <1> DEFINE u == A * d
             v == A * n
             w == C * (T * d)
             E == M * d
  <1>20. u \in Int /\ v \in Int /\ w = u + v /\ E \in Nat \ {0}
    BY <1>1, <1>9, <1>14, <1>19, PositiveProduct
  <1>21. Worth(fee, v, E) /\ Worth(Times(Num(price), quantity), u, E) /\ Worth(Times(quantity, Num(price)), u, E) /\ Worth(cash, w, E)
    BY <1>16, <1>17, <1>18
  <1> HIDE DEF u, v, w, E
  <1>22. Worth(left, w - (u + v), E)
    BY <1>21, PlusValue, MinusValue
  <1>23. w - (u + v) = 0
    BY <1>20
  <1>24. Worth(left, 0, E)
    BY <1>22, <1>23
  <1>25. Worth(Zero, 0, E) /\ Worth(Zero, 0, M)
    <2>1. Worth(Zero, 0 * E, E) /\ Worth(Zero, 0 * M, M)
      BY <1>9, <1>20, NumValue DEF Zero
    <2>2. 0 * E = 0 /\ 0 * M = 0
      BY <1>9, <1>20
    <2> QED BY <2>1, <2>2
  <1>26. Same(left, Zero) /\ Less(Zero, quantity)
    BY <1>9, <1>11, <1>24, <1>25, CompareValues
  <1>27. Worth(Plus(left, Plus(Times(quantity, Num(price)), fee)), 0 + (u + v), E)
    BY <1>21, <1>24, PlusValue
  <1>28. 0 + (u + v) = w
    BY <1>20
  <1>29. Same(Plus(left, Plus(Times(quantity, Num(price)), fee)), cash)
    BY <1>21, <1>27, <1>28, CompareValues
  <1> QED BY <1>9, <1>21, <1>24, <1>26, <1>27, <1>29 DEF Worth

\* Selling books the gross less both commissions.
LEMMA SellBooks ==
    ASSUME NEW rate, CommissionOK(rate), NEW price \in Nat, NEW entryPrice \in Int, NEW K \in Int,
           NEW cash, NEW quantity, NEW entryFee, NEW nets,
           IsFraction(cash), IsFraction(quantity), IsFraction(entryFee), IsFraction(nets),
           Less(Zero, quantity), Same(cash, Zero),
           Same(Plus(cash, Plus(Times(quantity, Num(entryPrice)), entryFee)), Plus(Num(K), nets)),
           NEW fee, fee = Times(Times(Num(price), quantity), rate),
           NEW net, net = Minus(Times(Num(price - entryPrice), quantity), Plus(entryFee, fee)),
           NEW after, after = Plus(cash, Minus(Times(Num(price), quantity), fee))
    PROVE  /\ IsFraction(fee) /\ IsFraction(net) /\ IsFraction(after)
           /\ Same(Plus(after, Zero), Plus(Num(K), Plus(nets, net)))
           /\ price > 0 => Less(Zero, after)
           /\ Same(Plus(cash, Times(quantity, Num(price))), Plus(Plus(Num(K), Plus(nets, net)), fee))
  <1> DEFINE n == rate.n
             d == rate.d
  <1>1. n \in Nat /\ d \in Nat \ {0} /\ Worth(rate, n, d) /\ n < d
    BY OwnValue DEF CommissionOK, IsFraction
  <1>2. PICK D0 \in Nat \ {0} : \E x, y, z, w \in Int :
                 Worth(cash, x, D0) /\ Worth(quantity, y, D0) /\ Worth(entryFee, z, D0) /\ Worth(nets, w, D0)
    BY Common
  <1>3. PICK C0, Q0, E0, N0 \in Int :
                 Worth(cash, C0, D0) /\ Worth(quantity, Q0, D0) /\ Worth(entryFee, E0, D0) /\ Worth(nets, N0, D0)
    BY <1>2
  <1> HIDE DEF n, d
  <1>4. \A m \in Int : Worth(Num(m), m, 1)
    <2>1. ASSUME NEW m \in Int PROVE Worth(Num(m), m * 1, 1)
      BY NumValue
    <2>2. \A m \in Int : m * 1 = m
      OBVIOUS
    <2> QED BY <2>1, <2>2
  <1>5. \A m \in Int : Worth(Times(Num(m), quantity), m * Q0, D0) /\ Worth(Times(quantity, Num(m)), Q0 * m, D0)
    <2>1. ASSUME NEW m \in Int PROVE Worth(Times(Num(m), quantity), m * Q0, 1 * D0) /\ Worth(Times(quantity, Num(m)), Q0 * m, D0 * 1)
      BY <1>3, <1>4, TimesValue
    <2>2. 1 * D0 = D0 /\ D0 * 1 = D0
      OBVIOUS
    <2> QED BY <2>1, <2>2
  <1> DEFINE A0 == price * Q0
             B0 == entryPrice * Q0
  <1>6. /\ A0 \in Int /\ B0 \in Int /\ Q0 * price = A0 /\ Q0 * entryPrice = B0 /\ (price - entryPrice) * Q0 = A0 - B0
    BY <1>3
  <1>7. /\ Worth(Times(Num(price), quantity), A0, D0) /\ Worth(Times(quantity, Num(price)), A0, D0)
        /\ Worth(Times(quantity, Num(entryPrice)), B0, D0) /\ Worth(Times(Num(price - entryPrice), quantity), A0 - B0, D0)
    <2>1. price \in Int /\ price - entryPrice \in Int
      OBVIOUS
    <2> HIDE DEF A0, B0
    <2> QED BY <1>5, <1>6, <2>1 DEF A0
  <1>8. A0 = price * Q0
    OBVIOUS
  <1> HIDE DEF A0, B0
  <1> DEFINE D == D0 * d
             c == C0 * d
             a == A0 * d
             b == B0 * d
             e == E0 * d
             w == N0 * d
             k == K * D
             f == A0 * n
  <1>9. D \in Nat \ {0}
    BY <1>1, PositiveProduct
  <1>10. c \in Int /\ a \in Int /\ b \in Int /\ e \in Int /\ w \in Int /\ f \in Int
    BY <1>1, <1>3, <1>6
  <1>11. (A0 - B0) * d = a - b
    BY <1>1, <1>6
  <1>12. /\ Worth(cash, c, D) /\ Worth(entryFee, e, D) /\ Worth(nets, w, D)
         /\ Worth(Times(Num(price), quantity), a, D) /\ Worth(Times(quantity, Num(price)), a, D)
         /\ Worth(Times(quantity, Num(entryPrice)), b, D)
    BY <1>1, <1>3, <1>7, ScaleValue
  <1>13. Worth(Times(Num(price - entryPrice), quantity), a - b, D)
    <2>1. Worth(Times(Num(price - entryPrice), quantity), (A0 - B0) * d, D0 * d)
      BY <1>1, <1>7, ScaleValue
    <2> QED BY <1>11, <2>1
  <1>14. Worth(fee, f, D)
    BY <1>1, <1>7, TimesValue
  <1>15. k \in Int /\ Worth(Num(K), k, D)
    <2> HIDE DEF D
    <2> QED BY <1>9, NumValue
  <1>16. Worth(Zero, 0, D) /\ Worth(Zero, 0, D0)
    <2>1. Worth(Zero, 0 * D, D) /\ Worth(Zero, 0 * D0, D0)
      <3> HIDE DEF D
      <3> QED BY <1>9, NumValue DEF Zero
    <2>2. 0 * D = 0 /\ 0 * D0 = 0
      <3> HIDE DEF D
      <3> QED BY <1>9
    <2> QED BY <2>1, <2>2
  <1>17. price > 0 => a - f > 0
    <2>1. Q0 > 0
      BY <1>3, <1>16, CompareValues
    <2>2. price > 0 => A0 > 0
      BY <1>3, <1>8, <2>1, PositiveProduct
    <2>3. a - f = A0 * (d - n)
      BY <1>1, <1>6
    <2>4. d - n \in Nat \ {0}
      BY <1>1
    <2>5. A0 > 0 => A0 * (d - n) > 0
      <3> DEFINE m == d - n
      <3> HIDE DEF m
      <3>1. m \in Nat \ {0}
        BY <2>4 DEF m
      <3>2. A0 > 0 => A0 * m > 0
        BY <1>6, <3>1, PositiveProduct
      <3> QED BY <3>2 DEF m
    <2> QED BY <2>2, <2>3, <2>5
  <1> HIDE DEF D, c, a, b, e, w, k, f
  <1>18. c = 0
    BY <1>12, <1>16, CompareValues
  <1>19. c + (b + e) = k + w
    <2>1. Worth(Plus(cash, Plus(Times(quantity, Num(entryPrice)), entryFee)), c + (b + e), D)
      BY <1>12, PlusValue
    <2>2. Worth(Plus(Num(K), nets), k + w, D)
      BY <1>12, <1>15, PlusValue
    <2> QED BY <2>1, <2>2, CompareValues
  <1>20. Worth(net, (a - b) - (e + f), D)
    BY <1>12, <1>13, <1>14, PlusValue, MinusValue
  <1>21. Worth(after, c + (a - f), D)
    BY <1>12, <1>14, PlusValue, MinusValue
  <1>22. Worth(Plus(after, Zero), (c + (a - f)) + 0, D)
    BY <1>16, <1>21, PlusValue
  <1>23. Worth(Plus(Num(K), Plus(nets, net)), k + (w + ((a - b) - (e + f))), D)
    BY <1>12, <1>15, <1>20, PlusValue
  <1>24. Worth(Plus(Plus(Num(K), Plus(nets, net)), fee), (k + (w + ((a - b) - (e + f)))) + f, D)
    BY <1>14, <1>23, PlusValue
  <1>25. Worth(Plus(cash, Times(quantity, Num(price))), c + a, D)
    BY <1>12, PlusValue
  <1>26. Same(Plus(after, Zero), Plus(Num(K), Plus(nets, net)))
    <2>1. (c + (a - f)) + 0 = k + (w + ((a - b) - (e + f)))
      BY <1>10, <1>15, <1>19
    <2> QED BY <1>22, <1>23, <2>1, CompareValues
  <1>27. Same(Plus(cash, Times(quantity, Num(price))), Plus(Plus(Num(K), Plus(nets, net)), fee))
    <2>1. c + a = (k + (w + ((a - b) - (e + f)))) + f
      BY <1>10, <1>15, <1>19
    <2> QED BY <1>24, <1>25, <2>1, CompareValues
  <1>28. price > 0 => Less(Zero, after)
    <2>1. price > 0 => 0 < c + (a - f)
      BY <1>10, <1>17, <1>18
    <2> QED BY <1>16, <1>21, <2>1, CompareValues
  <1> QED BY <1>14, <1>20, <1>21, <1>26, <1>27, <1>28 DEF Worth


\* The nets of the closed trades, one after the other.
NetsOf(base, seq) == FoldLeft(LAMBDA acc, t : Plus(acc, t.net), base, seq)
Nettings(run, base, seq, n) ==
    /\ run[0] = base /\ run[n] = NetsOf(base, seq)
    /\ \A k \in 1 .. n : run[k] = Plus(run[k - 1], seq[k].net)

LEMMA NetsRun ==
    ASSUME NEW base, NEW seq, NEW n \in Nat, DOMAIN seq = 1 .. n
    PROVE  \E run : Nettings(run, base, seq, n)
  <1> DEFINE Val(h, s) == IF s = {} THEN base ELSE Plus(h[s \ {Max(s)}], seq[Max(s)].net)
             Is(m, h) == h = [s \in SUBSET (1 .. m) |-> Val(h, s)]
             P == {m \in Nat : \E h : Is(m, h)}
  <1>1. 0 \in P
    <2>1. SUBSET (1 .. 0) = {{}}
      OBVIOUS
    <2>2. Is(0, [s \in {{}} |-> base])
      BY <2>1
    <2> QED BY <2>2
  <1>2. ASSUME NEW m \in Nat, m \in P PROVE m + 1 \in P
    <2>1. PICK h : h = [s \in SUBSET (1 .. m) |-> Val(h, s)]
      BY <1>2
    <2> DEFINE g == [s \in SUBSET (1 .. m + 1) |->
                       IF m + 1 \in s THEN Plus(h[s \ {m + 1}], seq[m + 1].net) ELSE h[s]]
    <2>2. ASSUME NEW s \in SUBSET (1 .. m) PROVE g[s] = h[s]
      BY <1>2
    <2>3. ASSUME NEW s \in SUBSET (1 .. m + 1) PROVE g[s] = Val(g, s)
      <3>1. CASE m + 1 \in s
        <4>1. Max(s) = m + 1 /\ s \ {m + 1} \in SUBSET (1 .. m)
          BY <1>2, <3>1, MaxOfTop
        <4>2. g[s \ {m + 1}] = h[s \ {m + 1}]
          BY <2>2, <4>1
        <4>3. g[s] = Plus(h[s \ {m + 1}], seq[m + 1].net)
          BY <3>1
        <4> HIDE DEF g
        <4> QED BY <3>1, <4>1, <4>2, <4>3
      <3>2. CASE m + 1 \notin s
        <4>1. s \in SUBSET (1 .. m)
          BY <1>2, <3>2
        <4>2. g[s] = h[s] /\ h[s] = Val(h, s)
          BY <2>1, <2>2, <4>1
        <4>3. s # {} => g[s \ {Max(s)}] = h[s \ {Max(s)}]
          BY <1>2, <2>2, <4>1, MaxIsIn
        <4> HIDE DEF g
        <4> QED BY <4>2, <4>3
      <3> QED BY <3>1, <3>2
    <2>4. g = [s \in SUBSET (1 .. m + 1) |-> Val(g, s)]
      <3>1. [s \in SUBSET (1 .. m + 1) |-> g[s]] = [s \in SUBSET (1 .. m + 1) |-> Val(g, s)]
        <4> HIDE DEF g, Val
        <4> QED BY <2>3
      <3>2. g = [s \in SUBSET (1 .. m + 1) |-> g[s]]
        OBVIOUS
      <3> HIDE DEF g, Val
      <3> QED BY <3>1, <3>2
    <2> HIDE DEF g, Val
    <2>5. Is(m + 1, g)
      BY <2>4
    <2> QED BY <1>2, <2>5
  <1>3. \A m \in Nat : m \in P
    <2> HIDE DEF P
    <2> QED BY <1>1, <1>2, InductionSet
  <1> DEFINE iter == CHOOSE h : Is(n, h)
  <1>4. Is(n, iter)
    <2> HIDE DEF Is
    <2> QED BY <1>3
  <1>5. NetsOf(base, seq) = iter[1 .. n]
    BY DEF NetsOf, FoldLeft, MapThenFoldSet
  <1> HIDE DEF iter
  <1>6. \A s \in SUBSET (1 .. n) : iter[s] = Val(iter, s)
    BY <1>4
  <1> DEFINE run == [k \in 0 .. n |-> iter[1 .. k]]
  <1>7. run[0] = base
    <2>1. 1 .. 0 = {} /\ {} \in SUBSET (1 .. n) /\ 0 \in 0 .. n
      OBVIOUS
    <2> QED BY <1>6, <2>1
  <1>8. ASSUME NEW k \in 1 .. n PROVE run[k] = Plus(run[k - 1], seq[k].net)
    <2>1. k \in 0 .. n /\ k - 1 \in 0 .. n /\ 1 .. k # {} /\ 1 .. k \in SUBSET (1 .. n)
      OBVIOUS
    <2>2. (1 .. k) \ {k} = 1 .. (k - 1)
      OBVIOUS
    <2>3. Max(1 .. k) = k
      <3> DEFINE j == k - 1
      <3>1. j \in Nat /\ j + 1 = k
        OBVIOUS
      <3> HIDE DEF j
      <3>2. 1 .. j + 1 \in SUBSET (1 .. j + 1) /\ j + 1 \in 1 .. j + 1
        BY <3>1
      <3>3. Max(1 .. j + 1) = j + 1
        BY <3>1, <3>2, MaxOfTop
      <3> QED BY <3>1, <3>3
    <2>4. iter[1 .. k] = Plus(iter[1 .. (k - 1)], seq[k].net)
      BY <1>6, <2>1, <2>2, <2>3
    <2> QED BY <2>1, <2>4
  <1>9. run[n] = NetsOf(base, seq)
    BY <1>5
  <1> HIDE DEF run
  <1>10. Nettings(run, base, seq, n)
    BY <1>7, <1>8, <1>9 DEF Nettings
  <1> QED BY <1>10

\* One more closed trade.
LEMMA NetsAppend ==
    ASSUME NEW T, NEW seq \in Seq(T), NEW x \in T
    PROVE  NetsOf(Zero, Append(seq, x)) = Plus(NetsOf(Zero, seq), x.net)
  <1> DEFINE n == Len(seq)
             longer == Append(seq, x)
  <1>1. n \in Nat /\ n + 1 \in Nat /\ DOMAIN seq = 1 .. n /\ DOMAIN longer = 1 .. (n + 1)
    OBVIOUS
  <1>2. longer[n + 1] = x /\ \A k \in 1 .. n : longer[k] = seq[k]
    OBVIOUS
  <1> HIDE DEF n, longer
  <1>3. PICK f : Nettings(f, Zero, seq, n)
    BY <1>1, NetsRun
  <1>4. PICK g : Nettings(g, Zero, longer, n + 1)
    BY <1>1, NetsRun
  <1> DEFINE P == {k \in Nat : k <= n => g[k] = f[k]}
  <1>5. 0 \in P
    BY <1>3, <1>4 DEF Nettings
  <1>6. ASSUME NEW k \in Nat, k \in P PROVE k + 1 \in P
    <2>1. ASSUME k + 1 <= n PROVE g[k + 1] = f[k + 1]
      <3> DEFINE j == k + 1
      <3>1. j \in 1 .. n /\ j \in 1 .. (n + 1) /\ j - 1 = k /\ k <= n
        BY <1>1, <2>1
      <3> HIDE DEF j
      <3>2. f[j] = Plus(f[j - 1], seq[j].net) /\ g[j] = Plus(g[j - 1], longer[j].net)
        BY <1>3, <1>4, <3>1 DEF Nettings
      <3>3. longer[j] = seq[j] /\ g[j - 1] = f[j - 1]
        BY <1>2, <1>6, <3>1
      <3> QED BY <3>2, <3>3 DEF j
    <2>2. k + 1 \in Nat
      OBVIOUS
    <2> QED BY <2>1, <2>2
  <1>7. \A k \in Nat : k \in P
    <2> HIDE DEF P
    <2> QED BY <1>5, <1>6, InductionSet
  <1>8. g[n] = f[n]
    BY <1>1, <1>7
  <1>9. g[n + 1] = Plus(g[n], x.net)
    <2>1. n + 1 \in 1 .. (n + 1) /\ (n + 1) - 1 = n
      BY <1>1
    <2> QED BY <1>2, <1>4, <2>1 DEF Nettings
  <1> QED BY <1>3, <1>4, <1>8, <1>9 DEF Nettings, longer

LEMMA NetsEmpty == NetsOf(Zero, <<>>) = Zero
  <1>1. 0 \in Nat /\ DOMAIN <<>> = 1 .. 0
    OBVIOUS
  <1>2. PICK f : Nettings(f, Zero, <<>>, 0)
    BY <1>1, NetsRun
  <1> QED BY <1>2 DEF Nettings

-----------------------------------------------------------------------------
(***************************************************************************)
(* Rules raise for their form: what a clause raises on the bars of a run   *)
(* it raises on the twenty bars of validate too, unless it counts back     *)
(* from the end.                                                           *)
(***************************************************************************)
LEMMA LeastIndex ==
    ASSUME NEW n \in Nat, NEW S \in SUBSET (1 .. n), S # {}
    PROVE  Min(S) \in S /\ \A j \in S : Min(S) <= j
  <1>1. S \subseteq Nat
    OBVIOUS
  <1>2. \E m \in S : \A j \in S : m <= j
    BY <1>1, NatSetHasMin
  <1> QED BY <1>2 DEF Min

IsClause(c) == c.left.value \in Int /\ c.right.value \in Int
IsGroup(g) == g.clauses \in Seq(ToSet(g.clauses)) /\ \A c \in ToSet(g.clauses) : IsClause(c)

LEMMA GroupClauses ==
    ASSUME NEW g, IsGroup(g)
    PROVE  /\ Len(g.clauses) \in Nat /\ DOMAIN g.clauses = 1 .. Len(g.clauses)
           /\ \A j \in DOMAIN g.clauses : IsClause(g.clauses[j])
  BY DEF IsGroup, ToSet

LEMMA SyntheticLength == Len(Synthetic) = 20
  <1> DEFINE x == [open |-> 100, high |-> 101, low |-> 99, close |-> 100, volume |-> 1000]
  <1> HIDE DEF x
  <1>1. Synthetic = [j \in 1 .. 20 |-> x]
    BY DEF Synthetic, x
  <1> QED BY <1>1

LEMMA ConditionRaises ==
    ASSUME NEW c, IsClause(c), ~CountsBack(c), NEW bars, _eval_condition(c, bars) = "raise"
    PROVE  _eval_condition(c, Synthetic) = "raise"
  <1>1. \A o \in {c.left, c.right} : OperandRaises(o, Len(bars)) => OperandRaises(o, 20)
    BY DEF OperandRaises, CountsBack, IsClause
  <1>2. \A o \in {c.left, c.right} : OperandRaises(o, Len(bars)) => OperandRaises(o, Len(Synthetic))
    BY <1>1, SyntheticLength
  <1> QED BY <1>2 DEF _eval_condition

\* With a single clause there is none that could have been skipped.
LEMMA LoneClauseRaises ==
    ASSUME NEW g, IsGroup(g), ~UnseenByValidate(g), NEW kept \in SUBSET DOMAIN g.clauses, NEW bars,
           _eval_group(g, kept, bars) = "raise"
    PROVE  _eval_group(g, kept, Synthetic) = "raise"
  <1> DEFINE goesOn == IF g.mode = "any_of" THEN "false" ELSE "true"
             Answers(ys) == [j \in kept |-> _eval_condition(g.clauses[j], ys)]
             Stops(ys) == {j \in kept : Answers(ys)[j] # goesOn}
  <1>1. goesOn # "raise"
    OBVIOUS
  <1>2. \A ys : _eval_group(g, kept, ys) =
                  IF g.mode \notin Modes THEN "raise"
                  ELSE IF Stops(ys) = {} THEN goesOn ELSE Answers(ys)[Min(Stops(ys))]
    <2> TAKE ys
    <2>1. DOMAIN Answers(ys) = kept
      OBVIOUS
    <2>2. FirstDecides(Answers(ys), goesOn) =
            IF Stops(ys) = {} THEN goesOn ELSE Answers(ys)[Min(Stops(ys))]
      <3> HIDE DEF goesOn, Answers
      <3> QED BY <2>1 DEF FirstDecides
    <2>3. _eval_group(g, kept, ys) =
            IF g.mode \notin Modes THEN "raise" ELSE FirstDecides(Answers(ys), goesOn)
      BY DEF _eval_group
    <2> QED BY <2>2, <2>3
  <1>3. kept \subseteq {1}
    <2>1. Len(g.clauses) \in Nat /\ DOMAIN g.clauses = 1 .. Len(g.clauses)
      BY GroupClauses
    <2> QED BY <2>1 DEF UnseenByValidate
  <1>4. Min({1}) = 1
    BY DEF Min
  <1> HIDE DEF goesOn
  <1>a. CASE g.mode \notin Modes
    BY <1>2, <1>a
  <1>b. CASE g.mode \in Modes
    <2>5. Stops(bars) # {}
      BY <1>1, <1>2, <1>b
    <2>6. Stops(bars) = {1} /\ 1 \in kept
      BY <1>3, <2>5
    <2>7. _eval_condition(g.clauses[1], bars) = "raise"
      BY <1>2, <1>4, <1>b, <2>5, <2>6
    <2>8. IsClause(g.clauses[1]) /\ ~CountsBack(g.clauses[1])
      BY <2>6, GroupClauses DEF UnseenByValidate, ToSet
    <2>9. _eval_condition(g.clauses[1], Synthetic) = "raise"
      BY <2>7, <2>8, ConditionRaises
    <2>10. Stops(Synthetic) = {1}
      BY <1>1, <1>3, <2>6, <2>9
    <2> QED BY <1>2, <1>4, <2>9, <2>10
  <1> QED BY <1>a, <1>b

\* Valid rules of single clauses that do not count back never raise.
LEMMA LoneRulesRun ==
    ASSUME NEW rules, IsGroup(rules.entry), IsGroup(rules.exit), validate(rules), NEW bars
    PROVE  /\ ~UnseenByValidate(rules.entry) => EntryHits(rules, bars) # "raise"
           /\ ~UnseenByValidate(rules.exit) => ExitHits(rules, bars) # "raise"
  <1>1. EntryHits(rules, Synthetic) # "raise" /\ ExitHits(rules, Synthetic) # "raise"
    BY DEF validate
  <1>2. ~UnseenByValidate(rules.entry) => EntryHits(rules, bars) # "raise"
    BY <1>1, LoneClauseRaises DEF EntryHits
  <1>3. _strip_meta(rules.exit) \in SUBSET DOMAIN rules.exit.clauses
    BY DEF _strip_meta
  <1>4. ~UnseenByValidate(rules.exit) => ExitHits(rules, bars) # "raise"
    BY <1>1, <1>3, LoneClauseRaises DEF ExitHits
  <1> QED BY <1>2, <1>4

\* The time stop is a number of bars.
LEMMA StopIsInt ==
    ASSUME NEW g, IsGroup(g)
    PROVE  _holding_days_max(g) \subseteq Int
  <1> DEFINE stops == DOMAIN g.clauses \ _strip_meta(g)
  <1>1. Len(g.clauses) \in Nat /\ stops \in SUBSET (1 .. Len(g.clauses))
    BY GroupClauses
  <1>2. stops # {} => Min(stops) \in stops
    <2> HIDE DEF stops
    <2> QED BY <1>1, LeastIndex
  <1>3. stops # {} => g.clauses[Min(stops)].left.value \in Int
    BY <1>2, GroupClauses DEF IsClause
  <1> QED BY <1>3 DEF _holding_days_max

-----------------------------------------------------------------------------
(***************************************************************************)
(* The books of a run.  Beside what BacktestBalanced says, the induction   *)
(* needs that a run without a position has cash to buy with, and that no   *)
(* position is opened during the warm-up.                                  *)
(***************************************************************************)
Money == [tag : {"num"}, n : Int, d : Nat \ {0}]
Point == [equity : Money, drawdown : Money]
Closed == [net : Money, exit_commission : Money]
Memory == [long : BOOLEAN, entry_index : Int]
BtRecord ==
    [pc : {"refused", "bar", "done", "raised"}, bars : [1 .. NumBars -> BarChoices], i : Nat, strategy : Selectable,
     state : Memory, cash : Money, quantity : Money, entry : [price : Int, commission : Money], high : Money,
     curve : Seq(Point), trades : Seq(Closed)]

Long(b) == Less(Zero, b.quantity)
PaidOf(b) == IF Long(b) THEN Plus(Times(b.quantity, Num(b.entry.price)), b.entry.commission) ELSE Zero
NetsIn(b) == NetsOf(Zero, b.trades)
BooksOf(b) == Same(Plus(b.cash, PaidOf(b)), Plus(Num(Capital), NetsIn(b)))
FeeOf(b) == IF b.trades # <<>> /\ b.state.long THEN LastOf(b.trades).exit_commission ELSE Zero
FinalOf(b) == Same(b.curve[Len(b.curve)].equity, Plus(Plus(Num(Capital), NetsIn(b)), FeeOf(b)))
StopOf(b) ==
    \A n \in _holding_days_max(b.strategy.rules.exit) : b.i - 1 - b.state.entry_index < (IF n > 0 THEN n ELSE 0)
Unseen(b) == UnseenByValidate(IF b.state.long THEN b.strategy.rules.exit ELSE b.strategy.rules.entry)

Sound(b) ==
    /\ b \in BtRecord /\ b.i >= 1 /\ IsFraction(NetsIn(b))
    /\ BooksOf(b)
    /\ Long(b) => Same(b.cash, Zero)
    /\ b.pc = "bar" => /\ b.i <= NumBars /\ (~Long(b) => Less(Zero, b.cash) /\ b.quantity = Zero) /\ (b.state.long <=> Long(b))
                       /\ b.i <= Warmup => ~Long(b)
                       /\ b.strategy.custom /\ Long(b) => StopOf(b)
    /\ b.pc = "done" => FinalOf(b)
    /\ b.pc = "raised" => Unseen(b)

LEMMA MoneyIs ==
    ASSUME NEW a
    PROVE  a \in Money <=> IsFraction(a)
  BY DEF Money, IsFraction

LEMMA ZeroIs == IsFraction(Zero) /\ Zero \in Money /\ ~Less(Zero, Zero)
  BY DEF Zero, Num, IsFraction, Money, Less, IsNum

LEMMA NumIs ==
    ASSUME NEW n \in Int
    PROVE  IsFraction(Num(n)) /\ Num(n) \in Money
  BY DEF Num, IsFraction, Money

LEMMA PlusIs ==
    ASSUME NEW a, NEW b, IsFraction(a), IsFraction(b)
    PROVE  IsFraction(Plus(a, b)) /\ IsFraction(Minus(a, b)) /\ IsFraction(Times(a, b))
  <1>1. PICK D \in Nat \ {0} : \E x, y, z, w \in Int : Worth(a, x, D) /\ Worth(b, y, D) /\ Worth(a, z, D) /\ Worth(b, w, D)
    BY Common
  <1>2. PICK x, y \in Int : Worth(a, x, D) /\ Worth(b, y, D)
    BY <1>1
  <1>3. Worth(Plus(a, b), x + y, D) /\ Worth(Minus(a, b), x - y, D)
    BY <1>2, PlusValue, MinusValue
  <1>4. Worth(Times(a, b), x * y, D * D)
    BY <1>2, TimesValue
  <1> QED BY <1>3, <1>4 DEF Worth

\* Adding nothing.
LEMMA PlusNothing ==
    ASSUME NEW a, IsFraction(a)
    PROVE  Same(Plus(a, Zero), a) /\ \A b : IsFraction(b) => Same(Plus(a, Times(Zero, b)), a)
  <1>1. PICK D \in Nat \ {0} : \E x, y, z, w \in Int : Worth(a, x, D) /\ Worth(Zero, y, D) /\ Worth(a, z, D) /\ Worth(Zero, w, D)
    BY Common, ZeroIs
  <1>2. PICK x \in Int : Worth(a, x, D)
    BY <1>1
  <1>3. ASSUME NEW z, Worth(z, 0, D) PROVE Same(Plus(a, z), a)
    <2>1. Worth(Plus(a, z), x + 0, D) /\ x + 0 = x
      BY <1>2, <1>3, PlusValue
    <2> QED BY <1>2, <2>1, CompareValues
  <1>4. Worth(Zero, 0, D)
    <2>1. Worth(Zero, 0 * D, D) /\ 0 * D = 0
      BY NumValue DEF Zero
    <2> QED BY <2>1
  <1>5. ASSUME NEW b, IsFraction(b) PROVE Worth(Times(Zero, b), 0, D)
    <2> DEFINE n == b.n
               d == b.d
    <2>1. Worth(b, n, d) /\ n \in Int /\ d \in Nat \ {0}
      BY <1>5, OwnValue DEF IsFraction
    <2> HIDE DEF n, d
    <2> DEFINE t == Times(Zero, b)
               u == t.n
               v == t.d
    <2>2. Worth(t, 0 * n, D * d)
      BY <1>4, <2>1, TimesValue
    <2>3. u \in Int /\ v \in Nat \ {0} /\ u * (D * d) = (0 * n) * v /\ IsFraction(t)
      BY <2>2 DEF Worth, IsFraction
    <2> HIDE DEF u, v, t
    <2>4. (0 * n) * v = 0 /\ D * d \in Nat \ {0}
      BY <2>1, <2>3, PositiveProduct
    <2>5. u = 0
      <3> DEFINE m == D * d
      <3> HIDE DEF m
      <3>1. m \in Nat \ {0} /\ u * m = 0
        BY <2>3, <2>4 DEF m
      <3> QED BY <2>3, <3>1
    <2>6. u * D = 0 * v
      BY <2>3, <2>5
    <2> QED BY <2>3, <2>6 DEF Worth, u, v, t
  <1> QED BY <1>3, <1>4, <1>5

LEMMA SelectableFits ==
    ASSUME NEW s \in Selectable
    PROVE  \/ s.custom = FALSE /\ s.key \in Builtin
           \/ /\ s.custom = TRUE /\ s.rules \in Rules /\ validate(s.rules)
              /\ IsGroup(s.rules.entry) /\ IsGroup(s.rules.exit)
  <1>1. CASE s \in [custom : {FALSE}, key : Builtin]
    BY <1>1
  <1>2. CASE s \in {[custom |-> TRUE, rules |-> r] : r \in {r \in Rules : validate(r)}}
    <2>1. PICK r \in Rules : validate(r) /\ s = [custom |-> TRUE, rules |-> r]
      BY <1>2
    <2>2. IsGroup(r.entry) /\ IsGroup(r.exit)
      BY BktAssumption DEF IsGroup, IsClause
    <2> QED BY <2>1, <2>2
  <1> QED BY <1>1, <1>2 DEF Selectable

\* The built-in strategies always have an answer.
LEMMA BuiltinAnswers ==
    ASSUME NEW key \in Builtin, NEW xs
    PROVE  BuiltinDecision(key, xs) \in {0, 1, Hold}
  <1>1. \A b : Flag(b) \in {0, 1}
    BY DEF Flag
  <1>2. sma_crossover(xs) \in {0, 1, Hold}
    BY <1>1 DEF sma_crossover
  <1>3. rsi_oversold(xs) \in {0, 1, Hold}
    BY DEF rsi_oversold
  <1>4. macd_signal(xs) \in {0, 1, Hold}
    BY <1>1 DEF macd_signal
  <1>5. bollinger_revert(xs) \in {0, 1, Hold}
    BY DEF bollinger_revert
  <1>6. buy_and_hold(xs) \in {0, 1, Hold}
    BY <1>1 DEF buy_and_hold
  <1>7. key \in {"sma_crossover", "rsi_oversold", "macd_signal", "bollinger_revert", "buy_and_hold"}
    BY BktAssumption
  <1> QED BY <1>2, <1>3, <1>4, <1>5, <1>6, <1>7 DEF BuiltinDecision

\* The memory of a strategy, changed.
LEMMA MemoryChanges ==
    ASSUME NEW s \in Memory, NEW b \in BOOLEAN
    PROVE  LET m == [s EXCEPT !.long = b]
           IN  m \in Memory /\ (m.long <=> b) /\ m.entry_index = s.entry_index
  BY DEF Memory

\* What the strategy of a sound run answers.
Decided(b, d) ==
    /\ d.target \in {-1, 0, 1} /\ d.state \in Memory
    /\ d.target = -1 => Unseen(b)
    /\ d.target # -1 => (d.state.long <=> d.target = 1)
    /\ b.strategy.custom /\ d.target = 1 =>
         \/ d.state.entry_index = b.i + 1
         \/ \A n \in _holding_days_max(b.strategy.rules.exit) : b.i - d.state.entry_index < n

LEMMA DecideDecides ==
    ASSUME bt \in BtRecord, bt.i \in 1 .. NumBars
    PROVE  Decided(bt, Decide(bt.i))
  <1> DEFINE bars == BarsUpTo(bt.bars, bt.i)
             s == bt.state
             st == bt.strategy
             i == bt.i
             d == Decide(i)
  <1>1. s \in Memory /\ st \in Selectable /\ i \in Int
    BY DEF BtRecord
  <1>2. st = bt.strategy /\ s = bt.state /\ i = bt.i
    OBVIOUS
  <1>3. CASE st.custom = FALSE /\ st.key \in Builtin
    <2> DEFINE t == Stateful(BuiltinDecision(st.key, Column(bars, "close")), s.long)
    <2>1. t \in {0, 1}
      <3>1. s.long \in BOOLEAN
        BY <1>1 DEF Memory
      <3> QED BY <1>3, <3>1, BuiltinAnswers DEF Stateful, Flag
    <2>2. d = [target |-> t, state |-> [s EXCEPT !.long = (t = 1)]]
      BY <1>3 DEF Decide
    <2> HIDE DEF t, d, s, st, i
    <2>3. (t = 1) \in BOOLEAN
      OBVIOUS
    <2>4. d.target = t /\ d.state = [s EXCEPT !.long = (t = 1)]
      BY <2>2
    <2>5. d.state \in Memory /\ (d.state.long <=> t = 1)
      BY <1>1, <2>3, <2>4, MemoryChanges
    <2>6. d.target \in {-1, 0, 1} /\ d.target # -1
      BY <2>1, <2>4
    <2>7. Decided(bt, d)
      BY <1>2, <1>3, <2>4, <2>5, <2>6 DEF Decided
    <2> QED BY <2>7 DEF d, i
  <1>4. CASE /\ st.custom = TRUE /\ st.rules \in Rules /\ validate(st.rules)
             /\ IsGroup(st.rules.entry) /\ IsGroup(st.rules.exit)
    <2> DEFINE rules == st.rules
               enter == EntryHits(rules, bars)
               leave == ExitHits(rules, bars)
               limit == _holding_days_max(rules.exit)
               held == \E n \in limit : i - s.entry_index >= n
    <2>0. limit \subseteq Int
      BY <1>4, StopIsInt
    <2>1. /\ ~UnseenByValidate(rules.entry) => enter # "raise"
          /\ ~UnseenByValidate(rules.exit) => leave # "raise"
      BY <1>4, LoneRulesRun
    <2>2. /\ ~s.long /\ enter = "raise" => Unseen(bt)
          /\ s.long /\ leave = "raise" => Unseen(bt)
      BY <2>1 DEF Unseen
    <2>3. d = IF s.long THEN WhileLong(leave, held, s) ELSE WhileFlat(enter, i, s)
      BY <1>4 DEF Decide, Custom
    <2>4. limit = _holding_days_max(bt.strategy.rules.exit)
      OBVIOUS
    <2>5. held <=> \E n \in limit : i - s.entry_index >= n
      OBVIOUS
    <2> HIDE DEF enter, leave, limit, held, rules, d, s, st, i
    <2>6. s = [long |-> s.long, entry_index |-> s.entry_index] /\ s.entry_index \in Int /\ s.long \in BOOLEAN
      BY <1>1 DEF Memory
    <2>7. CASE s.long
      <3>1. d.target = IF leave = "raise" THEN -1 ELSE Flag(leave # "true" /\ ~held)
        BY <2>3, <2>7 DEF WhileLong
      <3>2. d.state = IF leave = "true" \/ held THEN [s EXCEPT !.long = FALSE] ELSE s
        BY <2>3, <2>7 DEF WhileLong
      <3>3. LET m == [s EXCEPT !.long = FALSE]
            IN  m \in Memory /\ ~m.long /\ m.entry_index = s.entry_index
        BY <1>1, MemoryChanges
      <3>4. d.state \in Memory /\ (d.state.long <=> ~(leave = "true" \/ held)) /\ d.state.entry_index = s.entry_index
        <4>1. CASE leave = "true" \/ held
          BY <3>2, <3>3, <4>1
        <4>2. CASE ~(leave = "true" \/ held)
          BY <1>1, <2>7, <3>2, <4>2
        <4> QED BY <4>1, <4>2
      <3>5. d.target \in {-1, 0, 1} /\ (d.target = -1 <=> leave = "raise")
            /\ (d.target = 1 => ~held)
            /\ (d.target # -1 => (d.target = 1 <=> ~(leave = "true" \/ held)))
        BY <3>1 DEF Flag
      <3>6. d.target = 1 => \A n \in limit : i - d.state.entry_index < n
        BY <1>1, <2>0, <2>5, <2>6, <3>4, <3>5
      <3>7. Decided(bt, d)
        BY <1>2, <2>2, <2>4, <2>7, <3>4, <3>5, <3>6 DEF Decided
      <3> QED BY <3>7 DEF d, i
    <2>8. CASE ~s.long
      <3>1. d.target = IF enter = "raise" THEN -1 ELSE Flag(enter = "true")
        BY <2>3, <2>8 DEF WhileFlat
      <3>2. d.state = IF enter = "true" THEN [long |-> TRUE, entry_index |-> i + 1] ELSE s
        BY <2>3, <2>8 DEF WhileFlat
      <3>3. d.state \in Memory /\ (d.state.long <=> enter = "true") /\ (enter = "true" => d.state.entry_index = i + 1)
        BY <1>1, <2>6, <2>8, <3>2 DEF Memory
      <3>4. d.target \in {-1, 0, 1} /\ (d.target = -1 <=> enter = "raise")
            /\ (d.target # -1 => (d.target = 1 <=> enter = "true"))
        BY <3>1 DEF Flag
      <3>5. Decided(bt, d)
        BY <1>2, <2>2, <2>8, <3>3, <3>4 DEF Decided
      <3> QED BY <3>5 DEF d, i
    <2> QED BY <2>7, <2>8
  <1> QED BY <1>1, <1>3, <1>4, SelectableFits

\* A bar is marked to market: only the clock, the high-water mark and the curve change.
LEMMA MarkedIs ==
    ASSUME bt \in BtRecord, bt.i \in 1 .. NumBars
    PROVE  LET m == Marked
           IN  /\ m \in BtRecord /\ m.i = bt.i + 1
               /\ m.pc = bt.pc /\ m.bars = bt.bars /\ m.strategy = bt.strategy /\ m.state = bt.state
               /\ m.cash = bt.cash /\ m.quantity = bt.quantity /\ m.entry = bt.entry /\ m.trades = bt.trades
               /\ m.curve # <<>>
               /\ m.curve[Len(m.curve)].equity = Plus(bt.cash, Times(bt.quantity, Num(bt.bars[bt.i].close)))
  <1> DEFINE m == Marked
             equity == Plus(bt.cash, Times(bt.quantity, Num(bt.bars[bt.i].close)))
             high == Larger(bt.high, equity)
             point == [equity |-> equity, drawdown |-> Minus(high, equity)]
  <1>1. /\ bt.i \in Nat /\ bt.cash \in Money /\ bt.quantity \in Money /\ bt.high \in Money /\ bt.curve \in Seq(Point)
        /\ bt.bars \in [1 .. NumBars -> BarChoices]
    BY DEF BtRecord
  <1>2. Num(bt.bars[bt.i].close) \in Money
    <2>1. bt.bars[bt.i] \in BarChoices
      BY <1>1
    <2>2. bt.bars[bt.i].close \in Int
      BY <2>1, BktAssumption
    <2> QED BY <2>2, NumIs
  <1>3. equity \in Money
    BY <1>1, <1>2, MoneyIs, PlusIs
  <1>4. m = [bt EXCEPT !.high = high, !.i = bt.i + 1, !.curve = Append(bt.curve, point)]
    BY DEF Marked
  <1> HIDE DEF equity
  <1>5. high \in Money
    BY <1>1, <1>3 DEF Larger
  <1> HIDE DEF high
  <1>6. point \in Point
    <2>1. Minus(high, equity) \in Money
      BY <1>3, <1>5, MoneyIs, PlusIs
    <2> QED BY <1>3, <2>1 DEF Point
  <1>7. point.equity = equity
    OBVIOUS
  <1> HIDE DEF point
  <1> DEFINE curve == Append(bt.curve, point)
             next == bt.i + 1
  <1>8. curve \in Seq(Point) /\ curve # <<>> /\ curve[Len(curve)] = point /\ next \in Nat
    BY <1>1, <1>6
  <1>9. m = [bt EXCEPT !.high = high, !.i = next, !.curve = curve]
    BY <1>4
  <1> HIDE DEF curve, next, m
  <1>10. m \in BtRecord
    BY <1>5, <1>8, <1>9 DEF BtRecord
  <1>11. /\ m.i = next /\ m.curve = curve
         /\ m.pc = bt.pc /\ m.bars = bt.bars /\ m.strategy = bt.strategy /\ m.state = bt.state
         /\ m.cash = bt.cash /\ m.quantity = bt.quantity /\ m.entry = bt.entry /\ m.trades = bt.trades
    BY <1>9 DEF BtRecord
  <1> QED BY <1>7, <1>8, <1>10, <1>11 DEF m, next, equity

\* The wins and the losses are all the trades.
LEMMA WinsAndLossesAll ==
    ASSUME NEW trades \in Seq(Closed)
    PROVE  Cardinality({k \in DOMAIN trades : Less(Zero, trades[k].net)})
             + Cardinality({k \in DOMAIN trades : AtMost(trades[k].net, Zero)}) = Len(trades)
  <1> DEFINE n == Len(trades)
             wins == {k \in 1 .. n : Less(Zero, trades[k].net)}
             losses == {k \in 1 .. n : AtMost(trades[k].net, Zero)}
  <1>1. n \in Nat /\ DOMAIN trades = 1 .. n /\ \A k \in 1 .. n : trades[k] \in Closed
    OBVIOUS
  <1>2. ASSUME NEW a \in Money PROVE Less(Zero, a) <=> ~AtMost(a, Zero)
    <2>1. a.n \in Int /\ a.d \in Nat \ {0} /\ a.tag = "num"
      BY DEF Money
    <2>2. Less(Zero, a) <=> 0 * a.d < a.n * 1
      BY <2>1 DEF Less, IsNum, Zero, Num
    <2>3. AtMost(a, Zero) <=> a.n * 1 <= 0 * a.d
      BY <2>1 DEF AtMost, IsNum, Zero, Num
    <2> QED BY <2>1, <2>2, <2>3
  <1>3. \A k \in 1 .. n : k \in wins <=> k \notin losses
    BY <1>1, <1>2 DEF Closed
  <1>4. wins \subseteq 1 .. n /\ losses \subseteq 1 .. n
    OBVIOUS
  <1> HIDE DEF n, wins, losses
  <1>5. IsFiniteSet(1 .. n) /\ Cardinality(1 .. n) = n
    BY <1>1, FS_Interval
  <1>6. losses = (1 .. n) \ wins
    BY <1>3, <1>4
  <1>7. Cardinality((1 .. n) \ wins) = Cardinality(1 .. n) - Cardinality((1 .. n) \cap wins)
    BY <1>5, FS_Difference
  <1>8. (1 .. n) \cap wins = wins
    BY <1>4
  <1>9. IsFiniteSet(wins) /\ Cardinality(wins) \in Nat
    BY <1>4, <1>5, FS_Subset, FS_CardinalityType
  <1>10. Cardinality(wins) + Cardinality(losses) = n
    <2> DEFINE w == Cardinality(wins)
               l == Cardinality(losses)
    <2>1. l = n - w
      BY <1>5, <1>6, <1>7, <1>8, Zenon
    <2>2. w \in Nat
      BY <1>9
    <2> HIDE DEF w, l
    <2>3. w + l = n
      BY <1>1, <2>1, <2>2
    <2> QED BY <2>3 DEF w, l
  <1> QED BY <1>1, <1>10 DEF wins, losses, n

LEMMA SoundBalances ==
    ASSUME Sound(bt)
    PROVE  BacktestBalanced
  <1>1. InPosition <=> Long(bt)
    BY DEF InPosition, Long
  <1>2. Nets = NetsIn(bt)
    BY DEF Nets, NetsIn, NetsOf
  <1>3. Paid = PaidOf(bt)
    BY <1>1 DEF Paid, PaidOf
  <1>4. Books
    BY <1>2, <1>3 DEF Sound, Books, BooksOf
  <1>5. InPosition => Same(bt.cash, Zero)
    BY <1>1 DEF Sound
  <1>6. bt.pc = "done" => Same(final_equity, Plus(Plus(Num(Capital), Nets), ForcedFee))
    <2>1. ForcedFee = FeeOf(bt)
      BY DEF ForcedFee, FeeOf
    <2>2. bt.pc = "done" => FinalOf(bt)
      BY DEF Sound
    <2> QED BY <1>2, <2>1, <2>2 DEF FinalOf, final_equity
  <1>7. compute_metrics.wins[1] + compute_metrics.wins[2] = Len(bt.trades)
    <2>1. bt.trades \in Seq(Closed)
      BY DEF Sound, BtRecord
    <2>2. compute_metrics.wins = WinsAndLosses
      BY DEF compute_metrics
    <2>3. /\ WinsAndLosses[1] = Cardinality({k \in DOMAIN bt.trades : Less(Zero, bt.trades[k].net)})
          /\ WinsAndLosses[2] = Cardinality({k \in DOMAIN bt.trades : AtMost(bt.trades[k].net, Zero)})
      BY DEF WinsAndLosses
    <2> QED BY <2>1, <2>2, <2>3, WinsAndLossesAll
  <1>8. bt.pc = "bar" => (bt.state.long <=> InPosition)
    BY <1>1 DEF Sound
  <1>9. bt.strategy.custom /\ bt.pc = "bar" /\ InPosition =>
          \A n \in _holding_days_max(bt.strategy.rules.exit) : bt.i - 1 - bt.state.entry_index < (IF n > 0 THEN n ELSE 0)
    BY <1>1 DEF Sound, StopOf
  <1>10. bt.pc = "raised" => Unseen(bt)
    BY DEF Sound
  <1> QED BY <1>4, <1>5, <1>6, <1>7, <1>8, <1>9, <1>10 DEF BacktestBalanced, Unseen

LEMMA WarmupBound == Warmup \in Nat /\ Warmup < NumBars
  <1>1. NumBars \in Nat \ {0} /\ WarmupCap \in Nat /\ NumBars \div 2 \in Nat /\ NumBars \div 2 < NumBars
    BY BktAssumption
  <1> QED BY <1>1 DEF Warmup

LEMMA InitSound == BtInit => Sound(bt)
  <1>0. SUFFICES ASSUME NEW bars \in [1 .. NumBars -> BarChoices], NEW s \in Selectable,
                      bt = [pc |-> IF NumBars < MinBars THEN "refused" ELSE "bar", bars |-> bars, i |-> 1, strategy |-> s,
                            state |-> [long |-> FALSE, entry_index |-> 0],
                            cash |-> Num(Capital), quantity |-> Zero, entry |-> [price |-> 0, commission |-> Zero],
                            high |-> Num(Capital), curve |-> <<>>, trades |-> <<>>]
               PROVE  Sound(bt)
    BY DEF BtInit
  <1>1. Capital \in Nat \ {0} /\ NumBars \in Nat \ {0}
    BY BktAssumption
  <1>2. Num(Capital) \in Money /\ Zero \in Money /\ IsFraction(Num(Capital))
    BY <1>1, NumIs, ZeroIs
  <1>3. [long |-> FALSE, entry_index |-> 0] \in Memory
    BY DEF Memory
  <1>4. [price |-> 0, commission |-> Zero] \in [price : Int, commission : Money]
    BY <1>2
  <1>5. bt \in BtRecord
    BY <1>0, <1>2, <1>3, <1>4 DEF BtRecord
  <1>6. bt.i = 1 /\ bt.cash = Num(Capital) /\ bt.quantity = Zero /\ bt.trades = <<>> /\ ~bt.state.long /\ bt.pc \in {"refused", "bar"}
    BY <1>0
  <1>7. ~Long(bt) /\ PaidOf(bt) = Zero
    BY <1>6, ZeroIs DEF Long, PaidOf
  <1>8. NetsIn(bt) = Zero
    BY <1>6, NetsEmpty DEF NetsIn
  <1>9. BooksOf(bt)
    <2> DEFINE a == Plus(Num(Capital), Zero)
    <2>1. IsFraction(a)
      BY <1>2, ZeroIs, PlusIs
    <2>2. Same(a, a)
      <3> HIDE DEF a
      <3> QED BY <2>1 DEF Same, IsNum, IsFraction
    <2> QED BY <1>6, <1>7, <1>8, <2>2 DEF BooksOf
  <1>10. Less(Zero, bt.cash)
    BY <1>1, <1>6 DEF Less, IsNum, Zero, Num
  <1>11. IsFraction(NetsIn(bt)) /\ bt.pc # "done" /\ bt.pc # "raised" /\ bt.i >= 1 /\ bt.i <= NumBars
    BY <1>1, <1>6, <1>8, ZeroIs
  <1> QED BY <1>5, <1>6, <1>7, <1>9, <1>10, <1>11 DEF Sound

LEMMA RateOK == CommissionOK(Commission) /\ IsFraction(Commission)
  BY BktAssumption DEF CommissionOK, IsFraction

\* The position is closed: the books are those of one more trade.
LEMMA SoldIs ==
    ASSUME Sound(bt), bt.pc = "bar", Long(bt), NEW b \in BtRecord,
           b.cash = bt.cash, b.quantity = bt.quantity, b.entry = bt.entry, b.trades = bt.trades, NEW price \in Nat
    PROVE  LET r == Sold(b, price)
           IN  /\ r \in BtRecord /\ r.pc = b.pc /\ r.i = b.i /\ r.strategy = b.strategy /\ r.state = b.state
               /\ r.curve = b.curve /\ r.trades # <<>> /\ r.quantity = Zero /\ ~Long(r) /\ BooksOf(r) /\ IsFraction(NetsIn(r))
               /\ price > 0 => Less(Zero, r.cash)
               /\ Same(Plus(bt.cash, Times(bt.quantity, Num(price))),
                       Plus(Plus(Num(Capital), NetsIn(r)), LastOf(r.trades).exit_commission))
  <1> DEFINE cash == bt.cash
             quantity == bt.quantity
             entryFee == bt.entry.commission
             entryPrice == bt.entry.price
             nets == NetsIn(bt)
             fee == Times(Times(Num(price), quantity), Commission)
             net == Minus(Times(Num(price - entryPrice), quantity), Plus(entryFee, fee))
             after == Plus(cash, Minus(Times(Num(price), quantity), fee))
             trade == [net |-> net, exit_commission |-> fee]
             r == Sold(b, price)
  <1>1. bt \in BtRecord /\ IsFraction(nets) /\ BooksOf(bt) /\ Same(cash, Zero)
    BY DEF Sound
  <1>2. /\ IsFraction(cash) /\ IsFraction(quantity) /\ IsFraction(entryFee) /\ entryPrice \in Int
        /\ bt.trades \in Seq(Closed)
    BY <1>1, MoneyIs DEF BtRecord
  <1>3. Less(Zero, quantity)
    BY DEF Long
  <1>4. Same(Plus(cash, Plus(Times(quantity, Num(entryPrice)), entryFee)), Plus(Num(Capital), nets))
    BY <1>1 DEF BooksOf, PaidOf
  <1>5. Capital \in Int
    BY BktAssumption
  <1>6. trade = ClosedTrade(price)
    BY DEF ClosedTrade
  <1>7. /\ IsFraction(fee) /\ IsFraction(net) /\ IsFraction(after)
        /\ Same(Plus(after, Zero), Plus(Num(Capital), Plus(nets, net)))
        /\ price > 0 => Less(Zero, after)
        /\ Same(Plus(cash, Times(quantity, Num(price))), Plus(Plus(Num(Capital), Plus(nets, net)), fee))
    <2> HIDE DEF cash, quantity, entryFee, entryPrice, nets
    <2>1. fee = Times(Times(Num(price), quantity), Commission)
      OBVIOUS
    <2>2. net = Minus(Times(Num(price - entryPrice), quantity), Plus(entryFee, fee))
      OBVIOUS
    <2>3. after = Plus(cash, Minus(Times(Num(price), quantity), fee))
      OBVIOUS
    <2> HIDE DEF fee, net, after
    <2> QED BY <1>1, <1>2, <1>3, <1>4, <1>5, <2>1, <2>2, <2>3, RateOK, SellBooks
  <1>8. r = [b EXCEPT !.cash = after, !.trades = Append(bt.trades, trade), !.quantity = Zero]
    <2>1. trade.exit_commission = fee
      OBVIOUS
    <2> HIDE DEF trade, fee
    <2> QED BY <1>6, <2>1 DEF Sold
  <1> HIDE DEF fee, net, after
  <1>9. trade \in Closed /\ trade.net = net /\ trade.exit_commission = fee
    BY <1>7, MoneyIs DEF Closed
  <1> HIDE DEF trade
  <1> DEFINE trades == Append(bt.trades, trade)
  <1>10. trades \in Seq(Closed) /\ trades # <<>> /\ trades[Len(trades)] = trade
    BY <1>2, <1>9
  <1>11. LastOf(trades) = trade
    BY <1>10 DEF LastOf
  <1>12. NetsOf(Zero, trades) = Plus(nets, net)
    BY <1>2, <1>9, NetsAppend DEF NetsIn
  <1>13. r = [b EXCEPT !.cash = after, !.trades = trades, !.quantity = Zero]
    BY <1>8
  <1> HIDE DEF trades, r
  <1>14. after \in Money /\ Zero \in Money
    BY <1>7, MoneyIs, ZeroIs
  <1>15. r \in BtRecord
    BY <1>10, <1>13, <1>14 DEF BtRecord
  <1>16. /\ r.pc = b.pc /\ r.i = b.i /\ r.strategy = b.strategy /\ r.state = b.state /\ r.curve = b.curve
         /\ r.cash = after /\ r.trades = trades /\ r.quantity = Zero
    BY <1>13 DEF BtRecord
  <1>17. ~Long(r) /\ PaidOf(r) = Zero
    BY <1>16, ZeroIs DEF Long, PaidOf
  <1>18. NetsIn(r) = Plus(nets, net)
    BY <1>12, <1>16 DEF NetsIn
  <1>19. BooksOf(r)
    BY <1>7, <1>16, <1>17, <1>18 DEF BooksOf
  <1>20. IsFraction(NetsIn(r))
    BY <1>1, <1>7, <1>18, PlusIs
  <1>21. Same(Plus(bt.cash, Times(bt.quantity, Num(price))),
              Plus(Plus(Num(Capital), NetsIn(r)), LastOf(r.trades).exit_commission))
    BY <1>7, <1>9, <1>11, <1>16, <1>18
  <1>22. price > 0 => Less(Zero, r.cash)
    BY <1>7, <1>16
  <1> QED BY <1>10, <1>15, <1>16, <1>17, <1>19, <1>20, <1>21, <1>22 DEF r

\* A position is opened with all the cash there is.
LEMMA BoughtIs ==
    ASSUME Sound(bt), bt.pc = "bar", ~Long(bt), NEW b \in BtRecord, b.cash = bt.cash, b.trades = bt.trades,
           NEW price \in Nat \ {0}
    PROVE  LET r == Bought(b, price)
           IN  /\ r \in BtRecord /\ r.pc = b.pc /\ r.i = b.i /\ r.strategy = b.strategy /\ r.state = b.state
               /\ Long(r) /\ BooksOf(r) /\ NetsIn(r) = NetsIn(bt) /\ Same(r.cash, Zero)
  <1> DEFINE cash == bt.cash
             quantity == Ratio(cash, Times(Num(price), Plus(Num(1), Commission)))
             fee == Times(Times(Num(price), quantity), Commission)
             left == Minus(cash, Plus(Times(Num(price), quantity), fee))
             held == Plus(left, Plus(Times(quantity, Num(price)), fee))
             r == Bought(b, price)
             entry == [price |-> price, commission |-> fee]
  <1>1. bt \in BtRecord /\ IsFraction(NetsIn(bt)) /\ BooksOf(bt) /\ Less(Zero, cash)
    BY DEF Sound
  <1>2. IsFraction(cash)
    BY <1>1, MoneyIs DEF BtRecord
  <1>3. r = [b EXCEPT !.cash = left, !.quantity = quantity, !.entry = entry]
    BY DEF Bought
  <1>4. /\ IsFraction(quantity) /\ Less(Zero, quantity) /\ IsFraction(fee) /\ IsFraction(left) /\ Same(left, Zero)
        /\ IsFraction(held) /\ Same(held, cash)
    <2> HIDE DEF cash
    <2>1. quantity = Ratio(cash, Times(Num(price), Plus(Num(1), Commission)))
      OBVIOUS
    <2>2. fee = Times(Times(Num(price), quantity), Commission)
      OBVIOUS
    <2>3. left = Minus(cash, Plus(Times(Num(price), quantity), fee))
      OBVIOUS
    <2> HIDE DEF quantity, fee, left
    <2> QED BY <1>1, <1>2, <2>1, <2>2, <2>3, RateOK, BuySpendsAll
  <1>5. held = Plus(left, Plus(Times(quantity, Num(price)), fee))
    OBVIOUS
  <1> HIDE DEF held, left, quantity, fee
  <1>6. entry \in [price : Int, commission : Money] /\ left \in Money /\ quantity \in Money
    BY <1>4, MoneyIs
  <1>7. entry.price = price /\ entry.commission = fee
    OBVIOUS
  <1> HIDE DEF entry, r
  <1>8. r \in BtRecord
    BY <1>3, <1>6 DEF BtRecord
  <1>9. /\ r.pc = b.pc /\ r.i = b.i /\ r.strategy = b.strategy /\ r.state = b.state /\ r.trades = bt.trades
        /\ r.cash = left /\ r.quantity = quantity /\ r.entry = entry
    BY <1>3 DEF BtRecord
  <1>10. Long(r) /\ PaidOf(r) = Plus(Times(quantity, Num(price)), fee)
    BY <1>4, <1>7, <1>9 DEF Long, PaidOf
  <1>11. NetsIn(r) = NetsIn(bt)
    BY <1>9 DEF NetsIn
  <1>12. Plus(r.cash, PaidOf(r)) = held
    BY <1>5, <1>9, <1>10
  <1> DEFINE total == Plus(Num(Capital), NetsIn(bt))
  <1>13. IsFraction(total)
    <2>1. Capital \in Int
      BY BktAssumption
    <2> QED BY <1>1, <2>1, NumIs, PlusIs
  <1>14. Same(Plus(cash, Zero), total) /\ Same(Plus(cash, Zero), cash) /\ IsFraction(Plus(cash, Zero))
    BY <1>1, <1>2, PlusNothing, PlusIs, ZeroIs DEF BooksOf, PaidOf
  <1> HIDE DEF total, cash
  <1>15. Same(cash, total)
    <2>1. Same(cash, Plus(cash, Zero))
      BY <1>14 DEF Same
    <2> QED BY <1>2, <1>13, <1>14, <2>1, SameTransitive
  <1>16. Same(held, total)
    BY <1>2, <1>4, <1>13, <1>15, SameTransitive
  <1>17. BooksOf(r)
    BY <1>11, <1>12, <1>16 DEF BooksOf, total
  <1> QED BY <1>4, <1>8, <1>9, <1>10, <1>11, <1>17 DEF r

\* The books of the next state are those of its record.
LEMMA SoundLater == Sound(bt)' <=> Sound(bt')
  BY DEF Sound, BooksOf, PaidOf, NetsIn, Long, FinalOf, FeeOf, StopOf, Unseen

\* A position entered at the next bar, or one the time stop let be, is within the time stop.
LEMMA StopHolds ==
    ASSUME NEW d, NEW b, bt \in BtRecord, Decided(bt, d), bt.strategy.custom, d.target = 1,
           b.i = bt.i + 1, b.strategy = bt.strategy, b.state = d.state
    PROVE  StopOf(b)
  <1> DEFINE limit == _holding_days_max(bt.strategy.rules.exit)
             e == d.state.entry_index
             i == bt.i
  <1>1. i \in Int /\ e \in Int
    BY DEF BtRecord, Decided, Memory
  <1>2. limit \subseteq Int
    <2>1. bt.strategy \in Selectable
      BY DEF BtRecord
    <2>2. bt.strategy.rules \in Rules /\ IsGroup(bt.strategy.rules.exit)
      BY <2>1, SelectableFits
    <2> QED BY <2>2, StopIsInt
  <1>3. e = i + 1 \/ \A n \in limit : i - e < n
    BY DEF Decided
  <1>4. b.i = i + 1 /\ b.state.entry_index = e /\ _holding_days_max(b.strategy.rules.exit) = limit
    OBVIOUS
  <1> HIDE DEF limit, e, i
  <1>5. ASSUME NEW n \in limit PROVE b.i - 1 - b.state.entry_index < (IF n > 0 THEN n ELSE 0)
    <2>1. n \in Int
      BY <1>2
    <2> QED BY <1>1, <1>3, <1>4, <2>1
  <1> QED BY <1>4, <1>5 DEF StopOf

LEMMA WarmupSound ==
    ASSUME Sound(bt), WarmupBar
    PROVE  Sound(bt)'
  <1> DEFINE m == Marked
  <1>1. bt.pc = "bar" /\ bt.i <= Warmup /\ bt' = m
    BY DEF WarmupBar
  <1>2. bt \in BtRecord /\ bt.i \in Int /\ bt.i >= 1 /\ bt.i <= NumBars
    BY <1>1 DEF Sound, BtRecord
  <1>3. NumBars \in Nat /\ Warmup \in Nat /\ Warmup < NumBars
    BY BktAssumption, WarmupBound
  <1>4. bt.i \in 1 .. NumBars
    BY <1>2, <1>3
  <1>5. /\ m \in BtRecord /\ m.i = bt.i + 1
        /\ m.pc = bt.pc /\ m.bars = bt.bars /\ m.strategy = bt.strategy /\ m.state = bt.state
        /\ m.cash = bt.cash /\ m.quantity = bt.quantity /\ m.entry = bt.entry /\ m.trades = bt.trades
    BY <1>2, <1>4, MarkedIs
  <1> HIDE DEF m
  <1>6. ~Long(bt) /\ Less(Zero, bt.cash) /\ bt.quantity = Zero /\ ~bt.state.long /\ BooksOf(bt) /\ IsFraction(NetsIn(bt))
    BY <1>1 DEF Sound
  <1>7. ~Long(m) /\ PaidOf(m) = PaidOf(bt) /\ NetsIn(m) = NetsIn(bt)
    BY <1>5, <1>6 DEF Long, PaidOf, NetsIn
  <1>8. BooksOf(m)
    BY <1>5, <1>6, <1>7 DEF BooksOf
  <1>9. m.i >= 1 /\ m.i <= NumBars
    BY <1>1, <1>2, <1>3, <1>5
  <1>10. m.pc = "bar"
    BY <1>1, <1>5
  <1>11. Sound(m)
    BY <1>5, <1>6, <1>7, <1>8, <1>9, <1>10 DEF Sound
  <1> QED BY <1>1, <1>11, SoundLater

LEMMA LastSound ==
    ASSUME Sound(bt), LastBar
    PROVE  Sound(bt)'
  <1> DEFINE m == Marked
             close == bt.bars[NumBars].close
             b == IF InPosition THEN Sold(m, close) ELSE m
             r == [b EXCEPT !.pc = "done"]
             total(x) == Plus(Num(Capital), NetsIn(x))
  <1>1. bt.pc = "bar" /\ bt.i = NumBars /\ bt' = r
    BY DEF LastBar
  <1>2. bt \in BtRecord /\ bt.i \in Int /\ bt.i >= 1 /\ NumBars \in Nat /\ NumBars \in 1 .. NumBars
    BY <1>1, BktAssumption DEF Sound, BtRecord
  <1>3. bt.i \in 1 .. NumBars
    BY <1>1, <1>2
  <1>4. /\ m \in BtRecord /\ m.i = bt.i + 1
        /\ m.pc = bt.pc /\ m.bars = bt.bars /\ m.strategy = bt.strategy /\ m.state = bt.state
        /\ m.cash = bt.cash /\ m.quantity = bt.quantity /\ m.entry = bt.entry /\ m.trades = bt.trades
    BY <1>2, <1>3, MarkedIs
  <1>5. m.curve[Len(m.curve)].equity = Plus(bt.cash, Times(bt.quantity, Num(close)))
    BY <1>1, <1>2, <1>3, MarkedIs
  <1> HIDE DEF m
  <1>6. close \in Nat
    <2>1. bt.bars \in [1 .. NumBars -> BarChoices]
      BY <1>2 DEF BtRecord
    <2>2. bt.bars[NumBars] \in BarChoices
      BY <1>2, <2>1
    <2> QED BY <2>2, BktAssumption
  <1> HIDE DEF close
  <1>7. InPosition <=> Long(bt)
    BY DEF InPosition, Long
  <1>8. BooksOf(bt) /\ IsFraction(NetsIn(bt)) /\ IsFraction(bt.cash) /\ IsFraction(bt.quantity)
    BY <1>2, MoneyIs DEF Sound, BtRecord
  <1>9. /\ b \in BtRecord /\ b.i = bt.i + 1 /\ ~Long(b) /\ BooksOf(b) /\ IsFraction(NetsIn(b))
        /\ Same(b.curve[Len(b.curve)].equity, Plus(total(b), FeeOf(b)))
    <2>1. CASE Long(bt)
      <3>1. b = Sold(m, close)
        BY <1>7, <2>1
      <3>2. /\ b \in BtRecord /\ b.i = m.i /\ b.state = m.state /\ b.curve = m.curve
            /\ b.trades # <<>> /\ ~Long(b) /\ BooksOf(b) /\ IsFraction(NetsIn(b))
            /\ Same(Plus(bt.cash, Times(bt.quantity, Num(close))),
                    Plus(Plus(Num(Capital), NetsIn(b)), LastOf(b.trades).exit_commission))
        <4> HIDE DEF b
        <4> QED BY <1>1, <1>4, <1>6, <2>1, <3>1, SoldIs
      <3> HIDE DEF b
      <3>3. bt.state.long
        BY <1>1, <2>1 DEF Sound
      <3>4. FeeOf(b) = LastOf(b.trades).exit_commission
        BY <1>4, <3>2, <3>3 DEF FeeOf
      <3> QED BY <1>4, <1>5, <3>2, <3>4
    <2>2. CASE ~Long(bt)
      <3>1. b = m
        BY <1>7, <2>2
      <3> HIDE DEF b
      <3>2. ~Long(b) /\ PaidOf(b) = Zero /\ PaidOf(bt) = Zero /\ NetsIn(b) = NetsIn(bt)
        BY <1>4, <2>2, <3>1 DEF Long, PaidOf, NetsIn
      <3>3. BooksOf(b)
        BY <1>4, <1>8, <3>1, <3>2 DEF BooksOf
      <3>4. ~bt.state.long
        BY <1>1, <2>2 DEF Sound
      <3>5. FeeOf(b) = Zero
        BY <1>4, <3>1, <3>4 DEF FeeOf
      <3> DEFINE sum == total(bt)
                 rest == Plus(bt.cash, Zero)
                 marked == Plus(bt.cash, Times(Zero, Num(close)))
                 grand == Plus(sum, Zero)
      <3>6. bt.quantity = Zero
        BY <1>1, <2>2 DEF Sound
      <3>7. IsFraction(sum) /\ Same(rest, sum) /\ IsFraction(rest)
        <4>1. Capital \in Int
          BY BktAssumption
        <4> QED BY <1>8, <3>2, <4>1, NumIs, PlusIs, ZeroIs DEF BooksOf
      <3>8. IsFraction(marked) /\ Same(marked, bt.cash) /\ Same(rest, bt.cash)
        <4>1. IsFraction(Num(close)) /\ IsFraction(Zero)
          BY <1>6, NumIs, ZeroIs
        <4> QED BY <1>8, <4>1, PlusIs, PlusNothing
      <3>9. grand = Plus(total(b), FeeOf(b)) /\ b.curve[Len(b.curve)].equity = marked
        BY <1>4, <1>5, <3>1, <3>2, <3>5, <3>6
      <3> HIDE DEF sum, rest, marked
      <3>10. IsFraction(grand) /\ Same(grand, sum)
        BY <3>7, PlusNothing, PlusIs, ZeroIs
      <3> HIDE DEF grand
      <3>11. Same(bt.cash, rest) /\ Same(sum, grand)
        BY <3>8, <3>10 DEF Same
      <3>12. Same(marked, rest)
        BY <1>8, <3>7, <3>8, <3>11, SameTransitive
      <3>13. Same(marked, sum)
        BY <3>7, <3>8, <3>12, SameTransitive
      <3>14. Same(marked, grand)
        BY <3>7, <3>8, <3>10, <3>11, <3>13, SameTransitive
      <3>15. b \in BtRecord /\ b.i = bt.i + 1 /\ IsFraction(NetsIn(b))
        BY <1>4, <1>8, <3>1, <3>2
      <3> QED BY <3>2, <3>3, <3>9, <3>14, <3>15
    <2> QED BY <2>1, <2>2
  <1> HIDE DEF b
  <1>10. r \in BtRecord
    BY <1>9 DEF BtRecord
  <1>11. /\ r.pc = "done" /\ r.i = b.i /\ r.strategy = b.strategy /\ r.state = b.state /\ r.curve = b.curve
         /\ r.cash = b.cash /\ r.quantity = b.quantity /\ r.entry = b.entry /\ r.trades = b.trades
    BY <1>9 DEF BtRecord
  <1> HIDE DEF r
  <1>12. ~Long(r) /\ PaidOf(r) = PaidOf(b) /\ NetsIn(r) = NetsIn(b) /\ FeeOf(r) = FeeOf(b)
    BY <1>9, <1>11 DEF Long, PaidOf, NetsIn, FeeOf
  <1>13. BooksOf(r) /\ FinalOf(r)
    BY <1>9, <1>11, <1>12 DEF BooksOf, FinalOf
  <1>14. r.i >= 1
    BY <1>2, <1>9, <1>11
  <1>15. Sound(r)
    BY <1>9, <1>10, <1>11, <1>12, <1>13, <1>14 DEF Sound
  <1> QED BY <1>1, <1>15, SoundLater

\* A decision and its fill, at the open of the next bar.
LEMMA TradingSound ==
    ASSUME Sound(bt), TradingBar
    PROVE  Sound(bt)'
  <1> DEFINE m == Marked
             d == Decide(bt.i)
             b == [m EXCEPT !.state = d.state]
             price == bt.bars[bt.i + 1].open
             r == Filled(d, price)
  <1>1. bt.pc = "bar" /\ bt.i > Warmup /\ bt.i < NumBars /\ bt' = r
    BY DEF TradingBar
  <1>2. bt \in BtRecord /\ bt.i \in Int /\ bt.i >= 1 /\ NumBars \in Nat /\ Warmup \in Nat
    BY WarmupBound, BktAssumption DEF Sound, BtRecord
  <1>3. bt.i \in 1 .. NumBars /\ bt.i + 1 \in 1 .. NumBars
    BY <1>1, <1>2
  <1>4. /\ m \in BtRecord /\ m.i = bt.i + 1
        /\ m.pc = bt.pc /\ m.bars = bt.bars /\ m.strategy = bt.strategy /\ m.state = bt.state
        /\ m.cash = bt.cash /\ m.quantity = bt.quantity /\ m.entry = bt.entry /\ m.trades = bt.trades
    BY <1>2, <1>3, MarkedIs
  <1>5. Decided(bt, d)
    BY <1>2, <1>3, DecideDecides
  <1>6. price \in Nat \ {0}
    <2>1. bt.bars \in [1 .. NumBars -> BarChoices]
      BY <1>2 DEF BtRecord
    <2>2. bt.bars[bt.i + 1] \in BarChoices
      BY <1>3, <2>1
    <2> QED BY <2>2, BktAssumption
  <1>7. InPosition <=> Long(bt)
    BY DEF InPosition, Long
  <1>8. r = CASE d.target = -1 -> [bt EXCEPT !.pc = "raised"]
              [] d.target = 1 /\ ~InPosition -> Bought(b, price)
              [] d.target = 0 /\ InPosition -> Sold(b, price)
              [] OTHER -> b
    BY DEF Filled
  <1> HIDE DEF m, d, price, r
  <1>9. d.target \in {-1, 0, 1} /\ d.state \in Memory
    BY <1>5 DEF Decided
  <1>10. b \in BtRecord
    BY <1>4, <1>9 DEF BtRecord
  <1>11. /\ b.pc = "bar" /\ b.i = bt.i + 1 /\ b.strategy = bt.strategy /\ b.state = d.state /\ b.trades = bt.trades
         /\ b.cash = bt.cash /\ b.quantity = bt.quantity /\ b.entry = bt.entry
    BY <1>1, <1>4 DEF BtRecord
  <1> HIDE DEF b
  <1>12. b.i >= 1 /\ b.i <= NumBars /\ ~(b.i <= Warmup)
    BY <1>1, <1>2, <1>11
  <1>13. BooksOf(bt) /\ IsFraction(NetsIn(bt)) /\ (Long(bt) => Same(bt.cash, Zero))
    BY DEF Sound
  <1>14. ~Long(bt) => Less(Zero, bt.cash) /\ bt.quantity = Zero
    BY <1>1 DEF Sound
  <1>15. bt.strategy.custom /\ d.target = 1 => StopOf(b)
    BY <1>2, <1>5, <1>11, StopHolds
  <1>16. d.target # -1 => (d.state.long <=> d.target = 1)
    BY <1>5 DEF Decided
  <1>17. CASE d.target = -1
    <2>1. r = [bt EXCEPT !.pc = "raised"]
      BY <1>8, <1>17
    <2>2. r \in BtRecord
      BY <1>2, <2>1 DEF BtRecord
    <2>3. /\ r.pc = "raised" /\ r.i = bt.i /\ r.strategy = bt.strategy
          /\ r.cash = bt.cash /\ r.quantity = bt.quantity /\ r.entry = bt.entry /\ r.trades = bt.trades
          /\ r.state = bt.state
      BY <1>2, <2>1 DEF BtRecord
    <2>4. (Long(r) <=> Long(bt)) /\ PaidOf(r) = PaidOf(bt) /\ NetsIn(r) = NetsIn(bt)
      BY <2>3 DEF Long, PaidOf, NetsIn
    <2>5. BooksOf(r)
      BY <1>13, <2>3, <2>4 DEF BooksOf
    <2>6. Unseen(r)
      BY <1>5, <1>17, <2>3 DEF Decided, Unseen
    <2>7. Sound(r)
      BY <1>2, <1>13, <2>2, <2>3, <2>4, <2>5, <2>6 DEF Sound
    <2> QED BY <1>1, <2>7, SoundLater
  <1>18. CASE d.target = 1 /\ ~Long(bt)
    <2>1. r = Bought(b, price)
      BY <1>7, <1>8, <1>18
    <2>2. /\ r \in BtRecord /\ r.pc = b.pc /\ r.i = b.i /\ r.strategy = b.strategy /\ r.state = b.state
          /\ Long(r) /\ BooksOf(r) /\ NetsIn(r) = NetsIn(bt) /\ Same(r.cash, Zero)
      BY <1>1, <1>6, <1>10, <1>11, <1>18, <2>1, BoughtIs
    <2>3. r.strategy.custom => StopOf(r)
      BY <1>11, <1>15, <1>18, <2>2 DEF StopOf
    <2>4. r.state.long
      BY <1>11, <1>16, <1>18, <2>2
    <2>5. Sound(r)
      BY <1>11, <1>12, <1>13, <2>2, <2>3, <2>4 DEF Sound
    <2> QED BY <1>1, <2>5, SoundLater
  <1>19. CASE d.target = 0 /\ Long(bt)
    <2>1. r = Sold(b, price)
      BY <1>7, <1>8, <1>19
    <2>2. price \in Nat /\ price > 0
      BY <1>6
    <2>3. /\ r \in BtRecord /\ r.pc = b.pc /\ r.i = b.i /\ r.strategy = b.strategy /\ r.state = b.state
          /\ r.quantity = Zero /\ ~Long(r) /\ BooksOf(r) /\ IsFraction(NetsIn(r)) /\ Less(Zero, r.cash)
      BY <1>1, <1>10, <1>11, <1>19, <2>1, <2>2, SoldIs
    <2>4. ~r.state.long
      BY <1>11, <1>16, <1>19, <2>3
    <2>5. Sound(r)
      BY <1>11, <1>12, <2>3, <2>4 DEF Sound
    <2> QED BY <1>1, <2>5, SoundLater
  <1>20. CASE (d.target = 1 /\ Long(bt)) \/ (d.target = 0 /\ ~Long(bt))
    <2>1. r = b
      BY <1>7, <1>8, <1>20
    <2>2. (Long(b) <=> Long(bt)) /\ PaidOf(b) = PaidOf(bt) /\ NetsIn(b) = NetsIn(bt)
      BY <1>11 DEF Long, PaidOf, NetsIn
    <2>3. BooksOf(b)
      BY <1>11, <1>13, <2>2 DEF BooksOf
    <2>4. b.state.long <=> Long(b)
      BY <1>11, <1>16, <1>20, <2>2
    <2>5. b.strategy.custom /\ Long(b) => StopOf(b)
      BY <1>11, <1>15, <1>20, <2>2
    <2>6. Sound(b)
      BY <1>10, <1>11, <1>12, <1>13, <1>14, <2>2, <2>3, <2>4, <2>5 DEF Sound
    <2> QED BY <1>1, <2>1, <2>6, SoundLater
  <1> QED BY <1>9, <1>17, <1>18, <1>19, <1>20

LEMMA BarSound ==
    ASSUME Sound(bt), BtNext
    PROVE  Sound(bt)'
  BY WarmupSound, TradingSound, LastSound DEF BtNext

-----------------------------------------------------------------------------
(***************************************************************************)
(* The books of every backtest balance after every bar, whatever the bars, *)
(* the capital, a commission below the price and the strategy: cash and    *)
(* what was paid for the open position are the capital and the nets of the *)
(* closed trades; the reported value exceeds them by the commission of a   *)
(* forced close; strategy and engine agree about the position; a time stop *)
(* is not overrun; and validated rules raise only in groups of several     *)
(* clauses or at an atr with a negative period.                            *)
(***************************************************************************)
THEOREM BacktestsBalance == AlgSpec => []BacktestSound
  <1> DEFINE Kept == case.of = "backtest" => Sound(bt)
  <1>1. AlgInit => Kept
    <2>1. ASSUME case \in Cases PROVE case.of # "backtest"
      BY <2>1 DEF Cases, Case
    <2>2. Case("lots", 0).of # "backtest"
      BY DEF Case
    <2> QED BY <2>1, <2>2, InitSound DEF AlgInit
  <1>2. Kept /\ [AlgNext]_algVars => Kept'
    <2> SUFFICES ASSUME Kept, [AlgNext]_algVars PROVE Kept'
      OBVIOUS
    <2>1. CASE UNCHANGED bt /\ UNCHANGED case
      BY <2>1, SoundLater
    <2>2. CASE case.of = "backtest" /\ BtNext /\ UNCHANGED case
      BY <2>2, BarSound
    <2> QED BY <2>1, <2>2 DEF AlgNext, algVars
  <1>3. Kept => BacktestSound
    BY SoundBalances DEF BacktestSound
  <1> QED BY <1>1, <1>2, <1>3, PTL DEF AlgSpec

=============================================================================
