----------------------------- MODULE TradeProofs -----------------------------
(***************************************************************************)
(* The holdings snapshot under overlapping trades, for any number of       *)
(* handlers, trades, quantities, prices and days.  First which history the *)
(* walk was given and which row it is written over, then what it computes. *)
(* At the end the two reports that walk the history again.                 *)
(***************************************************************************)
EXTENDS TaxReports, LotFacts

-----------------------------------------------------------------------------
(* ROUND_HALF_EVEN, which the snapshot's columns are quantized with. *)

LEMMA HalfEvenQuotient ==
    ASSUME NEW x \in Int, NEW u \in Nat \ {0}
    PROVE  LET q == x \div u
               r == x % u
               h == HalfEven(x, u)
           IN  /\ q \in Int /\ r \in Int /\ 0 <= r /\ r < u /\ x = u * q + r /\ u * q \in Int
               /\ (h = q /\ 2 * r <= u) \/ (h = q + 1 /\ 2 * r >= u)
               /\ h = q + 1 <=> 2 * r > u \/ (2 * r = u /\ q % 2 = 1)
  <1> DEFINE q == x \div u
             r == x % u
             h == HalfEven(x, u)
  <1>1. q \in Int /\ r \in Int /\ 0 <= r /\ r < u /\ x = u * q + r
    OBVIOUS
  <1> DEFINE odd == q % 2 = 1
             up == 2 * r > u \/ (2 * r = u /\ odd)
  <1>2. h = IF up THEN q + 1 ELSE q
    BY DEF HalfEven
  <1> HIDE DEF q, r, h, odd
  <1>3. u * q \in Int
    BY <1>1
  <1>4. (h = q /\ 2 * r <= u) \/ (h = q + 1 /\ 2 * r >= u)
    <2>1. CASE up
      <3>1. 2 * r >= u
        BY <1>1, <2>1
      <3> QED BY <1>2, <2>1, <3>1
    <2>2. CASE ~up
      <3>1. 2 * r <= u
        BY <1>1, <2>2
      <3>2. h = q
        <4> HIDE DEF up
        <4> QED BY <1>2, <2>2
      <3> QED BY <3>1, <3>2
    <2> QED BY <2>1, <2>2
  <1>5. h = q + 1 <=> up
    BY <1>1, <1>2
  <1> QED BY <1>1, <1>3, <1>4, <1>5 DEF q, r, h, odd

\* Rounding moves a value by at most half a unit.
LEMMA HalfEvenClose ==
    ASSUME NEW x \in Int, NEW u \in Nat \ {0}
    PROVE  /\ HalfEven(x, u) \in Int /\ u * HalfEven(x, u) \in Int
           /\ 2 * (u * HalfEven(x, u)) - 2 * x \in -u .. u
           /\ x >= 0 => HalfEven(x, u) >= 0
           /\ x = 0 => HalfEven(x, u) = 0
  <1> DEFINE q == x \div u
             r == x % u
             h == HalfEven(x, u)
  <1>1. /\ q \in Int /\ r \in Int /\ 0 <= r /\ r < u /\ x = u * q + r /\ u * q \in Int
        /\ (h = q /\ 2 * r <= u) \/ (h = q + 1 /\ 2 * r >= u)
    BY HalfEvenQuotient
  <1>2. x >= 0 => q >= 0
    BY Divided
  <1>3. x = 0 => q = 0 /\ r = 0
    OBVIOUS
  <1> HIDE DEF q, r, h
  <1>4. u * (q + 1) = u * q + u
    BY <1>1
  <1>5. h \in Int /\ u * h \in Int /\ 2 * (u * h) - 2 * x \in -u .. u
    <2>1. CASE h = q /\ 2 * r <= u
      BY <1>1, <2>1
    <2>2. CASE h = q + 1 /\ 2 * r >= u
      <3>1. u * h = u * q + u /\ h \in Int
        BY <1>1, <1>4, <2>2
      <3> QED BY <1>1, <2>2, <3>1
    <2> QED BY <1>1, <2>1, <2>2
  <1>6. (x >= 0 => h >= 0) /\ (x = 0 => h = 0)
    BY <1>1, <1>2, <1>3
  <1> QED BY <1>5, <1>6 DEF h

\* The larger value is not rounded to less.
LEMMA HalfEvenGrows ==
    ASSUME NEW x \in Int, NEW y \in Int, x <= y, NEW u \in Nat \ {0}
    PROVE  HalfEven(x, u) <= HalfEven(y, u)
  <1> DEFINE p == x \div u
             q == y \div u
             a == x % u
             b == y % u
             g == HalfEven(x, u)
             h == HalfEven(y, u)
  <1>1. /\ p \in Int /\ a \in Int /\ 0 <= a /\ a < u /\ x = u * p + a /\ u * p \in Int
        /\ (g = p /\ 2 * a <= u) \/ (g = p + 1 /\ 2 * a >= u)
        /\ g = p + 1 <=> 2 * a > u \/ (2 * a = u /\ p % 2 = 1)
    BY HalfEvenQuotient
  <1>2. /\ q \in Int /\ b \in Int /\ 0 <= b /\ b < u /\ y = u * q + b /\ u * q \in Int
        /\ (h = q /\ 2 * b <= u) \/ (h = q + 1 /\ 2 * b >= u)
        /\ h = q + 1 <=> 2 * b > u \/ (2 * b = u /\ q % 2 = 1)
    BY HalfEvenQuotient
  <1> HIDE DEF p, q, a, b, g, h
  <1>3. p <= q
    <2>1. u * p < u * q + u
      BY <1>1, <1>2
    <2> QED BY <1>1, <1>2, <2>1, Multiples
  <1>4. g \in {p, p + 1} /\ h \in {q, q + 1}
    BY <1>1, <1>2
  <1>5. ASSUME p < q PROVE g <= h
    BY <1>1, <1>2, <1>4, <1>5
  <1>6. ASSUME p = q PROVE g <= h
    <2>1. a <= b
      BY <1>1, <1>2, <1>6
    <2> DEFINE odd == p % 2 = 1
    <2>2. /\ g = p + 1 <=> 2 * a > u \/ (2 * a = u /\ odd)
          /\ h = p + 1 <=> 2 * b > u \/ (2 * b = u /\ odd)
      BY <1>1, <1>2, <1>6
    <2> HIDE DEF odd
    <2>3. a \in Int /\ b \in Int
      BY <1>1, <1>2
    <2>4. g = p + 1 => h = p + 1
      BY <2>1, <2>2, <2>3
    <2>5. g \in {p, p + 1} /\ h \in {p, p + 1} /\ p \in Int
      BY <1>1, <1>4, <1>6
    <2> QED BY <2>4, <2>5
  <1>7. p < q \/ p = q
    BY <1>1, <1>2, <1>3
  <1> QED BY <1>5, <1>6, <1>7 DEF g, h

-----------------------------------------------------------------------------
(* Folds as runs: from the start value, one row or lot after the other. *)

WalkAll(base, seq) == FoldLeft(Walk, base, seq)
ConsumeAll(base, seq) == FoldLeft(Consume, base, seq)

Walks(run, base, seq, n) ==
    run[0] = base /\ run[n] = WalkAll(base, seq) /\ \A k \in 1 .. n : run[k] = Walk(run[k - 1], seq[k])
Consumes(run, base, seq, n) ==
    run[0] = base /\ run[n] = ConsumeAll(base, seq) /\ \A k \in 1 .. n : run[k] = Consume(run[k - 1], seq[k])

\* The walk over a history.
LEMMA WalkRun ==
    ASSUME NEW base, NEW seq, NEW n \in Nat, DOMAIN seq = 1 .. n
    PROVE  \E run : Walks(run, base, seq, n)
  <1> DEFINE Val(h, s) == IF s = {} THEN base ELSE Walk(h[s \ {Max(s)}], seq[Max(s)])
             Is(m, h) == h = [s \in SUBSET (1 .. m) |-> Val(h, s)]
             P == {m \in Nat : \E h : Is(m, h)}
  <1>1. 0 \in P
    <2>1. SUBSET (1 .. 0) = {{}}
      OBVIOUS
    <2>2. Is(0, [s \in {{}} |-> base])
      BY <2>1
    <2> QED BY <2>2
  <1>2. ASSUME NEW m \in Nat, m \in P PROVE m + 1 \in P
    <2>1. PICK h : h = [s \in SUBSET (1 .. m) |-> Val(h, s)]
      BY <1>2
    <2> DEFINE g == [s \in SUBSET (1 .. m + 1) |->
                       IF m + 1 \in s THEN Walk(h[s \ {m + 1}], seq[m + 1]) ELSE h[s]]
    <2>2. ASSUME NEW s \in SUBSET (1 .. m) PROVE g[s] = h[s]
      BY <1>2
    <2>3. ASSUME NEW s \in SUBSET (1 .. m + 1) PROVE g[s] = Val(g, s)
      <3>1. CASE m + 1 \in s
        <4>1. Max(s) = m + 1 /\ s \ {m + 1} \in SUBSET (1 .. m)
          BY <1>2, <3>1, MaxOfTop
        <4>2. g[s \ {m + 1}] = h[s \ {m + 1}]
          BY <2>2, <4>1
        <4>3. g[s] = Walk(h[s \ {m + 1}], seq[m + 1])
          BY <3>1
        <4> HIDE DEF g
        <4> QED BY <3>1, <4>1, <4>2, <4>3
      <3>2. CASE m + 1 \notin s
        <4>1. s \in SUBSET (1 .. m)
          BY <1>2, <3>2
        <4>2. g[s] = h[s] /\ h[s] = Val(h, s)
          BY <2>1, <2>2, <4>1
        <4>3. s # {} => g[s \ {Max(s)}] = h[s \ {Max(s)}]
          BY <1>2, <2>2, <4>1, MaxIsIn
        <4> HIDE DEF g
        <4> QED BY <4>2, <4>3
      <3> QED BY <3>1, <3>2
    <2>4. g = [s \in SUBSET (1 .. m + 1) |-> Val(g, s)]
      <3>1. [s \in SUBSET (1 .. m + 1) |-> g[s]] = [s \in SUBSET (1 .. m + 1) |-> Val(g, s)]
        <4> HIDE DEF g, Val
        <4> QED BY <2>3
      <3>2. g = [s \in SUBSET (1 .. m + 1) |-> g[s]]
        OBVIOUS
      <3> HIDE DEF g, Val
      <3> QED BY <3>1, <3>2
    <2> HIDE DEF g, Val
    <2>5. Is(m + 1, g)
      BY <2>4
    <2> QED BY <1>2, <2>5
  <1>3. \A m \in Nat : m \in P
    <2> HIDE DEF P
    <2> QED BY <1>1, <1>2, InductionSet
  <1> DEFINE iter == CHOOSE h : Is(n, h)
  <1>4. Is(n, iter)
    <2> HIDE DEF Is
    <2> QED BY <1>3
  <1>5. FoldLeft(Walk, base, seq) = iter[1 .. n]
    BY DEF FoldLeft, MapThenFoldSet
  <1> HIDE DEF iter
  <1>6. \A s \in SUBSET (1 .. n) : iter[s] = Val(iter, s)
    BY <1>4
  <1> DEFINE run == [k \in 0 .. n |-> iter[1 .. k]]
  <1>7. run[0] = base
    <2>1. 1 .. 0 = {} /\ {} \in SUBSET (1 .. n) /\ 0 \in 0 .. n
      OBVIOUS
    <2> QED BY <1>6, <2>1
  <1>8. ASSUME NEW k \in 1 .. n PROVE run[k] = Walk(run[k - 1], seq[k])
    <2>1. k \in 0 .. n /\ k - 1 \in 0 .. n /\ 1 .. k # {} /\ 1 .. k \in SUBSET (1 .. n)
      OBVIOUS
    <2>2. (1 .. k) \ {k} = 1 .. (k - 1)
      OBVIOUS
    <2>3. Max(1 .. k) = k
      <3> DEFINE j == k - 1
      <3>1. j \in Nat /\ j + 1 = k
        OBVIOUS
      <3> HIDE DEF j
      <3>2. 1 .. j + 1 \in SUBSET (1 .. j + 1) /\ j + 1 \in 1 .. j + 1
        BY <3>1
      <3>3. Max(1 .. j + 1) = j + 1
        BY <3>1, <3>2, MaxOfTop
      <3> QED BY <3>1, <3>3
    <2>4. iter[1 .. k] = Walk(iter[1 .. (k - 1)], seq[k])
      BY <1>6, <2>1, <2>2, <2>3
    <2> QED BY <2>1, <2>4
  <1>9. run[n] = WalkAll(base, seq)
    BY <1>5 DEF WalkAll
  <1> HIDE DEF run
  <1>10. Walks(run, base, seq, n)
    BY <1>7, <1>8, <1>9 DEF Walks
  <1> QED BY <1>10

\* A sell going through the lots.
LEMMA ConsumeRun ==
    ASSUME NEW base, NEW seq, NEW n \in Nat, DOMAIN seq = 1 .. n
    PROVE  \E run : Consumes(run, base, seq, n)
  <1> DEFINE Val(h, s) == IF s = {} THEN base ELSE Consume(h[s \ {Max(s)}], seq[Max(s)])
             Is(m, h) == h = [s \in SUBSET (1 .. m) |-> Val(h, s)]
             P == {m \in Nat : \E h : Is(m, h)}
  <1>1. 0 \in P
    <2>1. SUBSET (1 .. 0) = {{}}
      OBVIOUS
    <2>2. Is(0, [s \in {{}} |-> base])
      BY <2>1
    <2> QED BY <2>2
  <1>2. ASSUME NEW m \in Nat, m \in P PROVE m + 1 \in P
    <2>1. PICK h : h = [s \in SUBSET (1 .. m) |-> Val(h, s)]
      BY <1>2
    <2> DEFINE g == [s \in SUBSET (1 .. m + 1) |->
                       IF m + 1 \in s THEN Consume(h[s \ {m + 1}], seq[m + 1]) ELSE h[s]]
    <2>2. ASSUME NEW s \in SUBSET (1 .. m) PROVE g[s] = h[s]
      BY <1>2
    <2>3. ASSUME NEW s \in SUBSET (1 .. m + 1) PROVE g[s] = Val(g, s)
      <3>1. CASE m + 1 \in s
        <4>1. Max(s) = m + 1 /\ s \ {m + 1} \in SUBSET (1 .. m)
          BY <1>2, <3>1, MaxOfTop
        <4>2. g[s \ {m + 1}] = h[s \ {m + 1}]
          BY <2>2, <4>1
        <4>3. g[s] = Consume(h[s \ {m + 1}], seq[m + 1])
          BY <3>1
        <4> HIDE DEF g
        <4> QED BY <3>1, <4>1, <4>2, <4>3
      <3>2. CASE m + 1 \notin s
        <4>1. s \in SUBSET (1 .. m)
          BY <1>2, <3>2
        <4>2. g[s] = h[s] /\ h[s] = Val(h, s)
          BY <2>1, <2>2, <4>1
        <4>3. s # {} => g[s \ {Max(s)}] = h[s \ {Max(s)}]
          BY <1>2, <2>2, <4>1, MaxIsIn
        <4> HIDE DEF g
        <4> QED BY <4>2, <4>3
      <3> QED BY <3>1, <3>2
    <2>4. g = [s \in SUBSET (1 .. m + 1) |-> Val(g, s)]
      <3>1. [s \in SUBSET (1 .. m + 1) |-> g[s]] = [s \in SUBSET (1 .. m + 1) |-> Val(g, s)]
        <4> HIDE DEF g, Val
        <4> QED BY <2>3
      <3>2. g = [s \in SUBSET (1 .. m + 1) |-> g[s]]
        OBVIOUS
      <3> HIDE DEF g, Val
      <3> QED BY <3>1, <3>2
    <2> HIDE DEF g, Val
    <2>5. Is(m + 1, g)
      BY <2>4
    <2> QED BY <1>2, <2>5
  <1>3. \A m \in Nat : m \in P
    <2> HIDE DEF P
    <2> QED BY <1>1, <1>2, InductionSet
  <1> DEFINE iter == CHOOSE h : Is(n, h)
  <1>4. Is(n, iter)
    <2> HIDE DEF Is
    <2> QED BY <1>3
  <1>5. FoldLeft(Consume, base, seq) = iter[1 .. n]
    BY DEF FoldLeft, MapThenFoldSet
  <1> HIDE DEF iter
  <1>6. \A s \in SUBSET (1 .. n) : iter[s] = Val(iter, s)
    BY <1>4
  <1> DEFINE run == [k \in 0 .. n |-> iter[1 .. k]]
  <1>7. run[0] = base
    <2>1. 1 .. 0 = {} /\ {} \in SUBSET (1 .. n) /\ 0 \in 0 .. n
      OBVIOUS
    <2> QED BY <1>6, <2>1
  <1>8. ASSUME NEW k \in 1 .. n PROVE run[k] = Consume(run[k - 1], seq[k])
    <2>1. k \in 0 .. n /\ k - 1 \in 0 .. n /\ 1 .. k # {} /\ 1 .. k \in SUBSET (1 .. n)
      OBVIOUS
    <2>2. (1 .. k) \ {k} = 1 .. (k - 1)
      OBVIOUS
    <2>3. Max(1 .. k) = k
      <3> DEFINE j == k - 1
      <3>1. j \in Nat /\ j + 1 = k
        OBVIOUS
      <3> HIDE DEF j
      <3>2. 1 .. j + 1 \in SUBSET (1 .. j + 1) /\ j + 1 \in 1 .. j + 1
        BY <3>1
      <3>3. Max(1 .. j + 1) = j + 1
        BY <3>1, <3>2, MaxOfTop
      <3> QED BY <3>1, <3>3
    <2>4. iter[1 .. k] = Consume(iter[1 .. (k - 1)], seq[k])
      BY <1>6, <2>1, <2>2, <2>3
    <2> QED BY <2>1, <2>4
  <1>9. run[n] = ConsumeAll(base, seq)
    BY <1>5 DEF ConsumeAll
  <1> HIDE DEF run
  <1>10. Consumes(run, base, seq, n)
    BY <1>7, <1>8, <1>9 DEF Consumes
  <1> QED BY <1>10

Columns == {"quantity", "avg_cost", "invested", "realized", "dividends", "present"}

\* A snapshot row, or its absence: a record of all columns.
IsHolding(h) == h = [c \in Columns |-> h[c]]

Domains ==
    /\ pc \in [Requests -> {"idle", "select_buys", "select_sells", "insert", "select_snapshot", "flush", "commit"}]
    /\ alone \in [Requests -> BOOLEAN]
    /\ DOMAIN row = Requests /\ DOMAIN new = Requests /\ DOMAIN loaded = Requests
    /\ IsHolding(holdings)
    /\ \A r \in Requests : IsHolding(new[r])

(***************************************************************************)
(* A handler that has run alone so far has walked the history that its     *)
(* commit will leave, and has loaded the row that its commit will meet.    *)
(***************************************************************************)
RunsAlone(r) ==
    alone[r] =>
        /\ \A q \in Requests : q # r => pc[q] = "idle"
        /\ pc[r] \in {"select_snapshot", "flush", "commit"} => new[r] = Snapshot(transactions \cup {row[r]})
        /\ pc[r] \in {"flush", "commit"} => loaded[r] = holdings

HealInv == Domains /\ \A r \in Requests : RunsAlone(r)

-----------------------------------------------------------------------------
LEMMA NoHoldingIsHolding == IsHolding(NoHolding)
  BY DEF IsHolding, NoHolding, Columns

LEMMA SnapshotIsHolding ==
    ASSUME NEW rows
    PROVE  IsHolding(Snapshot(rows))
  BY NoHoldingIsHolding DEF Snapshot, IsHolding, Columns

\* The UPDATE of the columns that differ keeps the other columns of the row.
LEMMA WrittenIsHolding ==
    ASSUME NEW r, IsHolding(holdings), IsHolding(new[r])
    PROVE  IsHolding(Written(r))
  <1>1. DOMAIN holdings = Columns
    BY DEF IsHolding
  <1> QED BY <1>1 DEF Written, IsHolding

\* Written over the row it was compared with, the new snapshot is stored whole.
LEMMA WrittenWhole ==
    ASSUME NEW r, IsHolding(holdings), IsHolding(new[r]), loaded[r] = holdings
    PROVE  Written(r) = new[r]
  <1>1. DOMAIN holdings = Columns
    BY DEF IsHolding
  <1>2. new[r] = [c \in Columns |-> new[r][c]]
    BY DEF IsHolding
  <1>3. [c \in DOMAIN holdings |-> IF new[r][c] # loaded[r][c] THEN new[r][c] ELSE holdings[c]] = new[r]
    BY <1>1, <1>2
  <1> QED BY <1>3 DEF Written

LEMMA InitHeal == Init => HealInv
  BY NoHoldingIsHolding DEF Init, HealInv, Domains, RunsAlone

\* A handler that ends leaves the others' lonely runs, if any, as they were.
LEMMA EndHeal ==
    ASSUME HealInv, NEW r \in Requests, End(r), IsHolding(holdings'), pc[r] # "idle",
           UNCHANGED tables \/ pc[r] = "commit"
    PROVE  HealInv'
  <1>1. Domains'
    BY NoHoldingIsHolding DEF HealInv, Domains, End
  <1>2. ASSUME NEW q \in Requests PROVE RunsAlone(q)'
    <2>1. CASE q = r
      BY <2>1 DEF HealInv, Domains, End, RunsAlone
    <2>2. CASE q # r
      BY <2>2 DEF HealInv, Domains, End, RunsAlone
    <2> QED BY <2>1, <2>2
  <1> QED BY <1>1, <1>2 DEF HealInv

LEMMA SubmitHeal ==
    ASSUME HealInv, NEW r \in Requests, NEW id, NEW kind, NEW day, NEW qty, NEW price,
           Submit(r, id, kind, day, qty, price)
    PROVE  HealInv'
  <1>1. Domains'
    BY DEF HealInv, Domains, Submit, tables
  <1>2. ASSUME NEW q \in Requests PROVE RunsAlone(q)'
    BY DEF HealInv, Domains, Submit, tables, RunsAlone
  <1> QED BY <1>1, <1>2 DEF HealInv

LEMMA SelectHeal ==
    ASSUME HealInv, NEW r \in Requests, SelectBuys(r) \/ SelectSells(r)
    PROVE  HealInv'
  <1>1. CASE SelectSells(r) /\ End(r)
    <2>1. pc[r] # "idle" /\ UNCHANGED tables /\ IsHolding(holdings')
      BY <1>1 DEF SelectSells, tables, HealInv, Domains
    <2> QED BY <1>1, <2>1, EndHeal
  <1>2. CASE ~End(r)
    <2>1. /\ pc[r] \in {"select_buys", "select_sells"}
          /\ UNCHANGED <<transactions, holdings, new, loaded, alone>>
          /\ DOMAIN row' = DOMAIN row /\ \A q \in Requests : q # r => row'[q] = row[q]
          /\ \E at \in {"select_sells", "insert"} : pc' = [pc EXCEPT ![r] = at]
      BY <1>2 DEF SelectBuys, SelectSells, tables, HealInv, Domains
    <2>2. Domains'
      BY <2>1 DEF HealInv, Domains
    <2>3. ASSUME NEW q \in Requests PROVE RunsAlone(q)'
      BY <2>1 DEF HealInv, Domains, RunsAlone
    <2> QED BY <2>2, <2>3 DEF HealInv
  <1>3. CASE SelectBuys(r)
    <2>1. Domains'
      BY <1>3 DEF HealInv, Domains, SelectBuys, tables
    <2>2. ASSUME NEW q \in Requests PROVE RunsAlone(q)'
      BY <1>3 DEF HealInv, Domains, SelectBuys, tables, RunsAlone
    <2> QED BY <2>1, <2>2 DEF HealInv
  <1> QED BY <1>1, <1>2, <1>3

LEMMA WalkHeal ==
    ASSUME HealInv, NEW r \in Requests, InsertAndWalk(r)
    PROVE  HealInv'
  <1>1. Domains'
    BY SnapshotIsHolding DEF HealInv, Domains, InsertAndWalk, tables
  <1>2. ASSUME NEW q \in Requests PROVE RunsAlone(q)'
    BY DEF HealInv, Domains, InsertAndWalk, tables, RunsAlone
  <1> QED BY <1>1, <1>2 DEF HealInv

LEMMA LoadHeal ==
    ASSUME HealInv, NEW r \in Requests, SelectSnapshot(r)
    PROVE  HealInv'
  <1>1. Domains'
    BY DEF HealInv, Domains, SelectSnapshot, tables
  <1>2. ASSUME NEW q \in Requests PROVE RunsAlone(q)'
    BY DEF HealInv, Domains, SelectSnapshot, tables, RunsAlone
  <1> QED BY <1>1, <1>2 DEF HealInv

LEMMA FlushHeal ==
    ASSUME HealInv, NEW r \in Requests, Flush(r)
    PROVE  HealInv'
  <1>1. pc[r] = "flush" /\ UNCHANGED <<transactions, holdings>> /\ IsHolding(holdings')
    BY DEF Flush, tables, HealInv, Domains
  <1>2. CASE End(r)
    BY <1>1, <1>2, EndHeal DEF tables
  <1>3. CASE pc' = [pc EXCEPT ![r] = "commit"] /\ UNCHANGED <<row, new, loaded, alone>>
    <2>1. Domains'
      BY <1>1, <1>3 DEF HealInv, Domains
    <2>2. ASSUME NEW q \in Requests PROVE RunsAlone(q)'
      BY <1>1, <1>3 DEF HealInv, Domains, RunsAlone
    <2> QED BY <2>1, <2>2 DEF HealInv
  <1> QED BY <1>2, <1>3 DEF Flush

LEMMA CommitHeal ==
    ASSUME HealInv, NEW r \in Requests, Commit(r)
    PROVE  HealInv'
  BY EndHeal, WrittenIsHolding DEF Commit, HealInv, Domains

LEMMA NextHeal == HealInv /\ [Next]_vars => HealInv'
  <1> SUFFICES ASSUME HealInv, [Next]_vars PROVE HealInv'
    OBVIOUS
  <1>1. CASE UNCHANGED vars
    <2>1. Domains'
      BY <1>1 DEF vars, HealInv, Domains
    <2>2. ASSUME NEW q \in Requests PROVE RunsAlone(q)'
      BY <1>1 DEF vars, HealInv, RunsAlone
    <2> QED BY <2>1, <2>2 DEF HealInv
  <1>2. ASSUME NEW r \in Requests, Crash(r) PROVE HealInv'
    BY <1>2, EndHeal DEF Crash, tables, HealInv, Domains
  <1>3. ASSUME NEW r \in Requests, Step(r) PROVE HealInv'
    BY <1>3, SelectHeal, WalkHeal, LoadHeal, FlushHeal, CommitHeal DEF Step
  <1> QED BY <1>1, <1>2, <1>3, SubmitHeal DEF Next

LEMMA HealInvariance == Spec => []HealInv
  BY InitHeal, NextHeal, PTL DEF Spec

-----------------------------------------------------------------------------
\* A commit of a handler that ran alone stores the snapshot of what it leaves.
LEMMA CommitHeals ==
    ASSUME HealInv, NEW r \in Requests, alone[r], Commit(r)
    PROVE  holdings' = Snapshot(transactions')
  <1>1. new[r] = Snapshot(transactions \cup {row[r]}) /\ loaded[r] = holdings
    BY DEF HealInv, RunsAlone, Commit
  <1>2. Written(r) = new[r]
    BY <1>1, WrittenWhole DEF HealInv, Domains
  <1> QED BY <1>1, <1>2 DEF Commit

(***************************************************************************)
(* Whatever was lost while trades overlapped, a trade recorded alone puts  *)
(* the whole holdings_snapshot row right, for any number of handlers.      *)
(***************************************************************************)
THEOREM LoneTradesHeal == Spec => SelfHeals
  <1>1. HealInv /\ [Next]_vars =>
          [\A r \in Requests : alone[r] /\ Commit(r) => holdings' = Snapshot(transactions')]_vars
    BY CommitHeals
  <1> QED BY <1>1, HealInvariance, PTL DEF Spec, SelfHeals

-----------------------------------------------------------------------------
\* No two handlers are under way.
Serial == \A q, r \in Requests : pc[q] # "idle" /\ pc[r] # "idle" => q = r

\* Between the commits of a serial history the snapshot is that of the history.
FreshInv ==
    /\ holdings = Snapshot(transactions)
    /\ \A r \in Requests : pc[r] # "idle" => alone[r]

\* No trades, no row.
LEMMA EmptySnapshot == Snapshot({}) = NoHolding
  <1> DEFINE base == [lots |-> << >>, realized |-> 0, invested |-> 0, dividends |-> 0]
  <1>1. Sorted({}) = << >>
    BY FS_EmptySet DEF Sorted
  <1>2. WalkAll(base, Sorted({})) = base
    <2>1. DOMAIN << >> = 1 .. 0 /\ 0 \in Nat
      OBVIOUS
    <2>2. PICK run : run[0] = base /\ run[0] = WalkAll(base, << >>)
      <3> HIDE DEF base
      <3>1. PICK run : Walks(run, base, << >>, 0)
        BY <2>1, WalkRun
      <3> QED BY <3>1 DEF Walks
    <2> QED BY <1>1, <2>2
  <1>3. base.lots = << >> /\ base.dividends = 0 /\ base.realized = 0
    OBVIOUS
  <1>4. SumFunction([k \in DOMAIN << >> |-> << >>[k].qty]) = 0
    <2>1. DOMAIN [k \in DOMAIN << >> |-> << >>[k].qty] = {}
      OBVIOUS
    <2> QED BY <2>1, SumEmpty DEF SumFunction
  <1>5. Snapshot({}) = LET w == WalkAll(base, Sorted({}))
                           qty == SumFunction([k \in DOMAIN w.lots |-> w.lots[k].qty])
                           cost == SumFunction([k \in DOMAIN w.lots |-> w.lots[k].qty * w.lots[k].price])
                       IN  IF qty = 0 /\ w.dividends = 0 /\ w.realized = 0 THEN NoHolding
                           ELSE [quantity |-> qty, avg_cost |-> IF qty > 0 THEN HalfEven(cost, qty) ELSE 0,
                                 invested |-> HalfEven(w.invested, Paisa),
                                 realized |-> HalfEven(w.realized, Paisa),
                                 dividends |-> HalfEven(w.dividends, Paisa), present |-> TRUE]
    BY DEF Snapshot, WalkAll
  <1> HIDE DEF base
  <1> QED BY <1>2, <1>3, <1>4, <1>5

LEMMA NextFresh ==
    ASSUME HealInv, FreshInv, Serial, Serial', [Next]_vars
    PROVE  FreshInv'
  <1>1. ASSUME NEW r \in Requests, NEW id, NEW kind, NEW day, NEW qty, NEW price,
               Submit(r, id, kind, day, qty, price)
        PROVE  FreshInv'
    <2>1. pc[r] = "idle" /\ pc'[r] # "idle" /\ \A q \in Requests : q # r => pc'[q] = pc[q]
      BY <1>1 DEF Submit, HealInv, Domains
    <2>2. \A q \in Requests : pc[q] = "idle"
      BY <2>1 DEF Serial
    <2>3. \A q \in Requests : pc'[q] # "idle" => q = r
      BY <2>1, <2>2
    <2> QED BY <1>1, <2>2, <2>3 DEF Submit, tables, FreshInv
  <1>2. ASSUME NEW r \in Requests, End(r), UNCHANGED tables \/ Commit(r) PROVE FreshInv'
    <2>1. holdings' = Snapshot(transactions')
      BY <1>2, CommitHeals DEF FreshInv, tables, Commit
    <2>2. \A q \in Requests : pc'[q] # "idle" => alone'[q]
      BY <1>2 DEF FreshInv, HealInv, Domains, End
    <2> QED BY <2>1, <2>2 DEF FreshInv
  <1>3. ASSUME UNCHANGED <<transactions, holdings, alone>>,
               NEW r \in Requests, pc[r] # "idle", \A q \in Requests : q # r => pc'[q] = pc[q]
        PROVE  FreshInv'
    BY <1>3 DEF FreshInv
  <1>4. ASSUME NEW r \in Requests, Step(r) PROVE FreshInv'
    <2>1. pc[r] # "idle" /\ (End(r) \/ \A q \in Requests : q # r => pc'[q] = pc[q])
      BY <1>4 DEF Step, SelectBuys, SelectSells, InsertAndWalk, SelectSnapshot, Flush, Commit, HealInv, Domains
    <2>2. End(r) \/ UNCHANGED alone
      BY <1>4 DEF Step, SelectBuys, SelectSells, InsertAndWalk, SelectSnapshot, Flush, Commit
    <2>3. UNCHANGED tables \/ Commit(r)
      BY <1>4 DEF Step, SelectBuys, SelectSells, InsertAndWalk, SelectSnapshot, Flush, tables
    <2>4. Commit(r) => End(r)
      BY DEF Commit
    <2> QED BY <1>2, <1>3, <2>1, <2>2, <2>3, <2>4 DEF tables
  <1>5. CASE UNCHANGED vars
    BY <1>5 DEF vars, FreshInv
  <1>6. ASSUME NEW r \in Requests, Crash(r) PROVE FreshInv'
    BY <1>2, <1>6 DEF Crash, tables
  <1> QED BY <1>1, <1>4, <1>5, <1>6 DEF Next

(***************************************************************************)
(* As long as no two trades of the symbol are under way at the same time,  *)
(* crashes included, the snapshot is the one the committed history gives.  *)
(***************************************************************************)
THEOREM SerialStaysFresh == Spec /\ []Serial => []SnapshotFresh
  <1>1. Init => FreshInv
    BY EmptySnapshot DEF Init, FreshInv
  <1>2. HealInv /\ FreshInv /\ Serial /\ Serial' /\ [Next]_vars => FreshInv'
    BY NextFresh
  <1>3. FreshInv => SnapshotFresh
    BY DEF FreshInv, SnapshotFresh
  <1> QED BY <1>1, <1>2, <1>3, HealInvariance, PTL DEF Spec

(***************************************************************************)
(* So it is when one handler records all trades.                           *)
(***************************************************************************)
THEOREM OneHandlerStaysFresh ==
    ASSUME \A q, r \in Requests : q = r
    PROVE  Spec => []SnapshotFresh
  <1>1. Serial
    BY DEF Serial
  <1> QED BY <1>1, SerialStaysFresh, PTL

-----------------------------------------------------------------------------
\* An open lot of the walk.
Lot == [qty : Nat, price : Nat]

LEMMA LotCuttable == Cuttable(Lot)
  BY DEF Cuttable, Lot

\* A sell that has gone through some of the lots.
Selling == [remaining : Nat, price : Nat, realized : Int, lots : Seq(Lot)]

(***************************************************************************)
(* One lot: what it holds goes to the sell or stays, and a lot stays only  *)
(* when the sell has all it needs.                                         *)
(***************************************************************************)
LEMMA ConsumeLot ==
    ASSUME NEW acc \in Selling, NEW lot \in Lot, acc.remaining = 0 \/ HeldIn(acc.lots) = 0
    PROVE  /\ Consume(acc, lot) \in Selling
           /\ HeldIn(Consume(acc, lot).lots) + acc.remaining =
                HeldIn(acc.lots) + lot.qty + Consume(acc, lot).remaining
           /\ Consume(acc, lot).remaining = 0 \/ HeldIn(Consume(acc, lot).lots) = 0
  <1> DEFINE take == IF lot.qty < acc.remaining THEN lot.qty ELSE acc.remaining
             rest == [lot EXCEPT !.qty = @ - take]
             res == Consume(acc, lot)
  <1>1. /\ lot.qty \in Nat /\ lot.price \in Nat
        /\ acc.remaining \in Nat /\ acc.lots \in Seq(Lot) /\ acc.price \in Nat /\ acc.realized \in Int
    BY DEF Lot, Selling
  <1>2. take \in Nat /\ take <= lot.qty /\ take <= acc.remaining
    BY <1>1
  <1>3. rest \in Lot /\ rest.qty = lot.qty - take
    BY <1>1, <1>2 DEF Lot
  <1>4. (acc.price - lot.price) * take \in Int
    BY <1>1, <1>2
  <1>5. HeldIn(acc.lots) \in Nat
    BY <1>1, HeldNat, LotCuttable
  <1>6. Append(acc.lots, rest) \in Seq(Lot) /\ HeldIn(Append(acc.lots, rest)) = HeldIn(acc.lots) + (lot.qty - take)
    BY <1>1, <1>3, HeldAppend, LotCuttable
  <1>7. res = [acc EXCEPT !.remaining = @ - take,
                    !.realized = @ + (acc.price - lot.price) * take,
                    !.lots = IF take = lot.qty THEN @ ELSE Append(@, rest)]
    BY DEF Consume
  <1>8. (lot.qty < acc.remaining => take = lot.qty) /\ (~(lot.qty < acc.remaining) => take = acc.remaining)
    OBVIOUS
  <1> HIDE DEF take, rest, res
  <1>9. /\ res.remaining = acc.remaining - take
        /\ res.lots = IF take = lot.qty THEN acc.lots ELSE Append(acc.lots, rest)
        /\ res.realized = acc.realized + (acc.price - lot.price) * take
    BY <1>7 DEF Selling
  <1>10. res \in Selling
    <2>1. acc.realized + (acc.price - lot.price) * take \in Int
      BY <1>1, <1>4
    <2>2. acc.remaining - take \in Nat
      BY <1>1, <1>2
    <2>3. (IF take = lot.qty THEN acc.lots ELSE Append(acc.lots, rest)) \in Seq(Lot)
      BY <1>1, <1>6
    <2>4. res = [remaining |-> acc.remaining - take, price |-> acc.price,
                 realized |-> acc.realized + (acc.price - lot.price) * take,
                 lots |-> IF take = lot.qty THEN acc.lots ELSE Append(acc.lots, rest)]
      BY <1>7 DEF Selling
    <2> QED BY <1>1, <2>1, <2>2, <2>3, <2>4 DEF Selling
  <1>11. HeldIn(res.lots) = HeldIn(acc.lots) + (lot.qty - take)
    BY <1>1, <1>2, <1>5, <1>6, <1>9
  <1>12. res.remaining = 0 \/ HeldIn(res.lots) = 0
    BY <1>1, <1>2, <1>5, <1>8, <1>9, <1>11
  <1>13. HeldIn(res.lots) + acc.remaining = HeldIn(acc.lots) + lot.qty + res.remaining
    <2>1. \A held, rem, qty, off \in Int : (held + (qty - off)) + rem = held + qty + (rem - off)
      OBVIOUS
    <2>2. HeldIn(acc.lots) \in Int /\ acc.remaining \in Int /\ lot.qty \in Int /\ take \in Int
      BY <1>1, <1>2, <1>5
    <2>3. res.remaining = acc.remaining - take
      BY <1>9
    <2> QED BY <1>11, <2>1, <2>2, <2>3
  <1> QED BY <1>10, <1>12, <1>13 DEF res

\* The walk so far.
Walker == [lots : Seq(Lot), realized : Int, invested : Nat, dividends : Nat]

\* A sell takes its quantity off the shares held, or all of them.
LEMMA SellTakes ==
    ASSUME NEW w \in Walker, NEW t, t.qty \in Nat, t.price \in Nat
    PROVE  /\ WalkSell(w, t) \in Walker
           /\ WalkSell(w, t).invested = w.invested /\ WalkSell(w, t).dividends = w.dividends
           /\ HeldIn(WalkSell(w, t).lots) =
                IF t.qty < HeldIn(w.lots) THEN HeldIn(w.lots) - t.qty ELSE 0
  <1> DEFINE base == [remaining |-> t.qty, price |-> t.price, realized |-> w.realized, lots |-> << >>]
             n == Len(w.lots)
             q == QtyOf(w.lots)
             acc == ConsumeAll(base, w.lots)
  <1>1. /\ w.lots \in Seq(Lot) /\ w.realized \in Int /\ w.invested \in Nat /\ w.dividends \in Nat
    BY DEF Walker
  <1>2. n \in Nat /\ DOMAIN w.lots = 1 .. n /\ \A k \in 1 .. n : w.lots[k] \in Lot
    BY <1>1
  <1>3. /\ HeldIn(w.lots) \in Nat /\ HeldIn(w.lots) = SumFunctionOnSet(q, 1 .. n)
        /\ \A k \in 1 .. n : q[k] \in Nat
    BY <1>1, HeldNat, LotCuttable
  <1>4. \A k \in 1 .. n : q[k] = w.lots[k].qty
    BY <1>2 DEF QtyOf
  <1>5. base \in Selling /\ base.remaining = t.qty /\ HeldIn(base.lots) = 0
    BY <1>1, HeldEmpty DEF Selling
  <1>6. WalkSell(w, t) = [w EXCEPT !.lots = acc.lots, !.realized = acc.realized]
    BY DEF WalkSell, ConsumeAll
  <1> HIDE DEF base, n, q, acc
  <1>7. PICK run : /\ run[0] = base /\ run[n] = acc
                   /\ \A k \in 1 .. n : run[k] = Consume(run[k - 1], w.lots[k])
    <2>1. PICK run : Consumes(run, base, w.lots, n)
      BY <1>2, ConsumeRun
    <2> QED BY <2>1 DEF Consumes, acc
  <1> DEFINE Ok(k) == /\ run[k] \in Selling
                      /\ run[k].remaining = 0 \/ HeldIn(run[k].lots) = 0
                      /\ HeldIn(run[k].lots) + t.qty = SumFunctionOnSet(q, 1 .. k) + run[k].remaining
             P == {k \in Nat : k <= n => Ok(k)}
  <1>8. 0 \in P
    <2>1. 1 .. 0 = {}
      OBVIOUS
    <2> QED BY <1>5, <1>7, <2>1, SumEmpty
  <1>9. ASSUME NEW k \in Nat, k \in P PROVE k + 1 \in P
    <2> SUFFICES ASSUME k + 1 <= n PROVE Ok(k + 1)
      OBVIOUS
    <2>1. k + 1 \in 1 .. n /\ (k + 1) - 1 = k /\ k <= n
      BY <1>2
    <2>2. Ok(k)
      BY <1>9, <2>1
    <2>3. run[k + 1] = Consume(run[k], w.lots[k + 1])
      BY <1>7, <2>1
    <2>4. w.lots[k + 1] \in Lot /\ q[k + 1] = w.lots[k + 1].qty /\ q[k + 1] \in Int
      BY <1>2, <1>3, <1>4, <2>1
    <2>5. /\ run[k + 1] \in Selling
          /\ HeldIn(run[k + 1].lots) + run[k].remaining = HeldIn(run[k].lots) + q[k + 1] + run[k + 1].remaining
          /\ run[k + 1].remaining = 0 \/ HeldIn(run[k + 1].lots) = 0
      BY <2>2, <2>3, <2>4, ConsumeLot
    <2>6. /\ SumFunctionOnSet(q, 1 .. k + 1) = q[k + 1] + SumFunctionOnSet(q, 1 .. k)
          /\ SumFunctionOnSet(q, 1 .. k) \in Int
      <3>1. \A j \in 1 .. k + 1 : q[j] \in Int
        BY <1>2, <1>3, <2>1
      <3> QED BY <3>1, SumUpTo
    <2>7. /\ run[k].remaining \in Int /\ run[k + 1].remaining \in Int
          /\ HeldIn(run[k].lots) \in Int /\ HeldIn(run[k + 1].lots) \in Int
      <3>1. \A a \in Selling : a.remaining \in Nat /\ a.lots \in Seq(Lot)
        BY DEF Selling
      <3>2. \A a \in Selling : HeldIn(a.lots) \in Nat
        BY <3>1, HeldNat, LotCuttable
      <3> QED BY <2>2, <2>5, <3>1, <3>2
    <2>8. HeldIn(run[k + 1].lots) + t.qty = SumFunctionOnSet(q, 1 .. k + 1) + run[k + 1].remaining
      <3> DEFINE h == HeldIn(run[k].lots)
                 hh == HeldIn(run[k + 1].lots)
                 r == run[k].remaining
                 rr == run[k + 1].remaining
                 x == q[k + 1]
                 sum == SumFunctionOnSet(q, 1 .. k)
                 total == SumFunctionOnSet(q, 1 .. k + 1)
      <3>1. h + t.qty = sum + r /\ hh + r = h + x + rr /\ total = x + sum
        BY <2>2, <2>5, <2>6
      <3>2. h \in Int /\ hh \in Int /\ r \in Int /\ rr \in Int /\ x \in Int /\ sum \in Int /\ t.qty \in Int
        BY <2>4, <2>6, <2>7
      <3> HIDE DEF h, hh, r, rr, x, sum, total
      <3>3. hh + t.qty = total + rr
        BY <3>1, <3>2
      <3> QED BY <3>3 DEF hh, total, rr
    <2> QED BY <2>5, <2>8
  <1>10. Ok(n)
    <2> HIDE DEF Ok
    <2>1. \A k \in Nat : k \in P
      <3> HIDE DEF P
      <3> QED BY <1>8, <1>9, InductionSet
    <2> QED BY <1>2, <2>1
  <1>11. /\ acc \in Selling /\ (acc.remaining = 0 \/ HeldIn(acc.lots) = 0)
         /\ HeldIn(acc.lots) + t.qty = HeldIn(w.lots) + acc.remaining
    BY <1>3, <1>7, <1>10
  <1>12. acc.lots \in Seq(Lot) /\ acc.realized \in Int /\ acc.remaining \in Nat
    BY <1>11 DEF Selling
  <1>13. HeldIn(acc.lots) \in Nat
    BY <1>12, HeldNat, LotCuttable
  <1>14. HeldIn(acc.lots) = IF t.qty < HeldIn(w.lots) THEN HeldIn(w.lots) - t.qty ELSE 0
    BY <1>3, <1>11, <1>12, <1>13
  <1>15. WalkSell(w, t) = [lots |-> acc.lots, realized |-> acc.realized, invested |-> w.invested, dividends |-> w.dividends]
    BY <1>6 DEF Walker
  <1> QED BY <1>1, <1>12, <1>14, <1>15 DEF Walker

-----------------------------------------------------------------------------
\* A trade as the form admits it.
RowColumns == {"id", "kind", "date", "qty", "price", "created", "cgt", "gain", "matched"}
Acquired == {"buy", "bonus", "rights"}
Trade(t) ==
    /\ t = [c \in RowColumns |-> t[c]] /\ t.id \in Int
    /\ t.kind \in Acquired \cup {"sell", "dividend"} /\ t.date \in Int
    /\ t.qty \in Nat /\ t.qty > 0 /\ t.price \in Nat /\ t.created \in Nat

\* What it adds to the shares held and to the money paid for shares.
\* SelectSells fills three columns of the row and keeps the others.
Filled(f, r, m) == [f EXCEPT ![r] = [@ EXCEPT !.cgt = m.cgt, !.gain = m.gain, !.matched = m.matched]]

LEMMA RowFilled ==
    ASSUME NEW f, NEW R, DOMAIN f = R, NEW r \in R, f[r] = [c \in RowColumns |-> f[r][c]],
           NEW m, NEW g, g = Filled(f, r, m)
    PROVE  /\ DOMAIN g = R /\ \A q \in R : q # r => g[q] = f[q]
           /\ g[r] = [c \in RowColumns |-> g[r][c]]
           /\ g[r].cgt = m.cgt /\ g[r].gain = m.gain /\ g[r].matched = m.matched
           /\ g[r].id = f[r].id /\ g[r].kind = f[r].kind /\ g[r].date = f[r].date /\ g[r].qty = f[r].qty
           /\ g[r].price = f[r].price /\ g[r].created = f[r].created
  <1> DEFINE t == f[r]
             x == m.cgt
             y == m.gain
             z == m.matched
             w == [t EXCEPT !.cgt = x, !.gain = y, !.matched = z]
  <1>1. g = [f EXCEPT ![r] = w]
    BY DEF Filled
  <1>2. t = [c \in RowColumns |-> t[c]]
    OBVIOUS
  <1> HIDE DEF t, x, y, z
  <1>3. /\ w = [c \in RowColumns |-> w[c]] /\ w.cgt = x /\ w.gain = y /\ w.matched = z
        /\ w.id = t.id /\ w.kind = t.kind /\ w.date = t.date /\ w.qty = t.qty /\ w.price = t.price
        /\ w.created = t.created
    BY <1>2 DEF RowColumns
  <1> HIDE DEF w
  <1>4. g[r] = w /\ DOMAIN g = R /\ \A q \in R : q # r => g[q] = f[q]
    BY <1>1
  <1> QED BY <1>3, <1>4 DEF t, x, y, z

LEMMA SellFilled ==
    ASSUME NEW r \in Requests, SelectSells(r), ~End(r), DOMAIN row = Requests,
           row[r] = [c \in RowColumns |-> row[r][c]]
    PROVE  LET m == MatchSell(row[r], buys[r], Sells(transactions))
           IN  /\ m.error = "none"
               /\ DOMAIN row' = Requests /\ \A q \in Requests : q # r => row'[q] = row[q]
               /\ row'[r] = [c \in RowColumns |-> row'[r][c]]
               /\ row'[r].cgt = m.cgt /\ row'[r].gain = m.gain /\ row'[r].matched = m.matched
               /\ row'[r].id = row[r].id /\ row'[r].kind = row[r].kind /\ row'[r].date = row[r].date
               /\ row'[r].qty = row[r].qty /\ row'[r].price = row[r].price
               /\ row'[r].created = row[r].created
  <1> DEFINE m == MatchSell(row[r], buys[r], Sells(transactions))
             g == row'
             f == row
  <1>1. m.error = "none"
    BY DEF SelectSells
  <1>2. g = Filled(f, r, m) /\ DOMAIN f = Requests /\ f[r] = [c \in RowColumns |-> f[r][c]]
    <2>1. g = [row EXCEPT ![r] = [@ EXCEPT !.cgt = m.cgt, !.gain = m.gain, !.matched = m.matched]]
      BY DEF SelectSells
    <2> HIDE DEF m
    <2> QED BY <2>1 DEF Filled
  <1> HIDE DEF m
  <1> HIDE DEF f, g
  <1>3. /\ DOMAIN g = Requests /\ \A q \in Requests : q # r => g[q] = f[q]
        /\ g[r] = [c \in RowColumns |-> g[r][c]]
        /\ g[r].cgt = m.cgt /\ g[r].gain = m.gain /\ g[r].matched = m.matched
        /\ g[r].id = f[r].id /\ g[r].kind = f[r].kind /\ g[r].date = f[r].date /\ g[r].qty = f[r].qty
        /\ g[r].price = f[r].price /\ g[r].created = f[r].created
    BY <1>2, RowFilled
  <1> QED BY <1>1, <1>3 DEF m, f, g

Bought(t) == IF t.kind \in Acquired THEN t.qty ELSE 0
Spent(t) == IF t.kind \in Acquired THEN t.qty * t.price ELSE 0

LEMMA TradeTypes ==
    ASSUME NEW t, Trade(t)
    PROVE  Bought(t) \in Nat /\ Spent(t) \in Nat /\ t.qty * t.price \in Nat
  BY DEF Trade, Bought, Spent

LEMMA WalkRow ==
    ASSUME NEW w \in Walker, NEW t, Trade(t)
    PROVE  /\ Walk(w, t) \in Walker /\ Walk(w, t).invested = w.invested + Spent(t)
           /\ HeldIn(Walk(w, t).lots) =
                IF t.kind # "sell" THEN HeldIn(w.lots) + Bought(t)
                ELSE IF t.qty < HeldIn(w.lots) THEN HeldIn(w.lots) - t.qty ELSE 0
  <1>1. /\ w.lots \in Seq(Lot) /\ w.realized \in Int /\ w.invested \in Nat /\ w.dividends \in Nat
    BY DEF Walker
  <1>2. t.qty \in Nat /\ t.price \in Nat /\ t.qty * t.price \in Nat
    BY TradeTypes DEF Trade
  <1>3. HeldIn(w.lots) \in Nat
    BY <1>1, HeldNat, LotCuttable
  <1>4. CASE t.kind = "sell"
    <2>1. Walk(w, t) = WalkSell(w, t) /\ Spent(t) = 0
      BY <1>4 DEF Walk, Spent, Acquired
    <2> QED BY <1>1, <1>2, <1>4, <2>1, SellTakes
  <1>5. CASE t.kind = "dividend"
    <2>1. Bought(t) = 0 /\ Spent(t) = 0
      BY <1>5 DEF Bought, Spent, Acquired
    <2>2. Walk(w, t) = [lots |-> w.lots, realized |-> w.realized, invested |-> w.invested,
                        dividends |-> w.dividends + t.qty * t.price]
      BY <1>5 DEF Walk, Walker
    <2> QED BY <1>1, <1>2, <1>3, <1>5, <2>1, <2>2 DEF Walker
  <1>6. CASE t.kind \in Acquired
    <2> DEFINE lot == [qty |-> t.qty, price |-> t.price]
    <2>1. Bought(t) = t.qty /\ Spent(t) = t.qty * t.price /\ t.kind # "sell" /\ t.kind # "dividend"
      BY <1>6 DEF Bought, Spent, Acquired
    <2>2. lot \in Lot /\ lot.qty = t.qty
      BY <1>2 DEF Lot
    <2>3. Walk(w, t) = [lots |-> Append(w.lots, lot), realized |-> w.realized,
                        invested |-> w.invested + t.qty * t.price, dividends |-> w.dividends]
      BY <2>1 DEF Walk, Walker
    <2> HIDE DEF lot
    <2>4. Append(w.lots, lot) \in Seq(Lot) /\ HeldIn(Append(w.lots, lot)) = HeldIn(w.lots) + t.qty
      BY <1>1, <2>2, HeldAppend, LotCuttable
    <2> QED BY <1>1, <1>2, <2>1, <2>3, <2>4 DEF Walker
  <1> QED BY <1>4, <1>5, <1>6 DEF Trade

-----------------------------------------------------------------------------
\* Rows of the table: finitely many trades, no two created at the same time.
Rows(rows) ==
    /\ IsFiniteSet(rows)
    /\ \A t \in rows : Trade(t)
    /\ \A s, t \in rows : s.created = t.created => s = t

\* ORDER BY transaction_date, created_at returns every row, once, in its place.
LEMMA SortedLists ==
    ASSUME NEW rows, Rows(rows)
    PROVE  /\ Lists(Sorted(rows), Cardinality(rows), rows)
           /\ \A k \in 1 .. Cardinality(rows) : Cardinality(Before(rows, Sorted(rows)[k])) = k - 1
           /\ \A s, t \in rows : s \in Before(rows, t) =>
                Cardinality(Before(rows, s)) < Cardinality(Before(rows, t))
  <1> DEFINE before == [t \in rows |-> Before(rows, t)]
             seq == Sorted(rows)
  <1>1. \A u \in rows : u.date \in Int /\ u.created \in Int
    BY DEF Rows, Trade
  <1>2. \A t \in rows : before[t] = Before(rows, t)
    OBVIOUS
  <1>3. \A t \in rows : before[t] \in SUBSET rows /\ t \notin before[t]
    BY <1>1, <1>2 DEF Before
  <1>4. \A s, t \in rows : s # t => s \in before[t] \/ t \in before[s]
    <2>1. \A s, t \in rows : s # t => s.created # t.created
      BY DEF Rows
    <2> QED BY <1>1, <1>2, <2>1 DEF Before
  <1>5. \A s, t \in rows : s \in before[t] => before[s] \subseteq before[t]
    BY <1>1, <1>2 DEF Before
  <1>6. DOMAIN seq = 1 .. Cardinality(rows)
    BY DEF Sorted
  <1>7. ASSUME NEW k \in 1 .. Cardinality(rows), NEW t \in rows, Cardinality(before[t]) = k - 1
        PROVE  seq[k] \in rows /\ Cardinality(before[seq[k]]) = k - 1
    <2>1. seq[k] = CHOOSE u \in rows : Cardinality(Before(rows, u)) = k - 1
      BY DEF Sorted
    <2> HIDE DEF seq
    <2> QED BY <1>2, <1>7, <2>1
  <1>8. IsFiniteSet(rows)
    BY DEF Rows
  <1> HIDE DEF before, seq
  <1>9. /\ Lists(seq, Cardinality(rows), rows)
        /\ \A k \in 1 .. Cardinality(rows) : Cardinality(before[seq[k]]) = k - 1
        /\ \A s, t \in rows : s \in before[t] => Cardinality(before[s]) < Cardinality(before[t])
    <2>1. Orders(before, rows)
      BY <1>3, <1>4, <1>5, <1>8 DEF Orders
    <2>2. Ranks(seq, before, rows)
      BY <1>6, <1>7 DEF Ranks
    <2> QED BY <2>1, <2>2, RankedLists
  <1>10. \A k \in 1 .. Cardinality(rows) : seq[k] \in rows
    BY <1>9 DEF Lists
  <1> QED BY <1>2, <1>9, <1>10 DEF seq

-----------------------------------------------------------------------------
BoughtOf(rows) == [t \in rows |-> Bought(t)]
SpentOf(rows) == [t \in rows |-> Spent(t)]

\* Summing over all rows what only the acquisitions contribute.
LEMMA AcquiredSums ==
    ASSUME NEW rows, Rows(rows)
    PROVE  /\ SumFunctionOnSet(BoughtOf(rows), rows) = Quantity(Acquisitions(rows))
           /\ SumFunctionOnSet(SpentOf(rows), rows) = Paid(Acquisitions(rows))
           /\ Quantity(Acquisitions(rows)) \in Nat /\ Paid(Acquisitions(rows)) \in Nat
  <1> DEFINE acq == Acquisitions(rows)
             rest == rows \ acq
             qty == [t \in acq |-> t.qty]
             paid == [t \in acq |-> t.qty * t.price]
             b == BoughtOf(rows)
             m == SpentOf(rows)
  <1>1. acq \subseteq rows /\ \A t \in rows : t \in acq <=> t.kind \in Acquired
    BY DEF Acquisitions, Acquired
  <1>2. \A t \in rows : b[t] = Bought(t) /\ m[t] = Spent(t)
    BY DEF BoughtOf, SpentOf
  <1>3. \A t \in acq : qty[t] = t.qty /\ paid[t] = t.qty * t.price
    OBVIOUS
  <1>4. Quantity(acq) = SumFunctionOnSet(qty, acq) /\ Paid(acq) = SumFunctionOnSet(paid, acq)
    BY DEF Quantity, Paid, SumFunction
  <1>5. \A t \in rows : Trade(t)
    BY DEF Rows
  <1> HIDE DEF acq, qty, paid, b, m
  <1>6. IsFiniteSet(acq) /\ IsFiniteSet(rest) /\ acq \cup rest = rows /\ acq \cap rest = {}
    BY <1>1, FS_Subset DEF Rows
  <1>7. \A t \in rows : b[t] \in Nat /\ m[t] \in Nat
    BY <1>2, <1>5, TradeTypes
  <1>8. \A t \in acq : b[t] = qty[t] /\ m[t] = paid[t]
    BY <1>1, <1>2, <1>3 DEF Bought, Spent
  <1>9. \A t \in rest : b[t] = 0 /\ m[t] = 0
    BY <1>1, <1>2 DEF Bought, Spent
  <1>10. SumFunctionOnSet(b, rest) = 0 /\ SumFunctionOnSet(m, rest) = 0
    <2> HIDE DEF rest
    <2> QED BY <1>6, <1>9, SumZero
  <1>11. \A t \in acq : b[t] \in Nat /\ m[t] \in Nat /\ qty[t] \in Nat /\ paid[t] \in Nat
    BY <1>1, <1>7, <1>8
  <1>12. SumFunctionOnSet(b, acq) = Quantity(acq) /\ SumFunctionOnSet(m, acq) = Paid(acq)
    <2>1. \A t \in acq : qty[t] \in Int /\ paid[t] \in Int
      BY <1>11
    <2> QED BY <1>4, <1>6, <1>8, <2>1, SumAgree
  <1>13. Quantity(acq) \in Nat /\ Paid(acq) \in Nat
    BY <1>4, <1>6, <1>11, SumNat
  <1>14. /\ SumFunctionOnSet(b, rows) = SumFunctionOnSet(b, acq) + SumFunctionOnSet(b, rest)
         /\ SumFunctionOnSet(m, rows) = SumFunctionOnSet(m, acq) + SumFunctionOnSet(m, rest)
    <2>1. \A t \in acq \cup rest : b[t] \in Int /\ m[t] \in Int
      BY <1>6, <1>7
    <2> HIDE DEF rest
    <2> QED BY <1>6, <2>1, SumSplit
  <1> HIDE DEF rest
  <1>15. SumFunctionOnSet(b, rows) = Quantity(acq) /\ SumFunctionOnSet(m, rows) = Paid(acq)
    BY <1>10, <1>12, <1>13, <1>14
  <1> QED BY <1>13, <1>15 DEF acq, b, m

NoWalk == [lots |-> << >>, realized |-> 0, invested |-> 0, dividends |-> 0]

(***************************************************************************)
(* The walk over a history counts as invested what the acquisitions cost,  *)
(* and ends with no more shares than they brought.                         *)
(***************************************************************************)
LEMMA WalkTotals ==
    ASSUME NEW rows, Rows(rows), NEW seq, NEW n, Lists(seq, n, rows)
    PROVE  /\ WalkAll(NoWalk, seq) \in Walker
           /\ WalkAll(NoWalk, seq).invested = Paid(Acquisitions(rows))
           /\ HeldIn(WalkAll(NoWalk, seq).lots) <= Quantity(Acquisitions(rows))
  <1> DEFINE b == [k \in 1 .. n |-> BoughtOf(rows)[seq[k]]]
             m == [k \in 1 .. n |-> SpentOf(rows)[seq[k]]]
             got == [k \in 0 .. n |-> SumFunctionOnSet(b, 1 .. k)]
             gave == [k \in 0 .. n |-> SumFunctionOnSet(m, 1 .. k)]
  <1>1. n \in Nat /\ DOMAIN seq = 1 .. n
    BY DEF Lists
  <1>2. ASSUME NEW k \in 1 .. n
        PROVE  /\ seq[k] \in rows /\ Trade(seq[k]) /\ b[k] = Bought(seq[k]) /\ m[k] = Spent(seq[k])
               /\ b[k] \in Nat /\ m[k] \in Nat
    <2>1. seq[k] \in rows
      BY DEF Lists
    <2>2. Trade(seq[k])
      BY <2>1 DEF Rows
    <2>3. b[k] = Bought(seq[k]) /\ m[k] = Spent(seq[k])
      BY <2>1 DEF BoughtOf, SpentOf
    <2> QED BY <2>1, <2>2, <2>3, TradeTypes
  <1>3. got[n] = Quantity(Acquisitions(rows)) /\ gave[n] = Paid(Acquisitions(rows))
    <2>1. n \in 0 .. n
      BY <1>1
    <2>2. \A t \in rows : BoughtOf(rows)[t] \in Int /\ SpentOf(rows)[t] \in Int
      BY TradeTypes DEF Rows, BoughtOf, SpentOf
    <2>3. /\ SumFunctionOnSet(b, 1 .. n) = SumFunctionOnSet(BoughtOf(rows), rows)
          /\ SumFunctionOnSet(m, 1 .. n) = SumFunctionOnSet(SpentOf(rows), rows)
      BY <2>2, SumListed
    <2> HIDE DEF b, m
    <2> QED BY <2>1, <2>3, AcquiredSums
  <1> HIDE DEF b, m
  <1>4. got[0] = 0 /\ gave[0] = 0
    <2>1. 0 \in 0 .. n /\ 1 .. 0 = {}
      BY <1>1
    <2> QED BY <2>1, SumEmpty
  <1>5. ASSUME NEW k \in Nat, k + 1 <= n
        PROVE  /\ got[k + 1] = b[k + 1] + got[k] /\ gave[k + 1] = m[k + 1] + gave[k]
               /\ got[k] \in Int /\ gave[k] \in Int /\ b[k + 1] \in Nat /\ m[k + 1] \in Nat
    <2>1. k \in 0 .. n /\ k + 1 \in 0 .. n /\ \A j \in 1 .. k + 1 : j \in 1 .. n
      BY <1>1, <1>5
    <2>2. k + 1 \in 1 .. n /\ \A j \in 1 .. k + 1 : b[j] \in Int /\ m[j] \in Int
      BY <1>1, <1>2, <1>5, <2>1
    <2>3. /\ SumFunctionOnSet(b, 1 .. k + 1) = b[k + 1] + SumFunctionOnSet(b, 1 .. k)
          /\ SumFunctionOnSet(m, 1 .. k + 1) = m[k + 1] + SumFunctionOnSet(m, 1 .. k)
          /\ SumFunctionOnSet(b, 1 .. k) \in Int /\ SumFunctionOnSet(m, 1 .. k) \in Int
      BY <2>2, SumUpTo
    <2> QED BY <1>2, <2>1, <2>2, <2>3
  <1> HIDE DEF got, gave
  <1>6. PICK run : Walks(run, NoWalk, seq, n)
    BY <1>1, WalkRun
  <1> DEFINE Ok(k) == run[k] \in Walker /\ HeldIn(run[k].lots) <= got[k] /\ run[k].invested = gave[k]
             P == {k \in Nat : k <= n => Ok(k)}
  <1>7. 0 \in P
    <2>1. run[0] = NoWalk
      BY <1>6 DEF Walks
    <2>2. NoWalk \in Walker /\ HeldIn(NoWalk.lots) = 0 /\ NoWalk.invested = 0
      BY HeldEmpty DEF NoWalk, Walker
    <2> QED BY <1>4, <2>1, <2>2
  <1>8. ASSUME NEW k \in Nat, k \in P PROVE k + 1 \in P
    <2> SUFFICES ASSUME k + 1 <= n PROVE Ok(k + 1)
      OBVIOUS
    <2>1. k + 1 \in 1 .. n /\ (k + 1) - 1 = k /\ k <= n
      BY <1>1
    <2>2. Ok(k)
      BY <1>8, <2>1
    <2>3. run[k + 1] = Walk(run[k], seq[k + 1])
      BY <1>6, <2>1 DEF Walks
    <2>4. /\ Trade(seq[k + 1]) /\ b[k + 1] = Bought(seq[k + 1]) /\ m[k + 1] = Spent(seq[k + 1])
      BY <1>2, <2>1
    <2>5. /\ run[k + 1] \in Walker /\ run[k + 1].invested = run[k].invested + m[k + 1]
          /\ HeldIn(run[k + 1].lots) =
                IF seq[k + 1].kind # "sell" THEN HeldIn(run[k].lots) + b[k + 1]
                ELSE IF seq[k + 1].qty < HeldIn(run[k].lots) THEN HeldIn(run[k].lots) - seq[k + 1].qty ELSE 0
      BY <2>2, <2>3, <2>4, WalkRow
    <2>6. HeldIn(run[k].lots) \in Nat
      BY <2>2, HeldNat, LotCuttable DEF Walker
    <2>7. seq[k + 1].qty \in Nat
      BY <2>4 DEF Trade
    <2>8. /\ got[k + 1] = b[k + 1] + got[k] /\ gave[k + 1] = m[k + 1] + gave[k]
          /\ got[k] \in Int /\ gave[k] \in Int /\ b[k + 1] \in Nat /\ m[k + 1] \in Nat
      BY <1>5
    <2>9. HeldIn(run[k + 1].lots) <= HeldIn(run[k].lots) + b[k + 1] /\ HeldIn(run[k + 1].lots) \in Nat
      BY <2>5, <2>6, <2>7, <2>8
    <2>10. HeldIn(run[k + 1].lots) <= got[k + 1]
      BY <2>2, <2>6, <2>8, <2>9
    <2>11. run[k + 1].invested = gave[k + 1]
      BY <2>2, <2>5, <2>8
    <2> QED BY <2>5, <2>10, <2>11
  <1>9. Ok(n)
    <2> HIDE DEF Ok
    <2>1. \A k \in Nat : k \in P
      <3> HIDE DEF P
      <3> QED BY <1>7, <1>8, InductionSet
    <2> QED BY <1>1, <2>1
  <1>10. run[n] = WalkAll(NoWalk, seq)
    BY <1>6 DEF Walks
  <1> QED BY <1>3, <1>9, <1>10

-----------------------------------------------------------------------------
\* A snapshot row that shows no more than the history rows holds.
Backed(h, rows) ==
    /\ h.quantity \in Nat /\ h.invested \in Nat
    /\ h.quantity <= Quantity(Acquisitions(rows)) /\ h.invested <= HalfEven(Paid(Acquisitions(rows)), Paisa)

LEMMA NothingIsBacked ==
    ASSUME NEW rows, Rows(rows)
    PROVE  Backed(NoHolding, rows)
  <1>1. Quantity(Acquisitions(rows)) \in Nat /\ Paid(Acquisitions(rows)) \in Nat
    BY AcquiredSums
  <1>2. HalfEven(Paid(Acquisitions(rows)), Paisa) \in Nat
    BY <1>1, HalfEvenClose, PaisaAssumption
  <1> QED BY <1>1, <1>2 DEF Backed, NoHolding

LEMMA SnapshotIsBacked ==
    ASSUME NEW rows, Rows(rows)
    PROVE  Backed(Snapshot(rows), rows)
  <1> DEFINE w == WalkAll(NoWalk, Sorted(rows))
             qty == HeldIn(w.lots)
             cost == SumFunction([k \in DOMAIN w.lots |-> w.lots[k].qty * w.lots[k].price])
  <1>1. Snapshot(rows) = IF qty = 0 /\ w.dividends = 0 /\ w.realized = 0 THEN NoHolding
                         ELSE [quantity |-> qty, avg_cost |-> IF qty > 0 THEN HalfEven(cost, qty) ELSE 0,
                               invested |-> HalfEven(w.invested, Paisa),
                               realized |-> HalfEven(w.realized, Paisa),
                               dividends |-> HalfEven(w.dividends, Paisa), present |-> TRUE]
    BY DEF Snapshot, WalkAll, NoWalk, HeldIn, QtyOf
  <1>2. w \in Walker /\ w.invested = Paid(Acquisitions(rows)) /\ qty <= Quantity(Acquisitions(rows))
    BY SortedLists, WalkTotals
  <1> HIDE DEF w, cost
  <1>3. qty \in Nat /\ w.invested \in Nat
    BY <1>2, HeldNat, LotCuttable DEF Walker
  <1> HIDE DEF qty
  <1>4. HalfEven(w.invested, Paisa) \in Nat
    BY <1>3, HalfEvenClose, PaisaAssumption
  <1>5. CASE Snapshot(rows) = NoHolding
    BY <1>5, NothingIsBacked
  <1>6. CASE Snapshot(rows) # NoHolding
    <2>1. Snapshot(rows).quantity = qty /\ Snapshot(rows).invested = HalfEven(w.invested, Paisa)
      BY <1>1, <1>6
    <2> QED BY <1>2, <1>3, <1>4, <2>1 DEF Backed
  <1> QED BY <1>5, <1>6

\* What a history backs, a longer one does.
LEMMA BackedStays ==
    ASSUME NEW rows, NEW more, Rows(more), rows \subseteq more, NEW h, Backed(h, rows)
    PROVE  Backed(h, more)
  <1> DEFINE b == BoughtOf(more)
             m == SpentOf(more)
  <1>1. Rows(rows)
    BY FS_Subset DEF Rows
  <1>2. \A t \in more : b[t] \in Nat /\ m[t] \in Nat
    BY TradeTypes DEF Rows, BoughtOf, SpentOf
  <1>3. \A t \in rows : /\ BoughtOf(rows)[t] = b[t] /\ SpentOf(rows)[t] = m[t]
                         /\ b[t] \in Int /\ m[t] \in Int
    BY <1>2 DEF BoughtOf, SpentOf
  <1>4. IsFiniteSet(rows) /\ IsFiniteSet(more) /\ rows \in SUBSET more
    BY <1>1 DEF Rows
  <1> HIDE DEF b, m
  <1>5. /\ SumFunctionOnSet(BoughtOf(rows), rows) = SumFunctionOnSet(b, rows)
        /\ SumFunctionOnSet(SpentOf(rows), rows) = SumFunctionOnSet(m, rows)
    BY <1>3, <1>4, SumAgree
  <1>6. /\ SumFunctionOnSet(b, rows) <= SumFunctionOnSet(b, more)
        /\ SumFunctionOnSet(m, rows) <= SumFunctionOnSet(m, more)
    BY <1>2, <1>4, SumGrows
  <1>7. /\ Quantity(Acquisitions(rows)) <= Quantity(Acquisitions(more))
        /\ Paid(Acquisitions(rows)) <= Paid(Acquisitions(more))
    BY <1>1, <1>5, <1>6, AcquiredSums DEF b, m
  <1>8. /\ Quantity(Acquisitions(rows)) \in Nat /\ Quantity(Acquisitions(more)) \in Nat
        /\ Paid(Acquisitions(rows)) \in Nat /\ Paid(Acquisitions(more)) \in Nat
    BY <1>1, AcquiredSums
  <1> DEFINE x == HalfEven(Paid(Acquisitions(rows)), Paisa)
             y == HalfEven(Paid(Acquisitions(more)), Paisa)
  <1>9. x \in Nat /\ y \in Nat /\ x <= y
    <2>1. x \in Nat /\ y \in Nat
      BY <1>8, HalfEvenClose, PaisaAssumption
    <2>2. x <= y
      BY <1>7, <1>8, HalfEvenGrows, PaisaAssumption
    <2> QED BY <2>1, <2>2
  <1>10. h.invested <= x /\ h.invested \in Nat
    BY DEF Backed
  <1> HIDE DEF x, y
  <1>11. h.invested <= y
    BY <1>9, <1>10
  <1> QED BY <1>7, <1>8, <1>11 DEF Backed, y

(***************************************************************************)
(* Every trade, committed or under way, was created at a time of its own,  *)
(* and every snapshot, the committed one or one that a handler has         *)
(* computed, is backed by the committed trades and the handler's own.      *)
(***************************************************************************)
Busy(r) == pc[r] # "idle"

RowsOK ==
    /\ clock \in Nat
    /\ Rows(transactions) /\ \A t \in transactions : t.created < clock
    /\ \A r \in Requests : Busy(r) =>
         /\ Trade(row[r]) /\ row[r].created < clock
         /\ \A t \in transactions : t.created # row[r].created
         /\ \A q \in Requests : Busy(q) /\ row[q].created = row[r].created => q = r

SnapshotsOK ==
    /\ Backed(holdings, transactions)
    /\ \A r \in Requests : pc[r] \in {"select_snapshot", "flush", "commit"} =>
         Backed(new[r], transactions \cup {row[r]})

BackInv == HealInv /\ RowsOK /\ SnapshotsOK

LEMMA OneMoreRow ==
    ASSUME RowsOK, NEW r \in Requests, Busy(r)
    PROVE  Rows(transactions \cup {row[r]})
  BY FS_AddElement DEF RowsOK, Rows

LEMMA InitBack == Init => RowsOK /\ SnapshotsOK
  <1> SUFFICES ASSUME Init PROVE RowsOK /\ SnapshotsOK
    OBVIOUS
  <1>1. RowsOK
    BY FS_EmptySet DEF Init, RowsOK, Rows, Busy
  <1>2. SnapshotsOK
    BY <1>1, NothingIsBacked DEF RowsOK, Init, SnapshotsOK
  <1> QED BY <1>1, <1>2

LEMMA EndBack ==
    ASSUME BackInv, NEW r \in Requests, End(r), UNCHANGED <<tables, clock>>
    PROVE  RowsOK' /\ SnapshotsOK'
  <1>1. \A q \in Requests : Busy(q)' => Busy(q) /\ row'[q] = row[q] /\ new'[q] = new[q] /\ pc'[q] = pc[q]
    BY DEF BackInv, HealInv, Domains, End, Busy
  <1>2. UNCHANGED <<transactions, holdings, clock>>
    BY DEF tables
  <1>3. RowsOK'
    BY <1>1, <1>2 DEF BackInv, RowsOK
  <1>4. SnapshotsOK'
    BY <1>1, <1>2 DEF BackInv, SnapshotsOK, Busy
  <1> QED BY <1>3, <1>4

LEMMA SubmitBack ==
    ASSUME BackInv, NEW r \in Requests, NEW id \in 1 .. MaxTrades, NEW kind \in Kinds, NEW day \in Days,
           NEW qty \in Quantities, NEW price \in Prices, Submit(r, id, kind, day, qty, price)
    PROVE  RowsOK' /\ SnapshotsOK'
  <1>1. /\ UNCHANGED <<transactions, holdings, new>> /\ clock' = clock + 1 /\ clock \in Nat
        /\ pc[r] = "idle" /\ pc'[r] \in {"select_buys", "insert"}
        /\ \A q \in Requests : q # r => pc'[q] = pc[q] /\ row'[q] = row[q]
    BY DEF Submit, tables, BackInv, RowsOK, HealInv, Domains
  <1>2. row'[r].created = clock /\ Trade(row'[r])
    BY TradeAssumption DEF Submit, Trade, RowColumns, Acquired, BackInv, RowsOK, HealInv, Domains
  <1>3. \A t \in transactions : t.created \in Nat /\ t.created < clock
    BY DEF BackInv, RowsOK, Rows, Trade
  <1>4. \A q \in Requests : Busy(q) => row[q].created \in Nat /\ row[q].created < clock
    BY DEF BackInv, RowsOK, Trade
  <1>5. RowsOK'
    <2>1. \A t \in transactions' : t.created < clock'
      BY <1>1, <1>3
    <2>2. ASSUME NEW q \in Requests, Busy(q)'
          PROVE  /\ Trade(row'[q]) /\ row'[q].created < clock'
                 /\ \A t \in transactions : t.created # row'[q].created
                 /\ \A p \in Requests : Busy(p)' /\ row'[p].created = row'[q].created => p = q
      <3>1. CASE q = r
        BY <1>1, <1>2, <1>3, <1>4, <3>1 DEF Busy
      <3>2. CASE q # r
        BY <1>1, <1>2, <1>4, <2>2, <3>2 DEF Busy, BackInv, RowsOK
      <3> QED BY <3>1, <3>2
    <2> QED BY <1>1, <2>1, <2>2 DEF BackInv, RowsOK
  <1>6. SnapshotsOK'
    BY <1>1 DEF BackInv, SnapshotsOK
  <1> QED BY <1>5, <1>6

\* A handler's steps up to its commit.
LEMMA StepBack ==
    ASSUME BackInv, NEW r \in Requests, Step(r), ~Commit(r)
    PROVE  RowsOK' /\ SnapshotsOK'
  <1>1. UNCHANGED <<tables, clock>>
    BY DEF Step, SelectBuys, SelectSells, InsertAndWalk, SelectSnapshot, Flush
  <1>2. CASE End(r)
    BY <1>1, <1>2, EndBack
  <1>3. CASE ~End(r)
    <2>1. /\ Busy(r) /\ \A q \in Requests : q # r => pc'[q] = pc[q] /\ row'[q] = row[q] /\ new'[q] = new[q]
      BY <1>3 DEF Step, SelectBuys, SelectSells, InsertAndWalk, SelectSnapshot, Flush, BackInv, HealInv, Domains, Busy
    <2>2. /\ row'[r].kind = row[r].kind /\ row'[r].date = row[r].date /\ row'[r].qty = row[r].qty
          /\ row'[r].price = row[r].price /\ row'[r].created = row[r].created
          /\ row'[r].id = row[r].id /\ row'[r] = [c \in RowColumns |-> row'[r][c]]
      <3>1. row[r] = [c \in RowColumns |-> row[r][c]] /\ DOMAIN row = Requests
        BY <2>1 DEF BackInv, RowsOK, Trade, HealInv, Domains
      <3>2. row' = row \/ SelectSells(r)
        BY <1>3 DEF Step, SelectBuys, InsertAndWalk, SelectSnapshot, Flush
      <3>3. CASE row' = row
        BY <3>1, <3>3
      <3>4. CASE SelectSells(r)
        BY <1>3, <3>1, <3>4, SellFilled
      <3> QED BY <3>2, <3>3, <3>4
    <2>3. RowsOK'
      <3>1. \A q \in Requests : Busy(q)' => Busy(q) /\ row'[q].created = row[q].created /\ Trade(row'[q])
        <4>1. Trade(row[r]) /\ \A q \in Requests : Busy(q) => Trade(row[q])
          BY <2>1 DEF BackInv, RowsOK
        <4>2. Trade(row'[r])
          <5> DEFINE t == row[r]
                     u == row'[r]
          <5>1. /\ Trade(t) /\ u = [c \in RowColumns |-> u[c]] /\ u.id = t.id /\ u.kind = t.kind
                /\ u.date = t.date /\ u.qty = t.qty /\ u.price = t.price /\ u.created = t.created
            BY <2>2, <4>1
          <5> HIDE DEF t, u
          <5>2. Trade(u)
            BY <5>1 DEF Trade
          <5> QED BY <5>2 DEF u
        <4> QED BY <2>1, <2>2, <4>1, <4>2 DEF Busy
      <3> QED BY <1>1, <3>1 DEF BackInv, RowsOK, tables
    <2>4. CASE InsertAndWalk(r)
      <3>1. new'[r] = Snapshot(transactions \cup {row[r]}) /\ row' = row
        BY <2>4 DEF InsertAndWalk, BackInv, HealInv, Domains
      <3>2. Backed(new'[r], transactions \cup {row[r]})
        BY <2>1, <3>1, OneMoreRow, SnapshotIsBacked DEF BackInv
      <3>3. SnapshotsOK'
        BY <1>1, <2>1, <3>1, <3>2 DEF BackInv, SnapshotsOK, tables
      <3> QED BY <2>3, <3>3
    <2>5. CASE SelectBuys(r) \/ SelectSells(r)
      <3>1. pc'[r] \notin {"select_snapshot", "flush", "commit"}
        BY <1>3, <2>5 DEF SelectBuys, SelectSells, BackInv, HealInv, Domains
      <3>2. SnapshotsOK'
        BY <1>1, <2>1, <3>1 DEF BackInv, SnapshotsOK, tables
      <3> QED BY <2>3, <3>2
    <2>6. CASE SelectSnapshot(r) \/ Flush(r)
      <3>1. pc[r] \in {"select_snapshot", "flush"} /\ UNCHANGED <<row, new>>
        BY <1>3, <2>6 DEF SelectSnapshot, Flush
      <3>2. SnapshotsOK'
        BY <1>1, <2>1, <3>1 DEF BackInv, SnapshotsOK, tables
      <3> QED BY <2>3, <3>2
    <2> QED BY <2>4, <2>5, <2>6 DEF Step
  <1> QED BY <1>2, <1>3

\* The commit: each column comes from the new snapshot or stays.
LEMMA CommitBack ==
    ASSUME BackInv, NEW r \in Requests, Commit(r)
    PROVE  RowsOK' /\ SnapshotsOK'
  <1>1. /\ Busy(r) /\ pc[r] = "commit" /\ transactions' = transactions \cup {row[r]}
        /\ holdings' = Written(r) /\ clock' = clock
    BY DEF Commit, Busy
  <1>2. \A q \in Requests : Busy(q)' => q # r /\ Busy(q) /\ row'[q] = row[q] /\ new'[q] = new[q] /\ pc'[q] = pc[q]
    BY DEF Commit, BackInv, HealInv, Domains, End, Busy
  <1>3. Rows(transactions')
    BY <1>1, OneMoreRow DEF BackInv
  <1>4. RowsOK'
    <2>1. \A t \in transactions' : t.created < clock'
      BY <1>1 DEF BackInv, RowsOK
    <2>2. ASSUME NEW q \in Requests, Busy(q)'
          PROVE  /\ Trade(row'[q]) /\ row'[q].created < clock'
                 /\ \A t \in transactions' : t.created # row'[q].created
                 /\ \A p \in Requests : Busy(p)' /\ row'[p].created = row'[q].created => p = q
      BY <1>1, <1>2, <2>2 DEF BackInv, RowsOK
    <2> QED BY <1>1, <1>3, <2>1, <2>2 DEF BackInv, RowsOK
  <1>5. Backed(holdings, transactions') /\ Backed(new[r], transactions')
    <2>1. Backed(holdings, transactions) /\ Backed(new[r], transactions')
      BY <1>1 DEF BackInv, SnapshotsOK
    <2> QED BY <1>1, <1>3, <2>1, BackedStays
  <1>6. /\ Written(r).quantity \in {new[r].quantity, holdings.quantity}
        /\ Written(r).invested \in {new[r].invested, holdings.invested}
    <2>1. DOMAIN holdings = Columns
      BY DEF BackInv, HealInv, Domains, IsHolding
    <2> QED BY <2>1 DEF Written, Columns
  <1>7. Backed(holdings', transactions')
    BY <1>1, <1>5, <1>6 DEF Backed
  <1>8. ASSUME NEW q \in Requests, pc'[q] \in {"select_snapshot", "flush", "commit"}
        PROVE  Backed(new'[q], transactions' \cup {row'[q]})
    <2>0. Busy(q)'
      BY <1>8 DEF Busy
    <2>1. Busy(q)' /\ Busy(q) /\ row'[q] = row[q] /\ new'[q] = new[q] /\ pc'[q] = pc[q]
      BY <1>2, <2>0
    <2>2. Backed(new[q], transactions \cup {row[q]})
      BY <1>8, <2>1 DEF BackInv, SnapshotsOK
    <2>3. Rows(transactions' \cup {row'[q]})
      BY <1>4, <2>1, FS_AddElement DEF RowsOK, Rows
    <2>4. transactions \cup {row[q]} \subseteq transactions' \cup {row'[q]}
      BY <1>1, <2>1
    <2> QED BY <2>1, <2>2, <2>3, <2>4, BackedStays
  <1>9. SnapshotsOK'
    BY <1>7, <1>8 DEF SnapshotsOK
  <1> QED BY <1>4, <1>9

LEMMA NextBack == BackInv /\ [Next]_vars => BackInv'
  <1> SUFFICES ASSUME BackInv, [Next]_vars PROVE BackInv'
    OBVIOUS
  <1>1. HealInv'
    BY NextHeal DEF BackInv
  <1>2. CASE UNCHANGED vars
    <2>1. RowsOK' /\ SnapshotsOK'
      BY <1>2 DEF vars, BackInv, RowsOK, SnapshotsOK, Busy
    <2> QED BY <1>1, <2>1 DEF BackInv
  <1>3. ASSUME NEW r \in Requests, Crash(r) PROVE RowsOK' /\ SnapshotsOK'
    BY <1>3, EndBack DEF Crash
  <1>4. ASSUME NEW r \in Requests, Step(r) PROVE RowsOK' /\ SnapshotsOK'
    BY <1>4, StepBack, CommitBack
  <1> QED BY <1>1, <1>2, <1>3, <1>4, SubmitBack DEF Next, BackInv

LEMMA BackInvariance == Spec => []BackInv
  <1>1. Init => BackInv
    BY InitBack, InitHeal DEF BackInv
  <1> QED BY <1>1, NextBack, PTL DEF Spec

(***************************************************************************)
(* However trades overlap, fail and crash, the committed holdings_snapshot *)
(* row shows no share and no rupee invested that no committed trade        *)
(* accounts for.                                                           *)
(***************************************************************************)
THEOREM PositionsAreBacked == Spec => []SnapshotBacked
  <1>1. BackInv => SnapshotBacked
    BY DEF BackInv, SnapshotsOK, Backed, SnapshotBacked
  <1> QED BY <1>1, BackInvariance, PTL

-----------------------------------------------------------------------------
\* What is left of a row.
Parts(rows) == {[t EXCEPT !.qty = j] : t \in rows, j \in Nat}

LEMMA PartFacts ==
    ASSUME NEW rows, Rows(rows)
    PROVE  Cuttable(Parts(rows)) /\ Datable(Parts(rows)) /\ rows \subseteq Parts(rows)
  <1>1. ASSUME NEW t \in rows
        PROVE  /\ t = [c \in RowColumns |-> t[c]] /\ t.qty \in Nat /\ t.date \in Int /\ t.id \in Int
               /\ \A j \in Nat : LET x == [t EXCEPT !.qty = j]
                                IN  /\ x.qty = j /\ x.date = t.date /\ x.id = t.id
                                    /\ \A i \in Nat : [x EXCEPT !.qty = i] = [t EXCEPT !.qty = i]
               /\ t = [t EXCEPT !.qty = t.qty]
    <2>1. t = [c \in RowColumns |-> t[c]] /\ t.qty \in Nat /\ t.date \in Int /\ t.id \in Int
      BY DEF Rows, Trade
    <2>2. t = [t EXCEPT !.qty = t.qty]
      BY <2>1 DEF RowColumns
    <2>3. ASSUME NEW j \in Nat
          PROVE  LET x == [t EXCEPT !.qty = j]
                 IN  /\ x.qty = j /\ x.date = t.date /\ x.id = t.id
                     /\ \A i \in Nat : [x EXCEPT !.qty = i] = [t EXCEPT !.qty = i]
      BY <2>1 DEF RowColumns
    <2> QED BY <2>1, <2>2, <2>3
  <1>2. ASSUME NEW x \in Parts(rows)
        PROVE  /\ x.qty \in Nat /\ x.date \in Int /\ x.id \in Int
               /\ \A i \in Nat : [x EXCEPT !.qty = i] \in Parts(rows) /\ [x EXCEPT !.qty = i].qty = i
    <2>1. PICK t \in rows, j \in Nat : x = [t EXCEPT !.qty = j]
      BY DEF Parts
    <2>2. x.qty = j /\ x.date = t.date /\ x.id = t.id
      BY <1>1, <2>1
    <2>3. ASSUME NEW i \in Nat PROVE [x EXCEPT !.qty = i] = [t EXCEPT !.qty = i] /\ [t EXCEPT !.qty = i].qty = i
      BY <1>1, <2>1
    <2>4. \A i \in Nat : [t EXCEPT !.qty = i] \in Parts(rows)
      BY DEF Parts
    <2>5. t.date \in Int /\ t.id \in Int
      BY <1>1
    <2> QED BY <2>2, <2>3, <2>4, <2>5
  <1>3. rows \subseteq Parts(rows)
    <2> SUFFICES ASSUME NEW t \in rows PROVE t \in Parts(rows)
      OBVIOUS
    <2>1. t.qty \in Nat /\ t = [t EXCEPT !.qty = t.qty]
      BY <1>1
    <2>2. \E u \in rows, j \in Nat : t = [u EXCEPT !.qty = j]
      BY <2>1, Zenon
    <2> QED BY <2>2 DEF Parts
  <1> QED BY <1>2, <1>3 DEF Cuttable, Datable

Sold(t) == IF t.kind = "sell" THEN t.qty ELSE 0
SoldOf(rows) == [t \in rows |-> Sold(t)]

LEMMA SoldType ==
    ASSUME NEW t, Trade(t)
    PROVE  Sold(t) \in Nat
  BY DEF Trade, Sold

LEMMA SoldSums ==
    ASSUME NEW rows, Rows(rows)
    PROVE  /\ SumFunctionOnSet(SoldOf(rows), rows) = Quantity(Sells(rows))
           /\ Quantity(Sells(rows)) \in Nat
  <1> DEFINE sells == Sells(rows)
             rest == rows \ sells
             qty == [t \in sells |-> t.qty]
             f == SoldOf(rows)
  <1>1. sells \subseteq rows /\ \A t \in rows : t \in sells <=> t.kind = "sell"
    BY DEF Sells
  <1>2. \A t \in rows : f[t] = Sold(t) /\ f[t] \in Nat
    BY SoldType DEF SoldOf, Rows
  <1>3. \A t \in sells : qty[t] = t.qty
    OBVIOUS
  <1>4. Quantity(sells) = SumFunctionOnSet(qty, sells)
    BY DEF Quantity, SumFunction
  <1> HIDE DEF sells, qty, f
  <1>5. IsFiniteSet(sells) /\ IsFiniteSet(rest) /\ sells \cup rest = rows /\ sells \cap rest = {}
    BY <1>1, FS_Subset DEF Rows
  <1>6. \A t \in sells : f[t] = qty[t] /\ qty[t] \in Nat
    BY <1>1, <1>2, <1>3 DEF Sold
  <1>7. \A t \in rest : f[t] = 0
    BY <1>1, <1>2 DEF Sold
  <1>8. SumFunctionOnSet(f, rest) = 0
    <2> HIDE DEF rest
    <2> QED BY <1>5, <1>7, SumZero
  <1>9. SumFunctionOnSet(f, sells) = Quantity(sells) /\ Quantity(sells) \in Nat
    <2>1. \A t \in sells : qty[t] \in Int /\ f[t] = qty[t]
      BY <1>6
    <2> QED BY <1>4, <1>5, <1>6, <2>1, SumAgree, SumNat
  <1>10. SumFunctionOnSet(f, rows) = SumFunctionOnSet(f, sells) + SumFunctionOnSet(f, rest)
    <2>1. \A t \in sells \cup rest : f[t] \in Int
      BY <1>2, <1>5
    <2> HIDE DEF rest
    <2> QED BY <1>5, <2>1, SumSplit
  <1> HIDE DEF rest
  <1>11. SumFunctionOnSet(f, rows) = Quantity(sells)
    BY <1>8, <1>9, <1>10
  <1> QED BY <1>9, <1>11 DEF sells, f

\* What one more row adds.
LEMMA OneMoreTrade ==
    ASSUME NEW rows, NEW t, t \notin rows, Rows(rows \cup {t})
    PROVE  /\ Quantity(Sells(rows \cup {t})) = Sold(t) + Quantity(Sells(rows))
           /\ Quantity(Acquisitions(rows \cup {t})) = Bought(t) + Quantity(Acquisitions(rows))
  <1> DEFINE all == rows \cup {t}
             b == BoughtOf(all)
             s == SoldOf(all)
  <1>1. Rows(rows) /\ IsFiniteSet(rows) /\ Trade(t)
    BY FS_Subset DEF Rows
  <1>2. \A u \in all : b[u] = Bought(u) /\ s[u] = Sold(u) /\ b[u] \in Int /\ s[u] \in Int
    BY TradeTypes, SoldType DEF Rows, BoughtOf, SoldOf
  <1>3. \A u \in rows : BoughtOf(rows)[u] = b[u] /\ SoldOf(rows)[u] = s[u]
    BY <1>2 DEF BoughtOf, SoldOf
  <1>4. SumFunctionOnSet(b, all) = Quantity(Acquisitions(all)) /\ SumFunctionOnSet(s, all) = Quantity(Sells(all))
    BY AcquiredSums, SoldSums
  <1>5. /\ SumFunctionOnSet(BoughtOf(rows), rows) = Quantity(Acquisitions(rows))
        /\ SumFunctionOnSet(SoldOf(rows), rows) = Quantity(Sells(rows))
    BY <1>1, AcquiredSums, SoldSums
  <1> HIDE DEF b, s
  <1>6. /\ SumFunctionOnSet(BoughtOf(rows), rows) = SumFunctionOnSet(b, rows)
        /\ SumFunctionOnSet(SoldOf(rows), rows) = SumFunctionOnSet(s, rows)
    BY <1>1, <1>2, <1>3, SumAgree
  <1>7. /\ SumFunctionOnSet(b, rows \cup {t}) = b[t] + SumFunctionOnSet(b, rows)
        /\ SumFunctionOnSet(s, rows \cup {t}) = s[t] + SumFunctionOnSet(s, rows)
    BY <1>1, <1>2, SumAdd
  <1> QED BY <1>2, <1>4, <1>5, <1>6, <1>7

\* The shares of a list of rows.
LEMMA ListedHeld ==
    ASSUME NEW rows, Rows(rows)
    PROVE  Sorted(rows) \in Seq(Parts(rows)) /\ HeldIn(Sorted(rows)) = Quantity(rows)
  <1> DEFINE seq == Sorted(rows)
             n == Cardinality(rows)
             f == [t \in rows |-> t.qty]
  <1>1. Lists(seq, n, rows)
    BY SortedLists
  <1>2. \A t \in rows : f[t] = t.qty /\ f[t] \in Int
    BY DEF Rows, Trade
  <1>3. Quantity(rows) = SumFunctionOnSet(f, rows)
    BY DEF Quantity, SumFunction
  <1> HIDE DEF seq, n, f
  <1>4. n \in Nat /\ DOMAIN seq = 1 .. n /\ \A k \in 1 .. n : seq[k] \in rows
    BY <1>1 DEF Lists
  <1>5. seq = [k \in 1 .. n |-> seq[k]]
    <2>1. seq = [k \in DOMAIN seq |-> seq[k]]
      BY DEF seq, Sorted
    <2> QED BY <1>4, <2>1
  <1>6. seq \in Seq(Parts(rows)) /\ Len(seq) = n
    <2>1. \A k \in 1 .. n : seq[k] \in Parts(rows)
      BY <1>4, PartFacts
    <2> QED BY <1>4, <1>5, <2>1
  <1>7. HeldIn(seq) = SumFunctionOnSet(QtyOf(seq), 1 .. n)
    BY <1>6, PartFacts, HeldNat
  <1>8. QtyOf(seq) = [k \in 1 .. n |-> f[seq[k]]]
    BY <1>2, <1>4 DEF QtyOf
  <1>9. SumFunctionOnSet([k \in 1 .. n |-> f[seq[k]]], 1 .. n) = SumFunctionOnSet(f, rows)
    BY <1>1, <1>2, SumListed
  <1> QED BY <1>3, <1>6, <1>7, <1>8, <1>9 DEF seq

Covered(rows) == Quantity(Sells(rows)) <= Quantity(Acquisitions(rows))

(***************************************************************************)
(* A sell matched against the whole committed history fits into it.        *)
(***************************************************************************)
LEMMA MatchedFits ==
    ASSUME NEW rows, Rows(rows), Covered(rows), NEW t, t.qty \in Nat,
           MatchSell(t, Acquisitions(rows), Sells(rows)).error = "none"
    PROVE  Quantity(Sells(rows)) + t.qty <= Quantity(Acquisitions(rows))
  <1> DEFINE acq == Acquisitions(rows)
             sold == Quantity(Sells(rows))
             lots == OpenLots(Sorted(acq), sold)
             S == Parts(acq)
  <1>1. Rows(acq)
    BY FS_Subset DEF Rows, Acquisitions
  <1>2. sold \in Nat /\ Quantity(acq) \in Nat /\ sold <= Quantity(acq)
    BY SoldSums, AcquiredSums DEF Covered
  <1>3. match_fifo(lots, t.qty, t.price, t.date, Filer, SeedBrackets).error = "none"
    BY DEF MatchSell
  <1> HIDE DEF acq, sold
  <1>4. Cuttable(S) /\ Datable(S) /\ Sorted(acq) \in Seq(S) /\ HeldIn(Sorted(acq)) = Quantity(acq)
    BY <1>1, PartFacts, ListedHeld
  <1>5. lots \in Seq(S) /\ HeldIn(lots) = Quantity(acq) - sold
    <2> HIDE DEF S
    <2>1. lots \in Seq(S) /\ HeldIn(lots) = IF sold < Quantity(acq) THEN Quantity(acq) - sold ELSE 0
      BY <1>2, <1>4, OpenLotsHeld
    <2> QED BY <1>2, <2>1
  <1> HIDE DEF lots, S
  <1>6. t.qty <= HeldIn(lots)
    BY <1>3, <1>4, <1>5, AcceptedIsCovered
  <1>7. sold + t.qty <= Quantity(acq)
    BY <1>2, <1>5, <1>6
  <1> QED BY <1>7 DEF acq, sold

-----------------------------------------------------------------------------
\* The trades that were created before c.
Until(c) == {t \in transactions : t.created < c}

(***************************************************************************)
(* While no two handlers are under way, at every moment of the past as     *)
(* many shares were bought as sold, and the sell that is under way, once   *)
(* matched, fits into the committed trades, all older than itself.         *)
(***************************************************************************)
SellInv ==
    /\ \A c \in Nat : Covered(Until(c))
    /\ \A r \in Requests : Busy(r) => \A t \in transactions : t.created < row[r].created
    /\ \A r \in Requests : pc[r] = "select_sells" => buys[r] = Acquisitions(transactions)
    /\ \A r \in Requests :
         pc[r] \in {"insert", "select_snapshot", "flush", "commit"} /\ row[r].kind = "sell" =>
           Quantity(Sells(transactions)) + row[r].qty <= Quantity(Acquisitions(transactions))
    /\ DOMAIN buys = Requests

LEMMA AllCovered ==
    ASSUME RowsOK, \A c \in Nat : Covered(Until(c))
    PROVE  Covered(transactions)
  <1>1. Until(clock) = transactions /\ clock \in Nat
    BY DEF RowsOK, Until
  <1> QED BY <1>1

LEMMA InitSell == Init => SellInv
  <1> SUFFICES ASSUME Init PROVE SellInv
    OBVIOUS
  <1>1. ASSUME NEW c \in Nat PROVE Covered(Until(c))
    <2>1. Until(c) = {} /\ Sells({}) = {} /\ Acquisitions({}) = {}
      BY DEF Init, Until, Sells, Acquisitions
    <2>2. Rows({})
      BY FS_EmptySet DEF Rows
    <2>3. Quantity({}) \in Nat
      BY <2>1, <2>2, SoldSums
    <2> QED BY <2>1, <2>3 DEF Covered
  <1> QED BY <1>1 DEF Init, SellInv, Busy

LEMMA NextSell ==
    ASSUME BackInv, SellInv, Serial, [Next]_vars
    PROVE  SellInv'
  <1>0. DOMAIN pc = Requests /\ DOMAIN row = Requests /\ DOMAIN buys = Requests
    BY DEF BackInv, HealInv, Domains, SellInv
  <1>1. CASE UNCHANGED vars
    BY <1>1 DEF vars, SellInv, Covered, Until, Busy
  <1>2. ASSUME UNCHANGED transactions PROVE \A c \in Nat : Covered(Until(c))'
    BY <1>2 DEF SellInv, Covered, Until
  <1>3. ASSUME NEW r \in Requests, End(r), UNCHANGED transactions PROVE SellInv'
    <2>1. \A q \in Requests : Busy(q)' => Busy(q) /\ row'[q] = row[q] /\ buys'[q] = buys[q] /\ pc'[q] = pc[q]
      BY <1>0, <1>3 DEF End, Busy
    <2>2. DOMAIN buys' = Requests
      BY <1>0, <1>3 DEF End
    <2> QED BY <1>2, <1>3, <2>1, <2>2 DEF SellInv, Busy
  <1>4. ASSUME NEW r \in Requests, NEW id, NEW kind, NEW day, NEW qty, NEW price,
               Submit(r, id, kind, day, qty, price)
        PROVE  SellInv'
    <2>1. /\ UNCHANGED <<transactions, buys>> /\ pc'[r] = (IF kind = "sell" THEN "select_buys" ELSE "insert")
          /\ row'[r].created = clock /\ row'[r].kind = kind
          /\ \A q \in Requests : q # r => pc'[q] = pc[q] /\ row'[q] = row[q]
      BY <1>0, <1>4 DEF Submit, tables
    <2>2. \A t \in transactions : t.created < clock
      BY DEF BackInv, RowsOK
    <2>3. \A q \in Requests : Busy(q)' => \A t \in transactions : t.created < row'[q].created
      BY <2>1, <2>2 DEF SellInv, Busy
    <2> QED BY <1>0, <1>2, <2>1, <2>3 DEF SellInv
  <1>5. ASSUME NEW r \in Requests, SelectBuys(r) PROVE SellInv'
    <2>1. /\ UNCHANGED <<transactions, row>> /\ Busy(r) /\ pc'[r] = "select_sells"
          /\ buys'[r] = Acquisitions(transactions) /\ DOMAIN buys' = Requests
          /\ \A q \in Requests : q # r => pc'[q] = pc[q] /\ buys'[q] = buys[q]
      BY <1>0, <1>5 DEF SelectBuys, tables, Busy
    <2> QED BY <1>2, <2>1 DEF SellInv, Busy
  <1>6. ASSUME NEW r \in Requests, SelectSells(r), ~End(r) PROVE SellInv'
    <2>1. /\ UNCHANGED <<transactions, buys>> /\ Busy(r) /\ pc'[r] = "insert"
          /\ \A q \in Requests : q # r => pc'[q] = pc[q] /\ row'[q] = row[q]
          /\ buys[r] = Acquisitions(transactions)
      BY <1>0, <1>6 DEF SelectSells, tables, Busy, SellInv
    <2>2. MatchSell(row[r], Acquisitions(transactions), Sells(transactions)).error = "none"
      BY <1>6, <2>1 DEF SelectSells
    <2>3. Rows(transactions) /\ Trade(row[r]) /\ Covered(transactions)
      BY <2>1, AllCovered DEF BackInv, RowsOK, SellInv
    <2>4. row'[r].created = row[r].created /\ row'[r].qty = row[r].qty
      <3>1. row[r] = [c \in RowColumns |-> row[r][c]]
        BY <2>3 DEF Trade
      <3> QED BY <1>0, <1>6, <3>1, SellFilled
    <2>5. Quantity(Sells(transactions)) + row[r].qty <= Quantity(Acquisitions(transactions))
      BY <2>2, <2>3, MatchedFits DEF Trade
    <2>6. \A q \in Requests : Busy(q)' => Busy(q) /\ row'[q].created = row[q].created
      BY <2>1, <2>4 DEF Busy
    <2> QED BY <1>0, <1>2, <2>1, <2>4, <2>5, <2>6 DEF SellInv, Busy
  <1>7. ASSUME NEW r \in Requests, InsertAndWalk(r) \/ SelectSnapshot(r) \/ Flush(r), ~End(r) PROVE SellInv'
    <2>1. /\ UNCHANGED <<transactions, buys, row>>
          /\ pc[r] \in {"insert", "select_snapshot", "flush"} /\ pc'[r] \in {"select_snapshot", "flush", "commit"}
          /\ \A q \in Requests : q # r => pc'[q] = pc[q]
      BY <1>0, <1>7 DEF InsertAndWalk, SelectSnapshot, Flush, tables
    <2>2. \A q \in Requests : Busy(q)' => Busy(q)
      BY <2>1 DEF Busy
    <2> QED BY <1>0, <1>2, <2>1, <2>2 DEF SellInv
  <1>8. ASSUME NEW r \in Requests, Commit(r) PROVE SellInv'
    <2>1. Busy(r) /\ pc[r] = "commit" /\ transactions' = transactions \cup {row[r]} /\ End(r)
      BY <1>8 DEF Commit, Busy
    <2>2. \A q \in Requests : pc'[q] = "idle"
      BY <1>0, <2>1 DEF Serial, Busy, End
    <2>3. Rows(transactions \cup {row[r]}) /\ Rows(transactions) /\ Trade(row[r])
      BY <2>1, OneMoreRow DEF BackInv, RowsOK
    <2>4. /\ \A t \in transactions : t.created < row[r].created /\ t.created \in Nat
          /\ row[r].created \in Nat /\ row[r] \notin transactions
      BY <2>1, <2>3 DEF SellInv, Rows, Trade
    <2>5. Covered(transactions \cup {row[r]})
      <3>1. /\ Quantity(Sells(transactions \cup {row[r]})) = Sold(row[r]) + Quantity(Sells(transactions))
            /\ Quantity(Acquisitions(transactions \cup {row[r]})) = Bought(row[r]) + Quantity(Acquisitions(transactions))
        BY <2>3, <2>4, OneMoreTrade
      <3>2. Quantity(Sells(transactions)) \in Nat /\ Quantity(Acquisitions(transactions)) \in Nat
        BY <2>3, SoldSums, AcquiredSums
      <3>3. Bought(row[r]) \in Nat /\ row[r].qty \in Nat
        BY <2>3, TradeTypes DEF Trade
      <3>4. Quantity(Sells(transactions)) <= Quantity(Acquisitions(transactions))
        BY AllCovered DEF BackInv, SellInv, Covered
      <3>5. CASE row[r].kind = "sell"
        <4>1. Sold(row[r]) = row[r].qty
          BY <3>5 DEF Sold
        <4>2. Quantity(Sells(transactions)) + row[r].qty <= Quantity(Acquisitions(transactions))
          BY <2>1, <3>5 DEF SellInv
        <4> QED BY <3>1, <3>2, <3>3, <4>1, <4>2 DEF Covered
      <3>6. CASE row[r].kind # "sell"
        <4>1. Sold(row[r]) = 0
          BY <3>6 DEF Sold
        <4> QED BY <3>1, <3>2, <3>3, <3>4, <4>1 DEF Covered
      <3> QED BY <3>5, <3>6
    <2>6. ASSUME NEW c \in Nat PROVE Covered(Until(c))'
      <3>1. CASE row[r].created < c
        <4>1. Until(c)' = transactions \cup {row[r]}
          BY <2>1, <2>4, <3>1 DEF Until
        <4> QED BY <2>5, <4>1 DEF Covered
      <3>2. CASE ~(row[r].created < c)
        <4>1. Until(c)' = Until(c)
          BY <2>1, <3>2 DEF Until
        <4> QED BY <4>1 DEF Covered, SellInv
      <3> QED BY <3>1, <3>2
    <2>7. DOMAIN buys' = Requests
      BY <1>0, <2>1 DEF End
    <2> QED BY <2>2, <2>6, <2>7 DEF SellInv, Busy
  <1>9. ASSUME NEW r \in Requests, Step(r) PROVE SellInv'
    <2>1. CASE Commit(r)
      BY <1>8, <2>1
    <2>2. CASE ~Commit(r) /\ End(r)
      <3>1. UNCHANGED transactions
        BY <1>9, <2>2 DEF Step, SelectBuys, SelectSells, InsertAndWalk, SelectSnapshot, Flush, tables
      <3> QED BY <1>3, <2>2, <3>1
    <2>3. CASE ~Commit(r) /\ ~End(r)
      BY <1>5, <1>6, <1>7, <1>9, <2>3 DEF Step
    <2> QED BY <2>1, <2>2, <2>3
  <1>10. ASSUME NEW r \in Requests, Crash(r) PROVE SellInv'
    BY <1>3, <1>10 DEF Crash, tables
  <1> QED BY <1>1, <1>4, <1>9, <1>10 DEF Next

LEMMA SerialSells == Spec /\ []Serial => []SellInv
  <1>1. BackInv /\ SellInv /\ Serial /\ [Next]_vars => SellInv'
    BY NextSell
  <1> QED BY <1>1, InitSell, BackInvariance, PTL DEF Spec

(***************************************************************************)
(* Without overlapping trades no sell exceeds what was bought, whatever    *)
(* the dates, the prior sells and the crashes.                             *)
(***************************************************************************)
THEOREM SerialNeverOversells == Spec /\ []Serial => []NoOversell
  <1>1. BackInv /\ SellInv => NoOversell
    BY AllCovered DEF BackInv, SellInv, Covered, NoOversell
  <1> QED BY <1>1, SerialSells, BackInvariance, PTL

-----------------------------------------------------------------------------
\* The trades were entered in the order of their dates.
DateOrdered(rows) == \A s, t \in rows : s.created < t.created => s.date <= t.date

First(seq, k) == {seq[j] : j \in 1 .. k}

\* Then the first k rows of the history are those created first.
LEMMA FirstCreated ==
    ASSUME NEW rows, Rows(rows), DateOrdered(rows), NEW k \in 1 .. Cardinality(rows)
    PROVE  First(Sorted(rows), k) = {t \in rows : t.created < Sorted(rows)[k].created + 1}
  <1> DEFINE seq == Sorted(rows)
             n == Cardinality(rows)
             rank == [t \in rows |-> Cardinality(Before(rows, t))]
  <1>1. /\ n \in Nat /\ {seq[j] : j \in 1 .. n} = rows /\ \A i, j \in 1 .. n : seq[i] = seq[j] => i = j
    BY SortedLists DEF Lists
  <1>2. \A j \in 1 .. n : seq[j] \in rows
    BY <1>1
  <1>3. \A j \in 1 .. n : rank[seq[j]] = j - 1
    BY <1>2, SortedLists
  <1>4. \A s, t \in rows : s \in Before(rows, t) => rank[s] < rank[t]
    BY SortedLists
  <1>5. \A t \in rows : t.date \in Int /\ t.created \in Nat
    BY DEF Rows, Trade
  <1>6. \A s, t \in rows : s.created = t.created => s = t
    BY DEF Rows
  <1> HIDE DEF seq, n, rank
  <1>7. ASSUME NEW s \in rows, NEW t \in rows, s.created < t.created PROVE s \in Before(rows, t)
    BY <1>5, <1>7 DEF DateOrdered, Before
  <1>8. k \in 1 .. n /\ k \in Nat
    BY <1>1 DEF n
  <1>9. ASSUME NEW j \in 1 .. k PROVE seq[j] \in rows /\ seq[j].created < seq[k].created + 1
    <2>1. j \in 1 .. n /\ j \in Nat /\ j <= k
      BY <1>1, <1>8
    <2>2. seq[j] \in rows /\ seq[k] \in rows
      BY <1>2, <1>8, <2>1
    <2>3. ~(seq[k].created < seq[j].created)
      <3> SUFFICES ASSUME seq[k].created < seq[j].created PROVE FALSE
        OBVIOUS
      <3>1. rank[seq[k]] < rank[seq[j]]
        BY <1>4, <1>7, <2>2
      <3>2. rank[seq[k]] = k - 1 /\ rank[seq[j]] = j - 1
        BY <1>3, <1>8, <2>1
      <3> QED BY <1>8, <2>1, <3>1, <3>2
    <2> QED BY <1>5, <2>2, <2>3
  <1>10. ASSUME NEW t \in rows, t.created < seq[k].created + 1 PROVE t \in First(seq, k)
    <2>1. PICK j \in 1 .. n : seq[j] = t
      BY <1>1
    <2>2. seq[k] \in rows /\ j \in Nat
      BY <1>1, <1>2, <1>8
    <2>3. j <= k
      <3> SUFFICES ASSUME k < j PROVE FALSE
        BY <1>8, <2>2
      <3>1. rank[seq[k]] = k - 1 /\ rank[seq[j]] = j - 1
        BY <1>3, <1>8, <2>1
      <3>2. ~(rank[t] < rank[seq[k]]) /\ t # seq[k]
        BY <1>8, <2>1, <2>2, <3>1
      <3>3. ~(t.created < seq[k].created)
        BY <1>4, <1>7, <1>10, <2>2, <3>2
      <3>4. t.created = seq[k].created
        BY <1>5, <1>10, <2>2, <3>3
      <3> QED BY <1>6, <1>10, <2>2, <3>2, <3>4
    <2>4. j \in 1 .. k
      BY <1>8, <2>2, <2>3
    <2> QED BY <2>1, <2>4 DEF First
  <1>11. First(seq, k) = {t \in rows : t.created < seq[k].created + 1}
    BY <1>9, <1>10 DEF First
  <1> QED BY <1>11 DEF seq

\* Sums over the first k places.
LEMMA FirstSums ==
    ASSUME NEW rows, Rows(rows), NEW seq, NEW n, Lists(seq, n, rows), NEW k \in 0 .. n
    PROVE  /\ SumFunctionOnSet([j \in 1 .. n |-> BoughtOf(rows)[seq[j]]], 1 .. k) = Quantity(Acquisitions(First(seq, k)))
           /\ SumFunctionOnSet([j \in 1 .. n |-> SoldOf(rows)[seq[j]]], 1 .. k) = Quantity(Sells(First(seq, k)))
  <1> DEFINE pre == First(seq, k)
             b == BoughtOf(rows)
             s == SoldOf(rows)
             eb == [j \in 1 .. n |-> b[seq[j]]]
             es == [j \in 1 .. n |-> s[seq[j]]]
             K == 1 .. k
  <1>1. n \in Nat /\ k \in Nat /\ k <= n
    BY DEF Lists
  <1>2. \A j \in K : j \in 1 .. n
    BY <1>1
  <1>3. /\ \A j \in K : seq[j] \in rows
        /\ \A i, j \in K : seq[i] = seq[j] => i = j
    BY <1>2 DEF Lists
  <1>4. \A t \in rows : b[t] = Bought(t) /\ s[t] = Sold(t) /\ b[t] \in Int /\ s[t] \in Int
    BY TradeTypes, SoldType DEF Rows, BoughtOf, SoldOf
  <1>5. \A j \in K : eb[j] = b[seq[j]] /\ es[j] = s[seq[j]]
    BY <1>2
  <1>6. IsFiniteSet(K)
    BY <1>1, FS_Interval
  <1>7. pre = {seq[j] : j \in K} /\ pre \subseteq rows
    BY <1>3 DEF First
  <1> HIDE DEF pre, b, s, eb, es, K
  <1>8. Rows(pre)
    BY <1>7, FS_Subset DEF Rows
  <1>9. SumFunctionOnSet(b, pre) = SumFunctionOnSet(eb, K) /\ SumFunctionOnSet(s, pre) = SumFunctionOnSet(es, K)
    <2>1. \A j \in K : b[seq[j]] \in Int /\ s[seq[j]] \in Int
      BY <1>3, <1>4
    <2> QED BY <1>3, <1>5, <1>6, <1>7, <2>1, SumRenamed
  <1>10. \A t \in pre : /\ BoughtOf(pre)[t] = b[t] /\ SoldOf(pre)[t] = s[t]
                         /\ b[t] \in Int /\ s[t] \in Int
    BY <1>4, <1>7 DEF BoughtOf, SoldOf
  <1>11. /\ SumFunctionOnSet(BoughtOf(pre), pre) = SumFunctionOnSet(b, pre)
         /\ SumFunctionOnSet(SoldOf(pre), pre) = SumFunctionOnSet(s, pre)
    BY <1>8, <1>10, SumAgree DEF Rows
  <1>12. SumFunctionOnSet(eb, K) = Quantity(Acquisitions(pre)) /\ SumFunctionOnSet(es, K) = Quantity(Sells(pre))
    BY <1>8, <1>9, <1>11, AcquiredSums, SoldSums
  <1> QED BY <1>12 DEF eb, es, K, pre, b, s

(***************************************************************************)
(* When no sell of a list exceeds what precedes it, the walk over the list *)
(* ends with the shares bought less the shares sold.                       *)
(***************************************************************************)
LEMMA WalkExact ==
    ASSUME NEW rows, Rows(rows), NEW seq, NEW n, Lists(seq, n, rows),
           \A k \in 1 .. n : Covered(First(seq, k))
    PROVE  HeldIn(WalkAll(NoWalk, seq).lots) = Quantity(Acquisitions(rows)) - Quantity(Sells(rows))
  <1> DEFINE b == [j \in 1 .. n |-> BoughtOf(rows)[seq[j]]]
             s == [j \in 1 .. n |-> SoldOf(rows)[seq[j]]]
             got == [k \in 0 .. n |-> SumFunctionOnSet(b, 1 .. k)]
             gone == [k \in 0 .. n |-> SumFunctionOnSet(s, 1 .. k)]
  <1>1. n \in Nat /\ DOMAIN seq = 1 .. n
    BY DEF Lists
  <1>2. ASSUME NEW k \in 1 .. n
        PROVE  /\ Trade(seq[k]) /\ b[k] = Bought(seq[k]) /\ s[k] = Sold(seq[k])
               /\ b[k] \in Nat /\ s[k] \in Nat
    <2>1. seq[k] \in rows
      BY DEF Lists
    <2>2. Trade(seq[k])
      BY <2>1 DEF Rows
    <2>3. b[k] = Bought(seq[k]) /\ s[k] = Sold(seq[k])
      BY <2>1 DEF BoughtOf, SoldOf
    <2> QED BY <2>2, <2>3, TradeTypes, SoldType
  <1>3. \A k \in 0 .. n : got[k] = Quantity(Acquisitions(First(seq, k))) /\ gone[k] = Quantity(Sells(First(seq, k)))
    BY FirstSums
  <1>4. First(seq, n) = rows
    BY DEF First, Lists
  <1> HIDE DEF b, s
  <1>5. got[0] = 0 /\ gone[0] = 0
    <2>1. 0 \in 0 .. n /\ 1 .. 0 = {}
      BY <1>1
    <2> QED BY <2>1, SumEmpty
  <1>6. ASSUME NEW k \in Nat, k + 1 <= n
        PROVE  /\ got[k + 1] = b[k + 1] + got[k] /\ gone[k + 1] = s[k + 1] + gone[k]
               /\ got[k] \in Int /\ gone[k] \in Int
    <2>1. k \in 0 .. n /\ k + 1 \in 0 .. n /\ \A j \in 1 .. k + 1 : j \in 1 .. n
      BY <1>1, <1>6
    <2>2. \A j \in 1 .. k + 1 : b[j] \in Int /\ s[j] \in Int
      BY <1>2, <2>1
    <2>3. /\ SumFunctionOnSet(b, 1 .. k + 1) = b[k + 1] + SumFunctionOnSet(b, 1 .. k)
          /\ SumFunctionOnSet(s, 1 .. k + 1) = s[k + 1] + SumFunctionOnSet(s, 1 .. k)
          /\ SumFunctionOnSet(b, 1 .. k) \in Int /\ SumFunctionOnSet(s, 1 .. k) \in Int
      BY <2>2, SumUpTo
    <2> QED BY <2>1, <2>3
  <1> HIDE DEF got, gone
  <1>7. \A k \in 1 .. n : gone[k] <= got[k]
    <2>1. \A k \in 1 .. n : k \in 0 .. n
      BY <1>1
    <2> QED BY <1>3, <2>1 DEF Covered
  <1>8. PICK run : Walks(run, NoWalk, seq, n)
    BY <1>1, WalkRun
  <1> DEFINE Ok(k) == run[k] \in Walker /\ HeldIn(run[k].lots) = got[k] - gone[k]
             P == {k \in Nat : k <= n => Ok(k)}
  <1>9. 0 \in P
    <2>1. run[0] = NoWalk
      BY <1>8 DEF Walks
    <2>2. NoWalk \in Walker /\ HeldIn(NoWalk.lots) = 0
      BY HeldEmpty DEF NoWalk, Walker
    <2> QED BY <1>5, <2>1, <2>2
  <1>10. ASSUME NEW k \in Nat, k \in P PROVE k + 1 \in P
    <2> SUFFICES ASSUME k + 1 <= n PROVE Ok(k + 1)
      OBVIOUS
    <2>1. k + 1 \in 1 .. n /\ (k + 1) - 1 = k /\ k <= n
      BY <1>1
    <2>2. Ok(k)
      BY <1>10, <2>1
    <2>3. run[k + 1] = Walk(run[k], seq[k + 1])
      BY <1>8, <2>1 DEF Walks
    <2>4. /\ Trade(seq[k + 1]) /\ b[k + 1] = Bought(seq[k + 1]) /\ s[k + 1] = Sold(seq[k + 1])
          /\ b[k + 1] \in Nat /\ s[k + 1] \in Nat
      BY <1>2, <2>1
    <2>5. /\ run[k + 1] \in Walker
          /\ HeldIn(run[k + 1].lots) =
                IF seq[k + 1].kind # "sell" THEN HeldIn(run[k].lots) + b[k + 1]
                ELSE IF seq[k + 1].qty < HeldIn(run[k].lots) THEN HeldIn(run[k].lots) - seq[k + 1].qty ELSE 0
      BY <2>2, <2>3, <2>4, WalkRow
    <2>6. /\ got[k + 1] = b[k + 1] + got[k] /\ gone[k + 1] = s[k + 1] + gone[k]
          /\ got[k] \in Int /\ gone[k] \in Int /\ gone[k + 1] <= got[k + 1]
      BY <1>6, <1>7, <2>1
    <2>7. seq[k + 1].qty \in Nat
      BY <2>4 DEF Trade
    <2> DEFINE held == HeldIn(run[k].lots)
               after == HeldIn(run[k + 1].lots)
               qty == seq[k + 1].qty
    <2>8. held = got[k] - gone[k]
      BY <2>2
    <2>9. CASE seq[k + 1].kind = "sell"
      <3>1. b[k + 1] = 0 /\ s[k + 1] = qty
        BY <2>4, <2>9 DEF Bought, Sold, Acquired
      <3>2. after = IF qty < held THEN held - qty ELSE 0
        BY <2>5, <2>9
      <3>3. qty \in Nat
        BY <2>7
      <3> HIDE DEF held, after, qty
      <3>4. after = got[k + 1] - gone[k + 1]
        BY <2>6, <2>8, <3>1, <3>2, <3>3
      <3> QED BY <2>5, <3>4 DEF after
    <2>10. CASE seq[k + 1].kind # "sell"
      <3>1. s[k + 1] = 0
        BY <2>4, <2>10 DEF Sold
      <3>2. after = held + b[k + 1]
        BY <2>5, <2>10
      <3> HIDE DEF held, after, qty
      <3>3. after = got[k + 1] - gone[k + 1]
        BY <2>4, <2>6, <2>8, <3>1, <3>2
      <3> QED BY <2>5, <3>3 DEF after
    <2> QED BY <2>9, <2>10
  <1>11. Ok(n)
    <2> HIDE DEF Ok
    <2>1. \A k \in Nat : k \in P
      <3> HIDE DEF P
      <3> QED BY <1>9, <1>10, InductionSet
    <2> QED BY <1>1, <2>1
  <1>12. run[n] = WalkAll(NoWalk, seq)
    BY <1>8 DEF Walks
  <1>13. got[n] = Quantity(Acquisitions(rows)) /\ gone[n] = Quantity(Sells(rows))
    <2>1. n \in 0 .. n
      BY <1>1
    <2> QED BY <1>3, <1>4, <2>1
  <1> QED BY <1>11, <1>12, <1>13

LEMMA SnapshotQuantity ==
    ASSUME NEW rows
    PROVE  Snapshot(rows).quantity = HeldIn(WalkAll(NoWalk, Sorted(rows)).lots)
  <1> DEFINE w == WalkAll(NoWalk, Sorted(rows))
             qty == HeldIn(w.lots)
             cost == SumFunction([k \in DOMAIN w.lots |-> w.lots[k].qty * w.lots[k].price])
  <1>1. Snapshot(rows) = IF qty = 0 /\ w.dividends = 0 /\ w.realized = 0 THEN NoHolding
                         ELSE [quantity |-> qty, avg_cost |-> IF qty > 0 THEN HalfEven(cost, qty) ELSE 0,
                               invested |-> HalfEven(w.invested, Paisa),
                               realized |-> HalfEven(w.realized, Paisa),
                               dividends |-> HalfEven(w.dividends, Paisa), present |-> TRUE]
    BY DEF Snapshot, WalkAll, NoWalk, HeldIn, QtyOf
  <1>2. NoHolding.quantity = 0
    BY DEF NoHolding
  <1> HIDE DEF w, cost, qty
  <1>3. Snapshot(rows).quantity = qty
    BY <1>1, <1>2
  <1> QED BY <1>3 DEF qty, w

(***************************************************************************)
(* Trades that do not overlap and are entered in the order of their dates: *)
(* the snapshot's position is what the tax engine takes to be open.        *)
(***************************************************************************)
THEOREM SerialPositionIsOpen == Spec /\ []Serial => []OpenQuantity
  <1>1. ASSUME BackInv, SellInv, SnapshotFresh PROVE OpenQuantity
    <2> SUFFICES ASSUME Quiet, InDateOrder
                 PROVE  holdings.quantity = Quantity(Acquisitions(transactions)) - Quantity(Sells(transactions))
      BY DEF OpenQuantity
    <2> DEFINE seq == Sorted(transactions)
               n == Cardinality(transactions)
    <2>1. Rows(transactions) /\ DateOrdered(transactions)
      BY <1>1 DEF BackInv, RowsOK, InDateOrder, DateOrdered
    <2>2. Lists(seq, n, transactions)
      BY <2>1, SortedLists
    <2>3. ASSUME NEW k \in 1 .. n PROVE Covered(First(seq, k))
      <3>1. seq[k] \in transactions
        BY <2>2 DEF Lists
      <3>2. seq[k].created + 1 \in Nat
        BY <2>1, <3>1 DEF Rows, Trade
      <3>3. First(seq, k) = Until(seq[k].created + 1)
        BY <2>1, FirstCreated DEF Until
      <3> QED BY <1>1, <3>2, <3>3 DEF SellInv
    <2>4. holdings.quantity = HeldIn(WalkAll(NoWalk, seq).lots)
      BY <1>1, SnapshotQuantity DEF SnapshotFresh
    <2> HIDE DEF seq, n
    <2> QED BY <2>1, <2>2, <2>3, <2>4, WalkExact
  <1>2. BackInv /\ SellInv /\ SnapshotFresh => OpenQuantity
    BY <1>1
  <1> QED BY <1>2, SerialSells, BackInvariance, SerialStaysFresh, PTL

-----------------------------------------------------------------------------
\* A lot as the walk keeps it, without its id and date.
Of(x) == [qty |-> x.qty, price |-> x.price]
Strip(lots) == [k \in DOMAIN lots |-> Of(lots[k])]

\* Lots bought at a price that their parts have as well.
Priced(S) == \A x \in S : x.price \in Nat /\ \A j \in Nat : [x EXCEPT !.qty = j].price = x.price

LEMMA StripFacts ==
    ASSUME NEW S, Cuttable(S), Priced(S), NEW lots \in Seq(S)
    PROVE  /\ Strip(lots) \in Seq(Lot) /\ Len(Strip(lots)) = Len(lots) /\ DOMAIN Strip(lots) = 1 .. Len(lots)
           /\ \A k \in 1 .. Len(lots) : Strip(lots)[k] = Of(lots[k])
           /\ \A x \in S : Of(x) \in Lot /\ Strip(Append(lots, x)) = Append(Strip(lots), Of(x))
  <1> DEFINE n == Len(lots)
             str == [k \in 1 .. n |-> Of(lots[k])]
  <1>1. n \in Nat /\ DOMAIN lots = 1 .. n /\ \A k \in 1 .. n : lots[k] \in S
    OBVIOUS
  <1>2. \A x \in S : Of(x) \in Lot
    BY DEF Cuttable, Priced, Of, Lot
  <1>3. Strip(lots) = str
    BY <1>1 DEF Strip
  <1>4. \A k \in 1 .. n : Of(lots[k]) \in Lot
    BY <1>1, <1>2
  <1>5. str \in Seq(Lot) /\ Len(str) = n /\ DOMAIN str = 1 .. n /\ \A k \in 1 .. n : str[k] = Of(lots[k])
    <2> HIDE DEF n
    <2> QED BY <1>1, <1>4
  <1>6. ASSUME NEW x \in S PROVE Strip(Append(lots, x)) = Append(Strip(lots), Of(x))
    <2> DEFINE more == Append(lots, x)
               app == Append(str, Of(x))
    <2>1. DOMAIN more = 1 .. n + 1 /\ more[n + 1] = x /\ \A k \in 1 .. n : more[k] = lots[k]
      OBVIOUS
    <2> HIDE DEF more, str, n
    <2>2. app = [k \in 1 .. n + 1 |-> app[k]] /\ app[n + 1] = Of(x) /\ \A k \in 1 .. n : app[k] = str[k]
      <3> DEFINE o == Of(x)
      <3>1. o \in Lot
        BY <1>2
      <3> HIDE DEF o
      <3>2. Append(str, o) \in Seq(Lot) /\ Len(Append(str, o)) = n + 1
        BY <1>5, <3>1
      <3>3. \A s \in Seq(Lot) : s = [k \in 1 .. Len(s) |-> s[k]]
        OBVIOUS
      <3>4. Append(str, o)[n + 1] = o /\ \A k \in 1 .. n : Append(str, o)[k] = str[k]
        BY <1>5, <3>1
      <3> QED BY <3>2, <3>3, <3>4 DEF o
    <2> HIDE DEF app
    <2>3. \A k \in 1 .. n + 1 : k \in 1 .. n \/ k = n + 1
      BY <1>1
    <2>4. \A k \in 1 .. n + 1 : app[k] = Of(more[k])
      BY <1>5, <2>1, <2>2, <2>3
    <2>5. Strip(more) = [k \in 1 .. n + 1 |-> Of(more[k])]
      BY <2>1 DEF Strip
    <2>6. Strip(more) = app
      BY <2>2, <2>4, <2>5
    <2> QED BY <1>3, <2>6 DEF more, app
  <1> QED BY <1>2, <1>3, <1>5, <1>6

\* The walk's sell c, the engine's match m and the lots e the sell leaves.
Follows(c, m, e, S, z) ==
    /\ MatchState(m) /\ m.error = "none" /\ m.remaining \in Nat
    /\ m.gain \in Int /\ m.matched \in Nat
    /\ e \in Eating(S) /\ e.left = m.remaining
    /\ c \in Selling /\ c.remaining = m.remaining /\ c.lots = Strip(e.lots)
    /\ RoundedTimes(m.gain, c.realized - z, m.matched)

LEMMA FollowLot ==
    ASSUME NEW S, Cuttable(S), Priced(S), NEW lot \in S, NEW z \in Int,
           NEW c, NEW m, NEW e, Follows(c, m, e, S, z), NEW day, NEW filer, NEW brackets,
           MatchLot(m, lot, c.price, day, filer, brackets).error = "none"
    PROVE  /\ Follows(Consume(c, Of(lot)), MatchLot(m, lot, c.price, day, filer, brackets), Eat(e, lot), S, z)
           /\ Consume(c, Of(lot)).price = c.price
  <1> DEFINE q == lot.qty
             r == m.remaining
             take == IF q < r THEN q ELSE r
             d == c.price - lot.price
             g == d * take
             rule == find_bracket(brackets, day, filer, day - lot.date)
             tax == m.cgt + IF g > 0 THEN Tax(g, rule.rate) ELSE 0
             nm == MatchLot(m, lot, c.price, day, filer, brackets)
             nc == Consume(c, Of(lot))
             ne == Eat(e, lot)
             left == q - take
             rest == [lot EXCEPT !.qty = left]
  <1>1. /\ MatchState(m) /\ m.error = "none" /\ r \in Nat /\ m.gain \in Int /\ m.matched \in Nat
        /\ e \in Eating(S) /\ e.left = r
        /\ c \in Selling /\ c.remaining = r /\ c.realized \in Int /\ c.lots = Strip(e.lots)
    BY DEF Follows, Selling
  <1>2. q \in Nat /\ lot.price \in Nat /\ c.price \in Nat /\ c.lots \in Seq(Lot) /\ e.lots \in Seq(S)
    BY <1>1 DEF Cuttable, Priced, Selling, Eating
  <1>3. take \in Nat /\ take <= q /\ take <= r /\ left \in Nat /\ r - take \in Nat
    <2>1. q \in Nat /\ r \in Nat
      BY <1>1, <1>2
    <2> HIDE DEF q, r
    <2> QED BY <2>1
  <1>4. d \in Int
    BY <1>2
  <1>5. nm = IF m.error # "none" \/ take <= 0 THEN m
             ELSE IF g > 0 /\ rule = NoRule THEN [m EXCEPT !.error = "no_rule"]
             ELSE [error |-> "none", remaining |-> r - take, matched |-> m.matched + 1,
                   gain |-> m.gain + HalfUp(g, Paisa), cgt |-> tax]
    BY DEF MatchLot
  <1>6. rest \in S /\ rest.qty = left /\ rest.price = lot.price
    <2> HIDE DEF left
    <2> QED BY <1>3 DEF Cuttable, Priced
  <1>7. ne = [left |-> r - take, lots |-> IF take = q THEN e.lots ELSE Append(e.lots, rest)]
    BY <1>1 DEF Eat
  <1>8. Of(lot).qty = q /\ Of(lot).price = lot.price /\ [Of(lot) EXCEPT !.qty = left] = Of(rest)
    <2> HIDE DEF left, rest
    <2> QED BY <1>6 DEF Of
  <1>9. nc = [remaining |-> r - take, price |-> c.price, realized |-> c.realized + g,
              lots |-> IF take = q THEN c.lots ELSE Append(c.lots, Of(rest))]
    <2> DEFINE ol == Of(lot)
    <2>1. nc = [c EXCEPT !.remaining = @ - take, !.realized = @ + (c.price - lot.price) * take,
                         !.lots = IF take = q THEN @ ELSE Append(@, [ol EXCEPT !.qty = @ - take])]
      BY <1>1, <1>8 DEF Consume
    <2>2. [ol EXCEPT !.qty = @ - take] = Of(rest)
      BY <1>8
    <2>3. c = [remaining |-> c.remaining, price |-> c.price, realized |-> c.realized, lots |-> c.lots]
      BY <1>1 DEF Selling
    <2> DEFINE or == Of(rest)
               lt == IF take = q THEN c.lots ELSE Append(c.lots, or)
               rr == r - take
               zz == c.realized + g
    <2>4. nc = [c EXCEPT !.remaining = rr, !.realized = zz, !.lots = lt]
      BY <1>1, <2>1, <2>2
    <2> HIDE DEF lt, rr, zz, nc
    <2>5. nc = [remaining |-> rr, price |-> c.price, realized |-> zz, lots |-> lt]
      BY <2>3, <2>4
    <2> QED BY <2>5 DEF lt, rr, zz
  <1>10. g \in Int /\ (take = 0 => g = 0)
    <2> HIDE DEF d, take
    <2> QED BY <1>3, <1>4
  <1> DEFINE hg == HalfUp(g, Paisa)
             x == c.realized - z
  <1>11. hg \in Int /\ RoundedTimes(hg, g, 1) /\ x \in Int
    <2>1. Gained(d, take) \in Int /\ RoundedTimes(Gained(d, take), d * take, 1)
      <3> HIDE DEF d, take
      <3> QED BY <1>3, <1>4, GainedInt, GainedOnce
    <2>2. x \in Int
      BY <1>1
    <2> QED BY <2>1, <2>2 DEF Gained
  <1>12. RoundedTimes(m.gain, x, m.matched)
    BY DEF Follows
  <1>13. /\ MatchState(nm) /\ nm.error = "none" /\ nm.remaining = r - take
          /\ nm.gain \in Int /\ nm.matched \in Nat /\ RoundedTimes(nm.gain, x + g, nm.matched)
    <2> HIDE DEF take, g, tax, rule, nm, hg, x
    <2>1. CASE take = 0
      <3>1. nm = m
        BY <1>5, <2>1
      <3>2. r - take = r /\ x + g = x
        BY <1>1, <1>10, <1>11, <2>1
      <3> QED BY <1>1, <1>12, <3>1, <3>2
    <2>2. CASE take # 0
      <3>1. ~(take <= 0)
        BY <1>3, <2>2
      <3>2. ~(g > 0 /\ rule = NoRule)
        <4> SUFFICES ASSUME g > 0 /\ rule = NoRule PROVE FALSE
          OBVIOUS
        <4>1. nm = [m EXCEPT !.error = "no_rule"]
          BY <1>1, <1>5, <3>1
        <4>2. nm.error = "no_rule"
          BY <1>1, <4>1 DEF MatchState
        <4> QED BY <4>2 DEF nm
      <3> DEFINE ng == m.gain + hg
                 nn == m.matched + 1
                 nr == r - take
      <3>3. nm = [error |-> "none", remaining |-> nr, matched |-> nn, gain |-> ng, cgt |-> tax]
        BY <1>1, <1>5, <3>1, <3>2 DEF hg
      <3>4. ng \in Int /\ nn \in Nat
        BY <1>1, <1>11
      <3>5. RoundedTimes(ng, x + g, nn)
        <4> HIDE DEF ng, nn
        <4>1. RoundedTimes(m.gain + hg, x + g, m.matched + 1)
          BY <1>1, <1>10, <1>11, <1>12, RoundedSum
        <4> QED BY <4>1 DEF ng, nn
      <3> HIDE DEF ng, nn, nr
      <3>6. /\ MatchState(nm) /\ nm.error = "none" /\ nm.remaining = nr /\ nm.gain = ng
            /\ nm.matched = nn
        BY <3>3 DEF MatchState
      <3> QED BY <3>4, <3>5, <3>6 DEF nr
    <2> QED BY <2>1, <2>2
  <1>14. /\ Append(e.lots, rest) \in Seq(S) /\ Strip(Append(e.lots, rest)) = Append(c.lots, Of(rest))
         /\ Of(rest) \in Lot /\ Append(c.lots, Of(rest)) \in Seq(Lot)
    <2> HIDE DEF rest
    <2>1. Of(rest) \in Lot /\ Strip(Append(e.lots, rest)) = Append(Strip(e.lots), Of(rest))
      BY <1>2, <1>6, StripFacts
    <2> QED BY <1>1, <1>2, <1>6, <2>1
  <1> HIDE DEF take, g, nm, nc, ne, rest, q, r, d
  <1>15. ne \in Eating(S) /\ ne.left = r - take /\ ne.lots = IF take = q THEN e.lots ELSE Append(e.lots, rest)
    BY <1>2, <1>3, <1>7, <1>14 DEF Eating
  <1> DEFINE lt == IF take = q THEN c.lots ELSE Append(c.lots, Of(rest))
  <1>16. lt \in Seq(Lot) /\ lt = Strip(ne.lots)
    BY <1>1, <1>2, <1>14, <1>15
  <1>17. c.realized + g \in Int /\ (c.realized + g) - z = x + g
    BY <1>1, <1>10
  <1>18. nc \in Selling /\ nc.remaining = r - take /\ nc.realized = c.realized + g /\ nc.lots = lt /\ nc.price = c.price
    <2> HIDE DEF lt
    <2>1. nc = [remaining |-> r - take, price |-> c.price, realized |-> c.realized + g, lots |-> lt]
      BY <1>9 DEF lt
    <2> QED BY <1>2, <1>3, <1>16, <1>17, <2>1 DEF Selling
  <1> HIDE DEF lt, x
  <1>19. RoundedTimes(nm.gain, nc.realized - z, nm.matched)
    BY <1>13, <1>17, <1>18
  <1>20. Follows(nc, nm, ne, S, z)
    BY <1>3, <1>13, <1>15, <1>16, <1>18, <1>19 DEF Follows
  <1> QED BY <1>18, <1>20 DEF nc, nm, ne

\* A sell of the walk gains what the engine's match of the same lots gains,
\* up to the roundings of that match.
LEMMA FollowSell ==
    ASSUME NEW S, Cuttable(S), Priced(S), NEW lots \in Seq(S), NEW w \in Walker, w.lots = Strip(lots),
           NEW t, t.qty \in Nat, t.price \in Nat, NEW day, NEW filer, NEW brackets,
           MatchLots(Start(t.qty), lots, t.price, day, filer, brackets).error = "none"
    PROVE  LET m == MatchLots(Start(t.qty), lots, t.price, day, filer, brackets)
               v == WalkSell(w, t)
           IN  /\ v.lots = Strip(OpenLots(lots, t.qty)) /\ v.realized \in Int
               /\ m.gain \in Int /\ m.matched \in Nat
               /\ RoundedTimes(m.gain, v.realized - w.realized, m.matched)
  <1> DEFINE n == Len(lots)
             str == Strip(lots)
             z == w.realized
             cb == [remaining |-> t.qty, price |-> t.price, realized |-> z, lots |-> << >>]
             eb == [left |-> t.qty, lots |-> << >>]
             mb == Start(t.qty)
             acc == ConsumeAll(cb, str)
  <1>1. n \in Nat /\ DOMAIN lots = 1 .. n /\ \A k \in 1 .. n : lots[k] \in S
    OBVIOUS
  <1>2. DOMAIN str = 1 .. n /\ \A k \in 1 .. n : str[k] = Of(lots[k])
    BY StripFacts
  <1>3. z \in Int /\ w = [lots |-> w.lots, realized |-> w.realized, invested |-> w.invested, dividends |-> w.dividends]
    BY DEF Walker
  <1>4. WalkSell(w, t) = [w EXCEPT !.lots = acc.lots, !.realized = acc.realized]
    BY DEF WalkSell, ConsumeAll
  <1>5. WalkSell(w, t).lots = acc.lots /\ WalkSell(w, t).realized = acc.realized
    <2> HIDE DEF acc
    <2> QED BY <1>3, <1>4
  <1>6. OpenLots(lots, t.qty) = EatAll(eb, lots).lots
    BY DEF OpenLots, EatAll
  <1>7. Follows(cb, mb, eb, S, z) /\ cb.price = t.price
    <2>1. MatchState(mb) /\ mb.error = "none" /\ mb.remaining = t.qty /\ mb.gain = 0 /\ mb.matched = 0
      BY DEF MatchState, Start
    <2>2. eb \in Eating(S) /\ eb.left = t.qty /\ eb.lots = << >>
      BY DEF Eating
    <2>3. cb \in Selling /\ cb.remaining = t.qty /\ cb.realized = z /\ cb.lots = << >> /\ cb.price = t.price
      BY <1>3 DEF Selling
    <2>4. Strip(<< >>) = << >>
      BY DEF Strip
    <2>5. z - z = 0
      BY <1>3
    <2> HIDE DEF mb, eb, cb, z
    <2>6. RoundedTimes(mb.gain, cb.realized - z, mb.matched)
      BY <2>1, <2>3, <2>5, RoundedNone
    <2> QED BY <2>1, <2>2, <2>3, <2>4, <2>6 DEF Follows
  <1> HIDE DEF n, str, z, cb, eb, mb
  <1>8. PICK c : Consumes(c, cb, str, n)
    BY <1>1, <1>2, ConsumeRun
  <1>9. PICK e : Eats(e, eb, lots, n)
    BY <1>1, EatRun
  <1>10. PICK m : Matches(m, mb, lots, n, t.price, day, filer, brackets)
    BY <1>1, MatchRun
  <1> DEFINE Ok(k) == m[k].error = "none" => Follows(c[k], m[k], e[k], S, z) /\ c[k].price = t.price
             P == {k \in Nat : k <= n => Ok(k)}
  <1>11. 0 \in P
    <2>1. c[0] = cb /\ e[0] = eb /\ m[0] = mb
      BY <1>8, <1>9, <1>10 DEF Consumes, Eats, Matches
    <2> QED BY <1>7, <2>1
  <1>12. ASSUME NEW k \in Nat, k \in P PROVE k + 1 \in P
    <2> SUFFICES ASSUME k + 1 <= n, m[k + 1].error = "none"
                 PROVE  Follows(c[k + 1], m[k + 1], e[k + 1], S, z) /\ c[k + 1].price = t.price
      OBVIOUS
    <2>1. k + 1 \in 1 .. n /\ (k + 1) - 1 = k /\ k <= n
      BY <1>1
    <2>2. /\ c[k + 1] = Consume(c[k], Of(lots[k + 1])) /\ e[k + 1] = Eat(e[k], lots[k + 1])
          /\ m[k + 1] = MatchLot(m[k], lots[k + 1], t.price, day, filer, brackets)
      BY <1>2, <1>8, <1>9, <1>10, <2>1 DEF Consumes, Eats, Matches
    <2>3. m[k].error = "none"
      <3> SUFFICES ASSUME m[k].error # "none" PROVE FALSE
        OBVIOUS
      <3>1. m[k + 1] = m[k]
        BY <2>2 DEF MatchLot
      <3> QED BY <3>1
    <2>4. Follows(c[k], m[k], e[k], S, z) /\ c[k].price = t.price
      BY <1>12, <2>1, <2>3
    <2>5. lots[k + 1] \in S
      BY <1>1, <2>1
    <2>6. MatchLot(m[k], lots[k + 1], c[k].price, day, filer, brackets).error = "none"
      BY <2>2, <2>4
    <2>7. /\ Follows(Consume(c[k], Of(lots[k + 1])), MatchLot(m[k], lots[k + 1], c[k].price, day, filer, brackets),
                     Eat(e[k], lots[k + 1]), S, z)
          /\ Consume(c[k], Of(lots[k + 1])).price = c[k].price
      <3> DEFINE cc == c[k]
                 mm == m[k]
                 ee == e[k]
                 lot == lots[k + 1]
      <3>1. Follows(cc, mm, ee, S, z) /\ lot \in S /\ z \in Int
        BY <1>3, <2>4, <2>5
      <3>2. MatchLot(mm, lot, cc.price, day, filer, brackets).error = "none"
        BY <2>6
      <3> HIDE DEF cc, mm, ee, lot
      <3>3. /\ Follows(Consume(cc, Of(lot)), MatchLot(mm, lot, cc.price, day, filer, brackets), Eat(ee, lot), S, z)
            /\ Consume(cc, Of(lot)).price = cc.price
        BY <3>1, <3>2, FollowLot
      <3> QED BY <3>3 DEF cc, mm, ee, lot
    <2> QED BY <2>2, <2>4, <2>7
  <1>13. Ok(n)
    <2> HIDE DEF Ok
    <2>1. \A k \in Nat : k \in P
      <3> HIDE DEF P
      <3> QED BY <1>11, <1>12, InductionSet
    <2> QED BY <1>1, <2>1
  <1>14. /\ c[n] = acc /\ e[n] = EatAll(eb, lots)
         /\ m[n] = MatchLots(mb, lots, t.price, day, filer, brackets)
    BY <1>8, <1>9, <1>10 DEF Consumes, Eats, Matches, acc
  <1>15. m[n].error = "none"
    BY <1>14 DEF mb
  <1>16. Follows(acc, m[n], EatAll(eb, lots), S, z)
    BY <1>13, <1>14, <1>15
  <1>17. /\ acc.lots = Strip(EatAll(eb, lots).lots) /\ acc.realized \in Int
         /\ m[n].gain \in Int /\ m[n].matched \in Nat
         /\ RoundedTimes(m[n].gain, acc.realized - z, m[n].matched)
    BY <1>16 DEF Follows, Selling
  <1> HIDE DEF acc
  <1>18. m[n] = MatchLots(Start(t.qty), lots, t.price, day, filer, brackets)
    BY <1>14 DEF mb
  <1> QED BY <1>5, <1>6, <1>17, <1>18 DEF z

-----------------------------------------------------------------------------
\* A row that comes last in the order of the query is listed last.
LEMMA SortedAppend ==
    ASSUME NEW rows, NEW t, t \notin rows, Rows(rows \cup {t}),
           \A s \in rows : s \in Before(rows \cup {t}, t)
    PROVE  Sorted(rows \cup {t}) = Append(Sorted(rows), t)
  <1> DEFINE all == rows \cup {t}
             n == Cardinality(rows)
             s == Sorted(rows)
             a == Sorted(all)
  <1>1. Rows(rows) /\ IsFiniteSet(rows)
    BY FS_Subset DEF Rows
  <1>2. n \in Nat /\ Cardinality(all) = n + 1
    BY <1>1, FS_AddElement, FS_CardinalityType
  <1>3. /\ Lists(s, n, rows) /\ \A k \in 1 .. n : Cardinality(Before(rows, s[k])) = k - 1
    BY <1>1, SortedLists
  <1>4. /\ Lists(a, n + 1, all) /\ \A k \in 1 .. n + 1 : Cardinality(Before(all, a[k])) = k - 1
        /\ \A u, v \in all : u \in Before(all, v) => Cardinality(Before(all, u)) < Cardinality(Before(all, v))
    BY <1>2, SortedLists
  <1>5. \A u \in all : u.date \in Int /\ u.created \in Int
    BY DEF Rows, Trade
  <1>6. \A u, v \in all : u.created = v.created => u = v
    BY DEF Rows
  <1>7. a = [k \in 1 .. n + 1 |-> a[k]] /\ s = [k \in 1 .. n |-> s[k]]
    BY <1>2 DEF Sorted
  <1> HIDE DEF n, s, a
  <1>8. \A u \in all : Cardinality(Before(all, u)) \in Nat
    <2>1. \A u \in all : Before(all, u) \subseteq all
      BY DEF Before
    <2>2. IsFiniteSet(all)
      BY DEF Rows
    <2> HIDE DEF all
    <2> QED BY <2>1, <2>2, FS_Subset, FS_CardinalityType
  <1>9. ASSUME NEW u \in all, NEW v \in all, Cardinality(Before(all, u)) = Cardinality(Before(all, v)) PROVE u = v
    <2> SUFFICES ASSUME u # v PROVE FALSE
      OBVIOUS
    <2>1. u \in Before(all, v) \/ v \in Before(all, u)
      <3>1. u.created # v.created
        BY <1>6
      <3> HIDE DEF all
      <3> QED BY <1>5, <3>1 DEF Before
    <2> HIDE DEF all
    <2> QED BY <1>4, <1>8, <1>9, <2>1
  <1>10. ASSUME NEW u \in rows PROVE Before(all, u) = Before(rows, u)
    <2>1. u \in Before(all, t)
      OBVIOUS
    <2>2. t \notin Before(all, u)
      BY <1>5, <2>1 DEF Before
    <2> QED BY <2>2 DEF Before
  <1>11. Before(all, t) = rows
    BY <1>5 DEF Before
  <1>12. ASSUME NEW k \in 1 .. n PROVE a[k] = s[k]
    <2>1. k \in 1 .. n + 1 /\ s[k] \in rows
      BY <1>2, <1>3 DEF Lists
    <2>2. a[k] \in all /\ s[k] \in all
      BY <1>4, <2>1 DEF Lists
    <2>3. Cardinality(Before(all, a[k])) = k - 1 /\ Cardinality(Before(all, s[k])) = k - 1
      BY <1>3, <1>4, <1>10, <2>1
    <2> QED BY <1>9, <2>2, <2>3
  <1>13. a[n + 1] = t
    <2>1. n + 1 \in 1 .. n + 1 /\ (n + 1) - 1 = n /\ t \in all
      BY <1>2
    <2>2. a[n + 1] \in all /\ Cardinality(Before(all, a[n + 1])) = n
      BY <1>4, <2>1 DEF Lists
    <2>3. Cardinality(Before(all, t)) = n
      BY <1>11 DEF n
    <2> QED BY <1>9, <2>1, <2>2, <2>3
  <1>14. a = Append(s, t)
    <2>1. \A k \in 1 .. n : s[k] \in rows
      BY <1>3 DEF Lists
    <2>2. s \in Seq(all) /\ Len(s) = n /\ t \in all
      BY <1>2, <1>7, <2>1
    <2> DEFINE b == Append(s, t)
    <2>3. b \in Seq(all) /\ Len(b) = n + 1 /\ b[n + 1] = t /\ \A k \in 1 .. n : b[k] = s[k]
      <3> HIDE DEF all
      <3> QED BY <2>2
    <2>4. \A q \in Seq(all) : q = [k \in 1 .. Len(q) |-> q[k]]
      OBVIOUS
    <2>5. b = [k \in 1 .. n + 1 |-> b[k]]
      <3> HIDE DEF b
      <3> QED BY <2>3, <2>4
    <2> HIDE DEF b
    <2>6. \A k \in 1 .. n + 1 : k \in 1 .. n \/ k = n + 1
      BY <1>2
    <2>7. \A k \in 1 .. n + 1 : b[k] = a[k]
      BY <1>12, <1>13, <2>3, <2>6
    <2>8. a = b
      BY <1>7, <2>5, <2>7
    <2> QED BY <2>8 DEF b
  <1> QED BY <1>14 DEF a, s

\* No two lots of one day.
OneLotADay(rows) == \A s, t \in Acquisitions(rows) : s.date = t.date => s = t

\* Then the query's order is the order of match_fifo.
LEMMA SortedInOrder ==
    ASSUME NEW rows, Rows(rows), \A s, t \in rows : s.date = t.date => s = t
    PROVE  InOrder(Sorted(rows))
  <1> DEFINE s == Sorted(rows)
             n == Cardinality(rows)
  <1>1. Lists(s, n, rows) /\ \A k \in 1 .. n : Cardinality(Before(rows, s[k])) = k - 1
    BY SortedLists
  <1>2. \A u, v \in rows : u \in Before(rows, v) => Cardinality(Before(rows, u)) < Cardinality(Before(rows, v))
    BY SortedLists
  <1> HIDE DEF s, n
  <1>3. n \in Nat /\ DOMAIN s = 1 .. n /\ \A k \in 1 .. n : s[k] \in rows
    BY <1>1 DEF Lists
  <1>4. ASSUME NEW j \in 1 .. n, NEW k \in 1 .. n, j < k, OlderLot(s[k], s[j]) PROVE FALSE
    <2>1. CASE s[k].date = s[j].date
      <3>1. s[k] = s[j]
        BY <1>3, <2>1
      <3>2. k = j
        BY <1>1, <3>1 DEF Lists
      <3> QED BY <1>4, <3>2
    <2>2. CASE s[k].date < s[j].date
      <3>1. s[k] \in Before(rows, s[j])
        BY <1>3, <2>2 DEF Before
      <3>2. Cardinality(Before(rows, s[k])) < Cardinality(Before(rows, s[j]))
        BY <1>2, <1>3, <3>1
      <3>3. k - 1 < j - 1
        BY <1>1, <3>2
      <3> QED BY <1>3, <1>4, <3>3
    <2> QED BY <1>4, <2>1, <2>2 DEF OlderLot
  <1>5. InOrder(s)
    BY <1>3, <1>4 DEF InOrder
  <1> QED BY <1>5 DEF s

LEMMA PartPrices ==
    ASSUME NEW rows, Rows(rows)
    PROVE  /\ Priced(Parts(rows)) /\ Splits(Parts(rows))
           /\ \A t \in rows : [t EXCEPT !.qty = t.qty] = t
  <1>1. ASSUME NEW t \in rows
        PROVE  /\ t = [c \in RowColumns |-> t[c]] /\ t.price \in Nat /\ t.price \in Int
               /\ [t EXCEPT !.qty = t.qty] = t
               /\ \A j \in Nat : LET x == [t EXCEPT !.qty = j]
                                IN  /\ x.date = t.date /\ x.id = t.id /\ x.price = t.price
                                    /\ \A i \in Nat : [x EXCEPT !.qty = i] = [t EXCEPT !.qty = i]
    <2>1. t = [c \in RowColumns |-> t[c]] /\ t.price \in Nat /\ t.price \in Int
      BY DEF Rows, Trade
    <2>2. t = [t EXCEPT !.qty = t.qty]
      BY <2>1 DEF RowColumns
    <2>3. ASSUME NEW j \in Nat
          PROVE  LET x == [t EXCEPT !.qty = j]
                 IN  /\ x.date = t.date /\ x.id = t.id /\ x.price = t.price
                     /\ \A i \in Nat : [x EXCEPT !.qty = i] = [t EXCEPT !.qty = i]
      BY <2>1 DEF RowColumns
    <2> QED BY <2>1, <2>2, <2>3
  <1>2. ASSUME NEW x \in Parts(rows)
        PROVE  /\ x.price \in Nat /\ x.price \in Int
               /\ \A i \in Nat : LET y == [x EXCEPT !.qty = i]
                                IN  y.date = x.date /\ y.id = x.id /\ y.price = x.price
    <2>1. PICK t \in rows, j \in Nat : x = [t EXCEPT !.qty = j]
      BY DEF Parts
    <2>2. x.date = t.date /\ x.id = t.id /\ x.price = t.price /\ t.price \in Nat /\ t.price \in Int
      BY <1>1, <2>1
    <2>3. ASSUME NEW i \in Nat
          PROVE  LET y == [x EXCEPT !.qty = i] IN y.date = t.date /\ y.id = t.id /\ y.price = t.price
      <3>1. [x EXCEPT !.qty = i] = [t EXCEPT !.qty = i]
        BY <1>1, <2>1
      <3>2. LET y == [t EXCEPT !.qty = i] IN y.date = t.date /\ y.id = t.id /\ y.price = t.price
        BY <1>1
      <3> QED BY <3>1, <3>2
    <2> QED BY <2>2, <2>3
  <1> QED BY <1>1, <1>2 DEF Priced, Splits

-----------------------------------------------------------------------------
\* The open lots the tax engine works on, and the gains the sells were taxed on.
LotsOf(rows) == OpenLots(Sorted(Acquisitions(rows)), Quantity(Sells(rows)))
Gains(rows) == SumFunction([t \in Sells(rows) |-> t.gain])
Roundings(rows) == SumFunction([t \in Sells(rows) |-> t.matched])

\* A sell that was matched against the history rows.
MatchedWith(t, rows) ==
    LET m == MatchSell(t, Acquisitions(rows), Sells(rows))
    IN  m.error = "none" /\ t.gain = m.gain /\ t.cgt = m.cgt /\ t.matched = m.matched

LEMMA SellFollows ==
    ASSUME NEW rows, Rows(rows), Covered(rows), OneLotADay(rows), NEW t, t.qty \in Nat, t.price \in Nat,
           MatchedWith(t, rows), NEW w \in Walker, w.lots = Strip(LotsOf(rows))
    PROVE  LET v == WalkSell(w, t)
           IN  /\ v.lots = Strip(OpenLots(LotsOf(rows), t.qty)) /\ v.realized \in Int
               /\ t.gain \in Int /\ t.matched \in Nat
               /\ RoundedTimes(t.gain, v.realized - w.realized, t.matched)
  <1> DEFINE acq == Acquisitions(rows)
             sold == Quantity(Sells(rows))
             lots == LotsOf(rows)
             S == Parts(acq)
             m == MatchLots(Start(t.qty), lots, t.price, t.date, Filer, SeedBrackets)
             res == MatchSell(t, acq, Sells(rows))
  <1>1. Rows(acq) /\ \A u, v \in acq : u.date = v.date => u = v
    BY FS_Subset DEF Rows, Acquisitions, OneLotADay
  <1>2. sold \in Nat
    BY SoldSums
  <1>3. /\ Cuttable(S) /\ Datable(S) /\ Priced(S) /\ Splits(S) /\ Sorted(acq) \in Seq(S) /\ InOrder(Sorted(acq))
    BY <1>1, PartFacts, PartPrices, ListedHeld, SortedInOrder
  <1>4. lots \in Seq(S) /\ InOrder(lots)
    <2> HIDE DEF S
    <2> QED BY <1>2, <1>3, OpenLotsHeld, OpenLotsInOrder DEF LotsOf
  <1>5. /\ res = match_fifo(lots, t.qty, t.price, t.date, Filer, SeedBrackets) /\ res.error = "none"
        /\ t.gain = res.gain /\ t.matched = res.matched
    BY DEF MatchSell, LotsOf, MatchedWith
  <1> HIDE DEF S, lots, res, acq, sold
  <1>6. OldestFirst(lots) = lots
    BY <1>3, <1>4, InOrderStays
  <1>7. res = IF m.error = "none" /\ m.remaining > 0 THEN [m EXCEPT !.error = "insufficient"] ELSE m
    BY <1>5, <1>6 DEF match_fifo, Start
  <1>8. MatchState(m)
    BY <1>3, <1>4, MatchNeeds DEF Start
  <1> HIDE DEF m
  <1>9. res = m
    <2>1. [m EXCEPT !.error = "insufficient"].error = "insufficient"
      BY <1>8 DEF MatchState
    <2> QED BY <1>5, <1>7, <2>1
  <1>10. m.error = "none" /\ t.gain = m.gain /\ t.matched = m.matched
    BY <1>5, <1>9
  <1>11. /\ WalkSell(w, t).lots = Strip(OpenLots(lots, t.qty)) /\ WalkSell(w, t).realized \in Int
         /\ m.gain \in Int /\ m.matched \in Nat
         /\ RoundedTimes(m.gain, WalkSell(w, t).realized - w.realized, m.matched)
    <2>1. w.lots = Strip(lots)
      BY DEF lots
    <2>2. MatchLots(Start(t.qty), lots, t.price, t.date, Filer, SeedBrackets).error = "none"
      BY <1>10 DEF m
    <2> QED BY <1>3, <1>4, <2>1, <2>2, FollowSell DEF m
  <1> QED BY <1>10, <1>11 DEF lots

\* A column summed over the sells, and one more sell.
SellSum(rows, c) == SumFunction([t \in Sells(rows) |-> t[c]])

LEMMA OneMoreSell ==
    ASSUME NEW rows, IsFiniteSet(rows), NEW t, t \notin rows, NEW c,
           \A s \in Sells(rows \cup {t}) : s[c] \in Int
    PROVE  SellSum(rows \cup {t}, c) = IF t.kind = "sell" THEN SellSum(rows, c) + t[c] ELSE SellSum(rows, c)
  <1> DEFINE all == rows \cup {t}
             f == [s \in Sells(all) |-> s[c]]
             g == [s \in Sells(rows) |-> s[c]]
  <1>1. SellSum(all, c) = SumFunctionOnSet(f, Sells(all)) /\ SellSum(rows, c) = SumFunctionOnSet(g, Sells(rows))
    BY DEF SellSum, SumFunction
  <1>2. IsFiniteSet(Sells(rows)) /\ Sells(rows) \subseteq Sells(all) /\ t \notin Sells(rows)
    BY FS_Subset DEF Sells
  <1>3. CASE t.kind # "sell"
    <2>1. Sells(all) = Sells(rows)
      BY <1>3 DEF Sells
    <2> QED BY <1>3, <2>1 DEF SellSum
  <1>4. CASE t.kind = "sell"
    <2>1. Sells(all) = Sells(rows) \cup {t}
      BY <1>4 DEF Sells
    <2>2. \A s \in Sells(rows) \cup {t} : f[s] = s[c] /\ f[s] \in Int
      BY <2>1
    <2>3. \A s \in Sells(rows) : g[s] \in Int /\ f[s] = g[s]
      BY <2>1, <2>2
    <2> HIDE DEF f, g
    <2>4. /\ SumFunctionOnSet(f, Sells(rows) \cup {t}) = f[t] + SumFunctionOnSet(f, Sells(rows))
          /\ SumFunctionOnSet(f, Sells(rows)) \in Int
      BY <1>2, <2>2, SumAdd
    <2>5. SumFunctionOnSet(f, Sells(rows)) = SumFunctionOnSet(g, Sells(rows))
      BY <1>2, <2>3, SumAgree
    <2>6. f[t] = t[c] /\ f[t] \in Int
      BY <2>2
    <2>7. SellSum(all, c) = SellSum(rows, c) + t[c]
      <3> DEFINE a == SumFunctionOnSet(f, Sells(rows))
                 x == f[t]
      <3>1. SellSum(all, c) = x + a /\ SellSum(rows, c) = a /\ a \in Int /\ x \in Int /\ x = t[c]
        BY <1>1, <2>1, <2>4, <2>5, <2>6
      <3> HIDE DEF a, x
      <3> QED BY <3>1
    <2> QED BY <1>4, <2>7
  <1> QED BY <1>3, <1>4

LEMMA OneMoreGain ==
    ASSUME NEW rows, IsFiniteSet(rows), NEW t, t \notin rows, \A s \in Sells(rows \cup {t}) : s.gain \in Int
    PROVE  Gains(rows \cup {t}) = IF t.kind = "sell" THEN Gains(rows) + t.gain ELSE Gains(rows)
  <1>1. \A R : Gains(R) = SellSum(R, "gain")
    BY DEF Gains, SellSum
  <1> QED BY <1>1, OneMoreSell

LEMMA OneMoreRounding ==
    ASSUME NEW rows, IsFiniteSet(rows), NEW t, t \notin rows, \A s \in Sells(rows \cup {t}) : s.matched \in Int
    PROVE  Roundings(rows \cup {t}) = IF t.kind = "sell" THEN Roundings(rows) + t.matched ELSE Roundings(rows)
  <1>1. \A R : Roundings(R) = SellSum(R, "matched")
    BY DEF Roundings, SellSum
  <1> QED BY <1>1, OneMoreSell

\* One more trade, the last in the order of the query: what it does to the lots.
LEMMA LotsGrow ==
    ASSUME NEW rows, NEW t, t \notin rows, Rows(rows \cup {t}), \A s \in rows : s \in Before(rows \cup {t}, t),
           Covered(rows)
    PROVE  /\ t.kind = "sell" => LotsOf(rows \cup {t}) = OpenLots(LotsOf(rows), t.qty)
           /\ t.kind = "dividend" => LotsOf(rows \cup {t}) = LotsOf(rows)
           /\ t.kind \in Acquired => LotsOf(rows \cup {t}) = Append(LotsOf(rows), t)
           /\ LotsOf(rows) \in Seq(Parts(rows)) /\ t \in Parts(rows \cup {t})
  <1> DEFINE all == rows \cup {t}
             acq == Acquisitions(rows)
             sold == Quantity(Sells(rows))
             L == Sorted(acq)
  <1>1. Rows(rows) /\ IsFiniteSet(rows) /\ Trade(t)
    BY FS_Subset DEF Rows
  <1>2. t.qty \in Nat /\ t.qty > 0
    BY <1>1 DEF Trade
  <1>3. Rows(acq) /\ sold \in Nat /\ LotsOf(rows) = OpenLots(L, sold)
    BY <1>1, FS_Subset, SoldSums DEF Rows, Acquisitions, LotsOf
  <1>4. Cuttable(Parts(acq)) /\ L \in Seq(Parts(acq)) /\ HeldIn(L) = Quantity(acq)
    BY <1>3, PartFacts, ListedHeld
  <1>5. LotsOf(rows) \in Seq(Parts(rows)) /\ t \in Parts(all)
    <2>1. OpenLots(L, sold) \in Seq(Parts(acq))
      <3> HIDE DEF L, acq, sold
      <3> QED BY <1>3, <1>4, OpenLotsHeld
    <2>2. Parts(acq) \subseteq Parts(rows)
      BY DEF Parts, Acquisitions
    <2>3. t \in Parts(all)
      BY PartFacts
    <2> HIDE DEF acq, L, sold
    <2> QED BY <1>3, <2>1, <2>2, <2>3
  <1>6. ASSUME t.kind = "sell" PROVE LotsOf(all) = OpenLots(LotsOf(rows), t.qty)
    <2>1. Acquisitions(all) = acq /\ Sold(t) = t.qty
      BY <1>6 DEF Acquisitions, Sold
    <2>2. Quantity(Sells(all)) = sold + t.qty
      <3>1. Quantity(Sells(all)) = Sold(t) + sold
        BY OneMoreTrade
      <3> HIDE DEF sold, all
      <3> QED BY <1>2, <1>3, <2>1, <3>1
    <2>3. OpenLots(OpenLots(L, sold), t.qty) = OpenLots(L, sold + t.qty)
      <3> HIDE DEF L, acq, sold
      <3> QED BY <1>2, <1>3, <1>4, EatTwice
    <2> QED BY <1>3, <2>1, <2>2, <2>3 DEF LotsOf
  <1>7. ASSUME t.kind = "dividend" PROVE LotsOf(all) = LotsOf(rows)
    <2>1. Acquisitions(all) = acq /\ Sells(all) = Sells(rows)
      BY <1>7 DEF Acquisitions, Sells
    <2> QED BY <2>1 DEF LotsOf
  <1>8. ASSUME t.kind \in Acquired PROVE LotsOf(all) = Append(LotsOf(rows), t)
    <2> DEFINE more == acq \cup {t}
               S == Parts(more)
    <2>1. Acquisitions(all) = more /\ Sells(all) = Sells(rows) /\ t \notin acq /\ acq \subseteq rows
      BY <1>8 DEF Acquisitions, Acquired, Sells
    <2>2. Rows(more)
      <3>1. more \subseteq all
        BY <2>1
      <3> HIDE DEF more, acq
      <3> QED BY <3>1, FS_Subset DEF Rows
    <2>3. \A s \in acq : s \in Before(more, t)
      BY <2>1 DEF Before
    <2>4. Sorted(more) = Append(L, t)
      <3> HIDE DEF acq
      <3> QED BY <2>1, <2>2, <2>3, SortedAppend
    <2>5. Cuttable(S) /\ t \in S /\ [t EXCEPT !.qty = t.qty] = t
      BY <2>2, PartFacts, PartPrices
    <2>6. L \in Seq(S)
      <3>1. Parts(acq) \subseteq S
        BY DEF Parts
      <3> HIDE DEF L, S, acq
      <3> QED BY <1>4, <3>1
    <2>7. sold <= HeldIn(L)
      BY <1>4 DEF Covered
    <2> HIDE DEF S, L, sold, more, acq
    <2>8. OpenLots(Append(L, t), sold) = Append(OpenLots(L, sold), t)
      BY <1>2, <1>3, <2>5, <2>6, <2>7, OpenAppend
    <2> QED BY <1>3, <2>1, <2>4, <2>8 DEF LotsOf, sold
  <1> QED BY <1>5, <1>6, <1>7, <1>8

\* The walk and the books of the tax engine after the trades rows.
Agrees(w, rows) ==
    /\ w \in Walker /\ w.lots = Strip(LotsOf(rows))
    /\ Gains(rows) \in Int /\ Roundings(rows) \in Nat
    /\ RoundedTimes(Gains(rows), w.realized, Roundings(rows))
    /\ \A s \in Sells(rows) : s.gain \in Int /\ s.matched \in Nat

LEMMA AgreeRow ==
    ASSUME NEW rows, NEW t, t \notin rows, Rows(rows \cup {t}), \A s \in rows : s \in Before(rows \cup {t}, t),
           OneLotADay(rows \cup {t}), Covered(rows), t.kind = "sell" => MatchedWith(t, rows),
           NEW w, Agrees(w, rows)
    PROVE  Agrees(Walk(w, t), rows \cup {t})
  <1> DEFINE all == rows \cup {t}
             lots == LotsOf(rows)
             S == Parts(all)
  <1>1. Rows(rows) /\ IsFiniteSet(rows) /\ Trade(t) /\ OneLotADay(rows)
    BY FS_Subset DEF Rows, OneLotADay, Acquisitions
  <1>2. t.qty \in Nat /\ t.qty > 0 /\ t.price \in Nat
    BY <1>1 DEF Trade
  <1>3. /\ w \in Walker /\ w.lots = Strip(lots) /\ Gains(rows) \in Int /\ Roundings(rows) \in Nat
        /\ \A s \in Sells(rows) : s.gain \in Int /\ s.matched \in Nat
    BY DEF Agrees
  <1>4. Walk(w, t) \in Walker
    BY <1>1, <1>3, WalkRow
  <1>5. /\ t.kind = "sell" => LotsOf(all) = OpenLots(lots, t.qty)
        /\ t.kind = "dividend" => LotsOf(all) = lots
        /\ t.kind \in Acquired => LotsOf(all) = Append(lots, t)
        /\ lots \in Seq(Parts(rows)) /\ t \in S
    BY LotsGrow
  <1>6. w.realized \in Int /\ w = [lots |-> w.lots, realized |-> w.realized, invested |-> w.invested, dividends |-> w.dividends]
    BY <1>3 DEF Walker
  <1>7. CASE t.kind = "sell"
    <2>1. Walk(w, t) = WalkSell(w, t)
      BY <1>7 DEF Walk
    <2>2. /\ WalkSell(w, t).lots = Strip(OpenLots(lots, t.qty)) /\ WalkSell(w, t).realized \in Int
          /\ t.gain \in Int /\ t.matched \in Nat
          /\ RoundedTimes(t.gain, WalkSell(w, t).realized - w.realized, t.matched)
      BY <1>1, <1>2, <1>3, <1>7, SellFollows
    <2>3. \A s \in Sells(all) : s.gain \in Int /\ s.matched \in Nat
      BY <1>3, <2>2 DEF Sells
    <2>4. Gains(all) = Gains(rows) + t.gain
      BY <1>1, <1>7, <2>3, OneMoreGain
    <2>5. Roundings(all) = Roundings(rows) + t.matched
      <3>1. \A s \in Sells(all) : s.matched \in Int
        BY <2>3
      <3> QED BY <1>1, <1>7, <3>1, OneMoreRounding
    <2> HIDE DEF lots
    <2> DEFINE a == WalkSell(w, t).realized
               b == w.realized
               g == Gains(rows)
               n == Roundings(rows)
    <2>6. a \in Int /\ b \in Int /\ g \in Int /\ n \in Nat
      BY <1>3, <1>6, <2>2
    <2>7. RoundedTimes(g, b, n)
      BY DEF Agrees
    <2>8. RoundedTimes(t.gain, a - b, t.matched)
      BY <2>2
    <2> HIDE DEF a, b, g, n
    <2>9. a - b \in Int /\ b + (a - b) = a
      BY <2>6
    <2>10. RoundedTimes(g + t.gain, b + (a - b), n + t.matched)
      BY <2>2, <2>6, <2>7, <2>8, <2>9, RoundedSum
    <2>11. RoundedTimes(Gains(all), Walk(w, t).realized, Roundings(all))
      BY <2>1, <2>4, <2>5, <2>9, <2>10 DEF a, g, n
    <2>12. Gains(all) \in Int /\ Roundings(all) \in Nat
      BY <2>2, <2>4, <2>5, <2>6 DEF g, n
    <2>13. Walk(w, t).lots = Strip(LotsOf(all))
      BY <1>5, <1>7, <2>1, <2>2
    <2> QED BY <1>4, <2>3, <2>11, <2>12, <2>13 DEF Agrees
  <1>8. CASE t.kind # "sell"
    <2>1. Sells(all) = Sells(rows)
      BY <1>8 DEF Sells
    <2>2. \A s \in Sells(all) : s.gain \in Int /\ s.matched \in Nat
      BY <1>3, <2>1
    <2>3. Gains(all) = Gains(rows) /\ Roundings(all) = Roundings(rows)
      BY <2>1 DEF Gains, Roundings
    <2>4. CASE t.kind = "dividend"
      <3>1. Walk(w, t).lots = w.lots /\ Walk(w, t).realized = w.realized
        BY <1>6, <2>4 DEF Walk
      <3> HIDE DEF lots
      <3> QED BY <1>3, <1>4, <1>5, <2>2, <2>3, <2>4, <3>1 DEF Agrees
    <2>5. CASE t.kind \in Acquired
      <3>1. Cuttable(S) /\ Priced(S) /\ lots \in Seq(S) /\ t \in S
        <4>1. Parts(rows) \subseteq S
          BY DEF Parts
        <4>2. Cuttable(S) /\ Priced(S)
          BY PartFacts, PartPrices
        <4> HIDE DEF lots, S
        <4> QED BY <1>5, <4>1, <4>2
      <3> HIDE DEF lots, S
      <3>2. Strip(Append(lots, t)) = Append(w.lots, Of(t))
        BY <1>3, <3>1, StripFacts
      <3>3. Walk(w, t).lots = Append(w.lots, Of(t)) /\ Walk(w, t).realized = w.realized
        BY <1>6, <2>5 DEF Walk, Of, Acquired
      <3> QED BY <1>3, <1>4, <1>5, <2>2, <2>3, <2>5, <3>2, <3>3 DEF Agrees
    <2> QED BY <1>1, <1>8, <2>4, <2>5 DEF Trade
  <1> QED BY <1>7, <1>8

\* Before any trade the two agree.
LEMMA AgreeEmpty == Covered({}) /\ Agrees(NoWalk, {}) /\ LotsOf({}) = << >>
  <1>1. Sells({}) = {} /\ Acquisitions({}) = {} /\ Cardinality({}) = 0
    BY FS_EmptySet DEF Sells, Acquisitions
  <1>2. Quantity({}) = 0 /\ Gains({}) = 0 /\ Roundings({}) = 0
    <2>1. /\ DOMAIN [t \in {} |-> t.qty] = {} /\ DOMAIN [t \in {} |-> t.gain] = {}
          /\ DOMAIN [t \in {} |-> t.matched] = {}
      OBVIOUS
    <2> QED BY <1>1, <2>1, SumEmpty DEF Quantity, Gains, Roundings, SumFunction
  <1>3. Sorted({}) = << >>
    BY <1>1 DEF Sorted
  <1>4. LotsOf({}) = << >>
    <2>1. LotsOf({}) = OpenLots(<< >>, 0)
      BY <1>1, <1>2, <1>3 DEF LotsOf
    <2>2. OpenLots(<< >>, 0) = EatAll([left |-> 0, lots |-> << >>], << >>).lots
      BY DEF OpenLots, EatAll
    <2> QED BY <2>1, <2>2, EatNothing
  <1>5. Strip(<< >>) = << >>
    BY DEF Strip
  <1>6. NoWalk \in Walker /\ NoWalk.lots = << >> /\ NoWalk.realized = 0
    BY DEF NoWalk, Walker
  <1>7. Covered({})
    BY <1>1, <1>2 DEF Covered
  <1>8. NoWalk.lots = Strip(LotsOf({})) /\ RoundedTimes(Gains({}), NoWalk.realized, Roundings({}))
    BY <1>2, <1>4, <1>5, <1>6, RoundedNone
  <1>9. /\ \A s \in Sells({}) : s.gain \in Int /\ s.matched \in Nat
        /\ Gains({}) \in Int /\ Roundings({}) \in Nat
    BY <1>1, <1>2
  <1> QED BY <1>4, <1>6, <1>7, <1>8, <1>9 DEF Agrees

\* The rows of a history one by one: each comes after those before it.
LEMMA NextRow ==
    ASSUME NEW rows, Rows(rows), NEW n, n = Cardinality(rows), NEW seq, seq = Sorted(rows),
           NEW k \in Nat, k + 1 <= n
    PROVE  LET t == seq[k + 1]
               pre == First(seq, k)
           IN  /\ First(seq, k + 1) = pre \cup {t} /\ pre \cup {t} \subseteq rows /\ t \notin pre
               /\ Rows(pre \cup {t}) /\ \A s \in pre : s \in Before(pre \cup {t}, t)
  <1> DEFINE t == seq[k + 1]
             pre == First(seq, k)
             all == pre \cup {t}
  <1>1. Lists(seq, n, rows) /\ \A i \in 1 .. n : Cardinality(Before(rows, seq[i])) = i - 1
    BY SortedLists
  <1>2. \A u, v \in rows : u \in Before(rows, v) => Cardinality(Before(rows, u)) < Cardinality(Before(rows, v))
    BY SortedLists
  <1>3. n \in Nat /\ \A i \in 1 .. n : seq[i] \in rows
    BY <1>1 DEF Lists
  <1>4. k + 1 \in 1 .. n /\ \A j \in 1 .. k : j \in 1 .. n /\ j < k + 1
    BY <1>3
  <1>5. ASSUME NEW i \in 1 .. k PROVE seq[i] # t /\ seq[i] \in Before(rows, t)
    <2> DEFINE s == seq[i]
    <2>1. s \in rows /\ t \in rows /\ Cardinality(Before(rows, s)) = i - 1 /\ Cardinality(Before(rows, t)) = (k + 1) - 1
      BY <1>1, <1>3, <1>4
    <2> HIDE DEF s, t
    <2>2. ~(t \in Before(rows, s)) /\ s # t
      BY <1>2, <2>1
    <2>3. s.created # t.created /\ s.created \in Nat /\ t.created \in Nat /\ s.date \in Int /\ t.date \in Int
      BY <2>1, <2>2 DEF Rows, Trade
    <2>4. s \in Before(rows, t)
      BY <2>1, <2>2, <2>3 DEF Before
    <2> QED BY <2>2, <2>4 DEF s, t
  <1>6. First(seq, k + 1) = all
    <2>1. 1 .. k + 1 = (1 .. k) \cup {k + 1}
      OBVIOUS
    <2> QED BY <2>1 DEF First
  <1>7. all \subseteq rows
    BY <1>3, <1>4 DEF First
  <1>8. t \notin pre /\ \A s \in pre : s \in Before(rows, t)
    BY <1>5 DEF First
  <1>9. Rows(all)
    <2> HIDE DEF all
    <2> QED BY <1>7, FS_Subset DEF Rows
  <1>10. \A s \in pre : s \in Before(all, t)
    BY <1>8 DEF Before
  <1> QED BY <1>6, <1>7, <1>8, <1>9, <1>10

(***************************************************************************)
(* A history in date order, with one lot a day, in which every sell was    *)
(* matched against the trades before it: the walk realizes the gains.      *)
(***************************************************************************)
LEMMA WalkReconciles ==
    ASSUME NEW rows, Rows(rows), OneLotADay(rows), NEW n, n = Cardinality(rows),
           NEW seq, seq = Sorted(rows),
           \A k \in 1 .. n : Covered(First(seq, k)),
           \A k \in 1 .. n : seq[k].kind = "sell" => MatchedWith(seq[k], First(seq, k - 1))
    PROVE  /\ WalkAll(NoWalk, seq).realized \in Int /\ Gains(rows) \in Int /\ Roundings(rows) \in Nat
           /\ RoundedTimes(Gains(rows), WalkAll(NoWalk, seq).realized, Roundings(rows))
  <1>1. Lists(seq, n, rows) /\ n \in Nat /\ DOMAIN seq = 1 .. n
    <2>1. Lists(seq, n, rows)
      BY SortedLists
    <2> QED BY <2>1 DEF Lists
  <1>2. PICK run : Walks(run, NoWalk, seq, n)
    BY <1>1, WalkRun
  <1> DEFINE P == {k \in Nat : k <= n => Agrees(run[k], First(seq, k))}
  <1>3. 0 \in P
    <2>1. run[0] = NoWalk /\ First(seq, 0) = {}
      BY <1>2 DEF Walks, First
    <2> QED BY <2>1, AgreeEmpty
  <1>4. ASSUME NEW k \in Nat, k \in P PROVE k + 1 \in P
    <2> SUFFICES ASSUME k + 1 <= n PROVE Agrees(run[k + 1], First(seq, k + 1))
      OBVIOUS
    <2> DEFINE pre == First(seq, k)
               t == seq[k + 1]
               w == run[k]
    <2>1. k + 1 \in 1 .. n /\ (k + 1) - 1 = k /\ k <= n
      BY <1>1
    <2>2. Agrees(w, pre) /\ run[k + 1] = Walk(w, t)
      BY <1>2, <1>4, <2>1 DEF Walks
    <2>3. /\ First(seq, k + 1) = pre \cup {t} /\ pre \cup {t} \subseteq rows /\ t \notin pre
          /\ Rows(pre \cup {t}) /\ \A s \in pre : s \in Before(pre \cup {t}, t)
      BY NextRow
    <2>4. t.kind = "sell" => MatchedWith(t, pre)
      BY <2>1
    <2>5. Covered(pre)
      <3>1. CASE k = 0
        <4>1. pre = {}
          BY <3>1 DEF First
        <4> HIDE DEF pre
        <4> QED BY <4>1, AgreeEmpty
      <3>2. CASE k # 0
        BY <2>1, <3>2
      <3> QED BY <3>1, <3>2
    <2> HIDE DEF pre, t, w
    <2>6. OneLotADay(pre \cup {t})
      BY <2>3 DEF OneLotADay, Acquisitions
    <2>7. Agrees(Walk(w, t), pre \cup {t})
      BY <2>2, <2>3, <2>4, <2>5, <2>6, AgreeRow
    <2> QED BY <2>2, <2>3, <2>7
  <1>5. Agrees(run[n], First(seq, n))
    <2>1. \A k \in Nat : k \in P
      <3> HIDE DEF P
      <3> QED BY <1>3, <1>4, InductionSet
    <2> QED BY <1>1, <2>1
  <1>6. First(seq, n) = rows
    BY <1>1 DEF First, Lists
  <1>7. run[n] = WalkAll(NoWalk, seq)
    BY <1>2 DEF Walks
  <1> QED BY <1>5, <1>6, <1>7 DEF Agrees, Walker

-----------------------------------------------------------------------------
(***************************************************************************)
(* Every sell keeps the gain and the tax of the match against the trades   *)
(* created before it, the sell under way those of the committed trades.    *)
(***************************************************************************)
GainInv ==
    /\ \A t \in transactions : t.kind = "sell" => MatchedWith(t, Until(t.created))
    /\ \A r \in Requests :
         pc[r] \in {"insert", "select_snapshot", "flush", "commit"} /\ row[r].kind = "sell" =>
           MatchedWith(row[r], transactions)

LEMMA NextGain ==
    ASSUME BackInv, SellInv, GainInv, Serial, [Next]_vars
    PROVE  GainInv'
  <1>0. DOMAIN pc = Requests /\ DOMAIN row = Requests
    BY DEF BackInv, HealInv, Domains
  <1>1. ASSUME UNCHANGED transactions
        PROVE  (\A t \in transactions : t.kind = "sell" => MatchedWith(t, Until(t.created)))'
    BY <1>1 DEF GainInv, Until
  <1>2. CASE UNCHANGED vars
    BY <1>1, <1>2 DEF vars, GainInv
  <1>3. ASSUME NEW r \in Requests, End(r), UNCHANGED transactions PROVE GainInv'
    <2>1. \A q \in Requests : pc'[q] # "idle" => row'[q] = row[q] /\ pc'[q] = pc[q]
      BY <1>0, <1>3 DEF End
    <2> QED BY <1>1, <1>3, <2>1 DEF GainInv
  <1>4. ASSUME NEW r \in Requests, NEW id, NEW kind, NEW day, NEW qty, NEW price,
               Submit(r, id, kind, day, qty, price)
        PROVE  GainInv'
    <2>1. /\ UNCHANGED transactions /\ pc'[r] = (IF kind = "sell" THEN "select_buys" ELSE "insert")
          /\ row'[r].kind = kind /\ \A q \in Requests : q # r => pc'[q] = pc[q] /\ row'[q] = row[q]
      BY <1>0, <1>4 DEF Submit, tables
    <2> QED BY <1>1, <2>1 DEF GainInv
  <1>5. ASSUME NEW r \in Requests, SelectBuys(r) PROVE GainInv'
    <2>1. /\ UNCHANGED <<transactions, row>> /\ pc'[r] = "select_sells"
          /\ \A q \in Requests : q # r => pc'[q] = pc[q]
      BY <1>0, <1>5 DEF SelectBuys, tables
    <2> QED BY <1>1, <2>1 DEF GainInv
  <1>6. ASSUME NEW r \in Requests, SelectSells(r), ~End(r) PROVE GainInv'
    <2> DEFINE m == MatchSell(row[r], Acquisitions(transactions), Sells(transactions))
    <2>1. /\ UNCHANGED transactions /\ Busy(r) /\ pc'[r] = "insert"
          /\ \A q \in Requests : q # r => pc'[q] = pc[q] /\ row'[q] = row[q]
          /\ buys[r] = Acquisitions(transactions)
      BY <1>0, <1>6 DEF SelectSells, tables, Busy, SellInv
    <2>2. row[r] = [c \in RowColumns |-> row[r][c]]
      BY <2>1 DEF BackInv, RowsOK, Trade
    <2>3. m = MatchSell(row[r], buys[r], Sells(transactions))
      BY <2>1
    <2>4. /\ m.error = "none"
          /\ row'[r].qty = row[r].qty /\ row'[r].price = row[r].price /\ row'[r].date = row[r].date
          /\ row'[r].gain = m.gain /\ row'[r].cgt = m.cgt /\ row'[r].matched = m.matched
      <3> HIDE DEF m
      <3> QED BY <1>0, <1>6, <2>2, <2>3, SellFilled
    <2>5. MatchSell(row'[r], Acquisitions(transactions), Sells(transactions)) = m
      BY <2>4 DEF MatchSell
    <2>6. MatchedWith(row'[r], transactions)
      BY <2>2, <2>4, <2>5 DEF MatchedWith
    <2> QED BY <1>1, <2>1, <2>6 DEF GainInv
  <1>7. ASSUME NEW r \in Requests, InsertAndWalk(r) \/ SelectSnapshot(r) \/ Flush(r), ~End(r) PROVE GainInv'
    <2>1. /\ UNCHANGED <<transactions, row>>
          /\ pc[r] \in {"insert", "select_snapshot", "flush"}
          /\ \A q \in Requests : q # r => pc'[q] = pc[q]
      BY <1>0, <1>7 DEF InsertAndWalk, SelectSnapshot, Flush, tables
    <2> QED BY <1>1, <2>1 DEF GainInv
  <1>8. ASSUME NEW r \in Requests, Commit(r) PROVE GainInv'
    <2>1. Busy(r) /\ pc[r] = "commit" /\ transactions' = transactions \cup {row[r]} /\ End(r)
      BY <1>8 DEF Commit, Busy
    <2>2. \A q \in Requests : pc'[q] = "idle"
      BY <1>0, <2>1 DEF Serial, Busy, End
    <2>3. /\ \A t \in transactions : t.created < row[r].created /\ t.created \in Nat
          /\ row[r].created \in Nat
      BY <2>1 DEF SellInv, BackInv, RowsOK, Rows, Trade
    <2>4. ASSUME NEW t \in transactions', t.kind = "sell" PROVE MatchedWith(t, Until(t.created)')
      <3>1. CASE t = row[r]
        <4>1. Until(t.created)' = transactions
          BY <2>1, <2>3, <3>1 DEF Until
        <4>2. MatchedWith(t, transactions)
          BY <2>1, <2>4, <3>1 DEF GainInv
        <4> QED BY <4>1, <4>2
      <3>2. CASE t \in transactions
        <4>1. Until(t.created)' = Until(t.created)
          BY <2>1, <2>3, <3>2 DEF Until
        <4>2. MatchedWith(t, Until(t.created))
          BY <2>4, <3>2 DEF GainInv
        <4> QED BY <4>1, <4>2
      <3> QED BY <2>1, <3>1, <3>2
    <2> QED BY <2>2, <2>4 DEF GainInv
  <1>9. ASSUME NEW r \in Requests, Step(r) PROVE GainInv'
    <2>1. CASE Commit(r)
      BY <1>8, <2>1
    <2>2. CASE ~Commit(r) /\ End(r)
      <3>1. UNCHANGED transactions
        BY <1>9, <2>2 DEF Step, SelectBuys, SelectSells, InsertAndWalk, SelectSnapshot, Flush, tables
      <3> QED BY <1>3, <2>2, <3>1
    <2>3. CASE ~Commit(r) /\ ~End(r)
      BY <1>5, <1>6, <1>7, <1>9, <2>3 DEF Step
    <2> QED BY <2>1, <2>2, <2>3
  <1>10. ASSUME NEW r \in Requests, Crash(r) PROVE GainInv'
    BY <1>3, <1>10 DEF Crash, tables
  <1> QED BY <1>2, <1>4, <1>9, <1>10 DEF Next

LEMMA SerialGains == Spec /\ []Serial => []GainInv
  <1>1. Init => GainInv
    BY DEF Init, GainInv
  <1>2. BackInv /\ SellInv /\ GainInv /\ Serial /\ [Next]_vars => GainInv'
    BY NextGain
  <1> QED BY <1>1, <1>2, SerialSells, BackInvariance, PTL DEF Spec

\* In date order the rows before a trade are those created before it.
LEMMA HistoryMatched ==
    ASSUME BackInv, SellInv, GainInv, InDateOrder, NEW n, n = Cardinality(transactions),
           NEW seq, seq = Sorted(transactions)
    PROVE  /\ \A k \in 1 .. n : Covered(First(seq, k))
           /\ \A k \in 1 .. n : seq[k].kind = "sell" => MatchedWith(seq[k], First(seq, k - 1))
  <1>1. Rows(transactions) /\ DateOrdered(transactions)
    BY DEF BackInv, RowsOK, InDateOrder, DateOrdered
  <1>2. Lists(seq, n, transactions)
    BY <1>1, SortedLists
  <1>3. ASSUME NEW k \in 1 .. n
        PROVE  /\ seq[k] \in transactions /\ seq[k].created \in Nat
               /\ First(seq, k) = Until(seq[k].created + 1)
    <2>1. seq[k] \in transactions
      BY <1>2 DEF Lists
    <2>2. seq[k].created \in Nat
      BY <1>1, <2>1 DEF Rows, Trade
    <2> QED BY <1>1, <2>1, <2>2, FirstCreated DEF Until
  <1>4. \A k \in 1 .. n : Covered(First(seq, k))
    BY <1>3 DEF SellInv
  <1>5. ASSUME NEW k \in 1 .. n PROVE First(seq, k - 1) = Until(seq[k].created)
    <2> DEFINE t == seq[k]
    <2>1. n \in Nat /\ k \in Nat /\ t \in transactions /\ \A j \in 1 .. k - 1 : j \in 1 .. n
      BY <1>2, <1>3 DEF Lists
    <2>2. 1 .. k = (1 .. k - 1) \cup {k}
      BY <2>1
    <2>3. First(seq, k) = First(seq, k - 1) \cup {t}
      BY <2>2 DEF First
    <2>4. t \notin First(seq, k - 1)
      BY <1>2, <2>1 DEF First, Lists
    <2>5. \A s \in transactions : s.created \in Nat /\ (s.created = t.created => s = t)
      BY <1>1, <2>1 DEF Rows, Trade
    <2>6. First(seq, k) = Until(t.created + 1)
      BY <1>3
    <2> HIDE DEF t
    <2>7. Until(t.created) = Until(t.created + 1) \ {t}
      BY <2>1, <2>5 DEF Until
    <2>8. First(seq, k - 1) = Until(t.created)
      BY <2>3, <2>4, <2>6, <2>7
    <2> QED BY <2>8 DEF t
  <1>6. \A k \in 1 .. n : seq[k].kind = "sell" => MatchedWith(seq[k], First(seq, k - 1))
    BY <1>3, <1>5 DEF GainInv
  <1> QED BY <1>4, <1>6

LEMMA SnapshotRealized ==
    ASSUME NEW rows
    PROVE  Snapshot(rows).realized = HalfEven(WalkAll(NoWalk, Sorted(rows)).realized, Paisa)
  <1> DEFINE w == WalkAll(NoWalk, Sorted(rows))
             qty == HeldIn(w.lots)
             cost == SumFunction([k \in DOMAIN w.lots |-> w.lots[k].qty * w.lots[k].price])
  <1>1. Snapshot(rows) = IF qty = 0 /\ w.dividends = 0 /\ w.realized = 0 THEN NoHolding
                         ELSE [quantity |-> qty, avg_cost |-> IF qty > 0 THEN HalfEven(cost, qty) ELSE 0,
                               invested |-> HalfEven(w.invested, Paisa),
                               realized |-> HalfEven(w.realized, Paisa),
                               dividends |-> HalfEven(w.dividends, Paisa), present |-> TRUE]
    BY DEF Snapshot, WalkAll, NoWalk, HeldIn, QtyOf
  <1>2. NoHolding.realized = 0
    BY DEF NoHolding
  <1>3. HalfEven(0, Paisa) = 0
    BY HalfEvenClose, PaisaAssumption
  <1> HIDE DEF w, cost, qty
  <1>4. Snapshot(rows).realized = HalfEven(w.realized, Paisa)
    BY <1>1, <1>2, <1>3
  <1> QED BY <1>4 DEF w

\* A sum rounded once beside one rounded n times.
LEMMA RoundedApart ==
    ASSUME NEW g \in Int, NEW x \in Int, NEW n \in Nat, RoundedTimes(g, x, n)
    PROVE  2 * (HalfEven(x, Paisa) - g) \in -(n + 1) .. n + 1
  <1> DEFINE h == HalfEven(x, Paisa)
             ph == Paisa * h
             pg == Paisa * g
             pn == n * Paisa
             e == 2 * (h - g)
             o == n + 1
  <1>1. h \in Int /\ 2 * (Paisa * h) - 2 * x \in -Paisa .. Paisa
    BY HalfEvenClose, PaisaAssumption
  <1>2. 2 * (pg - x) \in -pn .. pn
    BY DEF RoundedTimes
  <1> HIDE DEF h
  <1>3. /\ e \in Int /\ o \in Int /\ ph \in Int /\ pg \in Int /\ pn \in Int
        /\ Paisa * e = 2 * ph - 2 * pg
        /\ Paisa * o = pn + Paisa /\ Paisa * (-o) = -(pn + Paisa)
    BY <1>1, PaisaAssumption
  <1>4. 2 * ph - 2 * x \in -Paisa .. Paisa
    BY <1>1
  <1> HIDE DEF ph, pg, pn, e, o
  <1>5. Paisa * e <= Paisa * o /\ Paisa * e >= Paisa * (-o)
    BY <1>2, <1>3, <1>4, PaisaAssumption
  <1>6. e <= o
    <2>1. Paisa * e < Paisa * o + Paisa
      BY <1>3, <1>5, PaisaAssumption
    <2> QED BY <1>3, <2>1, Multiples, PaisaAssumption
  <1>7. -o <= e
    <2>1. Paisa * (-o) < Paisa * e + Paisa /\ -o \in Int
      BY <1>3, <1>5, PaisaAssumption
    <2> QED BY <1>3, <2>1, Multiples, PaisaAssumption
  <1>8. e \in -o .. o
    BY <1>3, <1>6, <1>7
  <1> QED BY <1>8 DEF e, o, h

(***************************************************************************)
(* Trades that do not overlap, entered in the order of their dates and     *)
(* with one lot a day at most: the gains that the sells were taxed on, one *)
(* by one as they came and each lot rounded, add up to the profit that the *)
(* snapshot's walk over the whole history realizes and rounds once, within *)
(* half a paisa for every rounding.                                        *)
(***************************************************************************)
THEOREM SerialReconciles == Spec /\ []Serial => []Reconciles
  <1>1. ASSUME BackInv, SellInv, GainInv, SnapshotFresh PROVE Reconciles
    <2> SUFFICES ASSUME Quiet, InDateOrder, OneLotADay(transactions)
                 PROVE  LET k == Roundings(transactions) + 1
                        IN  2 * (holdings.realized - Gains(transactions)) \in -k .. k
      BY DEF Reconciles, OneLotADay, Gains, Roundings
    <2> DEFINE seq == Sorted(transactions)
               n == Cardinality(transactions)
    <2>1. Rows(transactions)
      BY <1>1 DEF BackInv, RowsOK
    <2>2. holdings.realized = HalfEven(WalkAll(NoWalk, seq).realized, Paisa)
      BY <1>1, SnapshotRealized DEF SnapshotFresh
    <2>3. n = Cardinality(transactions) /\ seq = Sorted(transactions)
      OBVIOUS
    <2> HIDE DEF seq, n
    <2>4. /\ \A k \in 1 .. n : Covered(First(seq, k))
          /\ \A k \in 1 .. n : seq[k].kind = "sell" => MatchedWith(seq[k], First(seq, k - 1))
      BY <1>1, <2>3, HistoryMatched
    <2> DEFINE x == WalkAll(NoWalk, seq).realized
               g == Gains(transactions)
               k == Roundings(transactions)
    <2>5. x \in Int /\ g \in Int /\ k \in Nat /\ RoundedTimes(g, x, k)
      BY <2>1, <2>3, <2>4, WalkReconciles
    <2> HIDE DEF x, g, k
    <2>6. 2 * (HalfEven(x, Paisa) - g) \in -(k + 1) .. k + 1
      BY <2>5, RoundedApart
    <2> QED BY <2>2, <2>6 DEF x, g, k
  <1>2. BackInv /\ SellInv /\ GainInv /\ SnapshotFresh => Reconciles
    BY <1>1
  <1> QED BY <1>2, SerialSells, SerialGains, BackInvariance, SerialStaysFresh, PTL

\* The simulator's walk as a run.
SimAll(base, seq, from, to) == FoldLeft(LAMBDA w, t : SimulateRow(w, t, from, to), base, seq)
Simulates(run, base, seq, n, from, to) ==
    /\ run[0] = base /\ run[n] = SimAll(base, seq, from, to)
    /\ \A k \in 1 .. n : run[k] = SimulateRow(run[k - 1], seq[k], from, to)

LEMMA SimRun ==
    ASSUME NEW base, NEW seq, NEW from, NEW to, NEW n \in Nat, DOMAIN seq = 1 .. n
    PROVE  \E run : Simulates(run, base, seq, n, from, to)
  <1> DEFINE Val(h, s) == IF s = {} THEN base ELSE SimulateRow(h[s \ {Max(s)}], seq[Max(s)], from, to)
             Is(m, h) == h = [s \in SUBSET (1 .. m) |-> Val(h, s)]
             P == {m \in Nat : \E h : Is(m, h)}
  <1>1. 0 \in P
    <2>1. SUBSET (1 .. 0) = {{}}
      OBVIOUS
    <2>2. Is(0, [s \in {{}} |-> base])
      BY <2>1
    <2> QED BY <2>2
  <1>2. ASSUME NEW m \in Nat, m \in P PROVE m + 1 \in P
    <2>1. PICK h : h = [s \in SUBSET (1 .. m) |-> Val(h, s)]
      BY <1>2
    <2> DEFINE g == [s \in SUBSET (1 .. m + 1) |->
                       IF m + 1 \in s THEN SimulateRow(h[s \ {m + 1}], seq[m + 1], from, to) ELSE h[s]]
    <2>2. ASSUME NEW s \in SUBSET (1 .. m) PROVE g[s] = h[s]
      BY <1>2
    <2>3. ASSUME NEW s \in SUBSET (1 .. m + 1) PROVE g[s] = Val(g, s)
      <3>1. CASE m + 1 \in s
        <4>1. Max(s) = m + 1 /\ s \ {m + 1} \in SUBSET (1 .. m)
          BY <1>2, <3>1, MaxOfTop
        <4>2. g[s \ {m + 1}] = h[s \ {m + 1}]
          BY <2>2, <4>1
        <4>3. g[s] = SimulateRow(h[s \ {m + 1}], seq[m + 1], from, to)
          BY <3>1
        <4> HIDE DEF g
        <4> QED BY <3>1, <4>1, <4>2, <4>3
      <3>2. CASE m + 1 \notin s
        <4>1. s \in SUBSET (1 .. m)
          BY <1>2, <3>2
        <4>2. g[s] = h[s] /\ h[s] = Val(h, s)
          BY <2>1, <2>2, <4>1
        <4>3. s # {} => g[s \ {Max(s)}] = h[s \ {Max(s)}]
          BY <1>2, <2>2, <4>1, MaxIsIn
        <4> HIDE DEF g
        <4> QED BY <4>2, <4>3
      <3> QED BY <3>1, <3>2
    <2>4. g = [s \in SUBSET (1 .. m + 1) |-> Val(g, s)]
      <3>1. [s \in SUBSET (1 .. m + 1) |-> g[s]] = [s \in SUBSET (1 .. m + 1) |-> Val(g, s)]
        <4> HIDE DEF g, Val
        <4> QED BY <2>3
      <3>2. g = [s \in SUBSET (1 .. m + 1) |-> g[s]]
        OBVIOUS
      <3> HIDE DEF g, Val
      <3> QED BY <3>1, <3>2
    <2> HIDE DEF g, Val
    <2>5. Is(m + 1, g)
      BY <2>4
    <2> QED BY <1>2, <2>5
  <1>3. \A m \in Nat : m \in P
    <2> HIDE DEF P
    <2> QED BY <1>1, <1>2, InductionSet
  <1> DEFINE iter == CHOOSE h : Is(n, h)
  <1>4. Is(n, iter)
    <2> HIDE DEF Is
    <2> QED BY <1>3
  <1>5. SimAll(base, seq, from, to) = iter[1 .. n]
    BY DEF SimAll, FoldLeft, MapThenFoldSet
  <1> HIDE DEF iter
  <1>6. \A s \in SUBSET (1 .. n) : iter[s] = Val(iter, s)
    BY <1>4
  <1> DEFINE run == [k \in 0 .. n |-> iter[1 .. k]]
  <1>7. run[0] = base
    <2>1. 1 .. 0 = {} /\ {} \in SUBSET (1 .. n) /\ 0 \in 0 .. n
      OBVIOUS
    <2> QED BY <1>6, <2>1
  <1>8. ASSUME NEW k \in 1 .. n PROVE run[k] = SimulateRow(run[k - 1], seq[k], from, to)
    <2>1. k \in 0 .. n /\ k - 1 \in 0 .. n /\ 1 .. k # {} /\ 1 .. k \in SUBSET (1 .. n)
      OBVIOUS
    <2>2. (1 .. k) \ {k} = 1 .. (k - 1)
      OBVIOUS
    <2>3. Max(1 .. k) = k
      <3> DEFINE j == k - 1
      <3>1. j \in Nat /\ j + 1 = k
        OBVIOUS
      <3> HIDE DEF j
      <3>2. 1 .. j + 1 \in SUBSET (1 .. j + 1) /\ j + 1 \in 1 .. j + 1
        BY <3>1
      <3>3. Max(1 .. j + 1) = j + 1
        BY <3>1, <3>2, MaxOfTop
      <3> QED BY <3>1, <3>3
    <2>4. iter[1 .. k] = SimulateRow(iter[1 .. (k - 1)], seq[k], from, to)
      BY <1>6, <2>1, <2>2, <2>3
    <2> QED BY <2>1, <2>4
  <1>9. run[n] = SimAll(base, seq, from, to)
    BY <1>5
  <1> HIDE DEF run
  <1>10. Simulates(run, base, seq, n, from, to)
    BY <1>7, <1>8, <1>9 DEF Simulates
  <1> QED BY <1>10

-----------------------------------------------------------------------------
(***************************************************************************)
(* The tax simulator.  One row moves its books by what the row is worth,   *)
(* counted or not, and the lots do not depend on which rows are counted.   *)
(***************************************************************************)
SimColumns == {"lots", "filer", "nonfiler", "gain", "sells", "raised"}
Sim(w, S) ==
    /\ w = [c \in SimColumns |-> w[c]] /\ w.lots \in Seq(S)
    /\ w.filer \in Nat /\ w.nonfiler \in Nat /\ w.gain \in Int /\ w.sells \in Nat

\* Lots that can be taxed.
TaxLots(S) == Cuttable(S) /\ Datable(S) /\ \A x \in S : x.price \in Int

SellFor(lots, t, filer) == match_fifo(lots, t.qty, t.price, t.date, filer, SeedBrackets)

\* The sell t is told, or raises, over these lots.
Tells(lots, t) == t.kind = "sell" /\ lots # << >> /\ SellFor(lots, t, TRUE).error = "none"
Raises(lots, t) == t.kind = "sell" /\ lots # << >> /\ SellFor(lots, t, TRUE).error = "insufficient"

LotsAfter(lots, t) ==
    IF t.kind \in Acquired THEN Append(lots, t)
    ELSE IF Tells(lots, t) THEN OpenLots(lots, t.qty) ELSE lots
Due(lots, t, filer) == IF Tells(lots, t) THEN SellFor(lots, t, filer).cgt ELSE 0
GainOf(lots, t) == IF Tells(lots, t) THEN SellFor(lots, t, TRUE).gain ELSE 0
Told(lots, t) == IF Tells(lots, t) THEN 1 ELSE 0

Counts(t, from, to, x) == IF t.date \in from .. to THEN x ELSE 0

\* From w to v: other lots, and so much more of everything.
Moves(w, v, lots, fc, gc, gain, k) ==
    /\ v = [c \in SimColumns |-> v[c]] /\ v.lots = lots
    /\ v.filer = w.filer + fc /\ v.nonfiler = w.nonfiler + gc
    /\ v.gain = w.gain + gain /\ v.sells = w.sells + k

LEMMA SellTypes ==
    ASSUME NEW S, TaxLots(S), NEW lots \in Seq(S), NEW t, Trade(t), t \in S
    PROVE  /\ Due(lots, t, TRUE) \in Nat /\ Due(lots, t, FALSE) \in Nat
           /\ Due(lots, t, TRUE) <= Due(lots, t, FALSE)
           /\ GainOf(lots, t) \in Int /\ Told(lots, t) \in Nat /\ LotsAfter(lots, t) \in Seq(S)
           /\ SellFor(lots, t, TRUE).error = SellFor(lots, t, FALSE).error
           /\ SellFor(lots, t, TRUE).error \in {"none", "no_rule", "insufficient"}
           /\ SellFor(lots, t, TRUE).cgt \in Nat /\ SellFor(lots, t, FALSE).cgt \in Nat
           /\ SellFor(lots, t, TRUE).gain \in Int
  <1> DEFINE f == SellFor(lots, t, TRUE)
             g == SellFor(lots, t, FALSE)
  <1>1. t.qty \in Nat /\ t.price \in Int /\ t.date \in Int
    BY DEF Trade
  <1>2. Beside(f, g) /\ f.error \in {"none", "no_rule", "insufficient"}
    BY <1>1, BesideMatch DEF SellFor, TaxLots
  <1>3. Append(lots, t) \in Seq(S) /\ OpenLots(lots, t.qty) \in Seq(S)
    <2>1. Append(lots, t) \in Seq(S)
      OBVIOUS
    <2> DEFINE qty == t.qty
    <2>2. qty \in Nat /\ Cuttable(S)
      BY <1>1 DEF TaxLots
    <2> HIDE DEF qty
    <2>3. OpenLots(lots, qty) \in Seq(S)
      BY <2>2, OpenLotsHeld
    <2> QED BY <2>1, <2>3 DEF qty
  <1>4. LotsAfter(lots, t) \in Seq(S)
    BY <1>3 DEF LotsAfter
  <1> HIDE DEF f, g
  <1>5. f.error = g.error /\ f.cgt \in Nat /\ g.cgt \in Nat /\ f.cgt <= g.cgt /\ f.gain \in Int
    BY <1>2 DEF Beside
  <1>6. /\ Due(lots, t, TRUE) = IF Tells(lots, t) THEN f.cgt ELSE 0
        /\ Due(lots, t, FALSE) = IF Tells(lots, t) THEN g.cgt ELSE 0
        /\ GainOf(lots, t) = IF Tells(lots, t) THEN f.gain ELSE 0
        /\ Told(lots, t) \in Nat
    BY DEF Due, GainOf, Told, f, g
  <1>7. /\ Due(lots, t, TRUE) \in Nat /\ Due(lots, t, FALSE) \in Nat
        /\ Due(lots, t, TRUE) <= Due(lots, t, FALSE) /\ GainOf(lots, t) \in Int
    <2> DEFINE x == Due(lots, t, TRUE)
               y == Due(lots, t, FALSE)
               z == GainOf(lots, t)
    <2>1. (x = f.cgt /\ y = g.cgt /\ z = f.gain) \/ (x = 0 /\ y = 0 /\ z = 0)
      BY <1>6
    <2> HIDE DEF x, y, z
    <2>2. x \in Nat /\ y \in Nat /\ x <= y /\ z \in Int
      BY <1>5, <2>1
    <2> QED BY <2>2 DEF x, y, z
  <1> QED BY <1>2, <1>4, <1>5, <1>6, <1>7 DEF f, g

LEMMA SimRow ==
    ASSUME NEW S, TaxLots(S), NEW w, Sim(w, S), NEW t, Trade(t), t \in S, NEW from \in Int, NEW to \in Int
    PROVE  LET v == SimulateRow(w, t, from, to)
           IN  /\ w.raised => v = w
               /\ ~w.raised =>
                    /\ Moves(w, v, LotsAfter(w.lots, t), Counts(t, from, to, Due(w.lots, t, TRUE)),
                             Counts(t, from, to, Due(w.lots, t, FALSE)), Counts(t, from, to, GainOf(w.lots, t)),
                             Counts(t, from, to, Told(w.lots, t)))
                    /\ v.raised <=> Raises(w.lots, t)
  <1> DEFINE v == SimulateRow(w, t, from, to)
             f == SellFor(w.lots, t, TRUE)
             g == SellFor(w.lots, t, FALSE)
             c == IF t.date \in from .. to THEN 1 ELSE 0
  <1>1. w = [x \in SimColumns |-> w[x]] /\ w.lots \in Seq(S) /\ w.filer \in Nat /\ w.nonfiler \in Nat /\ w.gain \in Int /\ w.sells \in Nat
    BY DEF Sim
  <1>2. /\ f.error = g.error /\ f.error \in {"none", "no_rule", "insufficient"}
        /\ f.cgt \in Nat /\ g.cgt \in Nat /\ f.gain \in Int
    BY <1>1, SellTypes
  <1>3. t.kind \in Acquired \cup {"sell", "dividend"}
    BY DEF Trade
  <1>4. w.raised => v = w
    BY DEF SimulateRow
  <1>5. ASSUME ~w.raised, t.kind = "dividend" \/ (t.kind = "sell" /\ (w.lots = << >> \/ f.error = "no_rule"))
        PROVE  v = w
    <2>1. CASE t.kind = "dividend"
      BY <2>1 DEF SimulateRow
    <2>2. CASE t.kind = "sell"
      <3>1. v = SimulateSell(w, t, from, to)
        BY <1>5, <2>2 DEF SimulateRow
      <3>2. w.lots = << >> \/ "no_rule" \in {f.error, g.error}
        BY <1>2, <1>5, <2>2
      <3>3. SimulateSell(w, t, from, to) = w
        BY <3>2 DEF SimulateSell, SellFor
      <3> QED BY <3>1, <3>3
    <2> QED BY <1>5, <2>1, <2>2
  <1>6. ASSUME ~w.raised, t.kind \in Acquired PROVE v = [w EXCEPT !.lots = Append(w.lots, t)]
    BY <1>6 DEF SimulateRow, Acquired
  <1>7. ASSUME ~w.raised, t.kind = "sell", w.lots # << >>, f.error # "no_rule"
        PROVE  v = IF f.error = "insufficient" THEN [w EXCEPT !.raised = TRUE]
                   ELSE [w EXCEPT !.lots = OpenLots(w.lots, t.qty), !.filer = w.filer + c * f.cgt,
                                  !.nonfiler = w.nonfiler + c * g.cgt, !.gain = w.gain + c * f.gain,
                                  !.sells = w.sells + c]
    <2>1. v = SimulateSell(w, t, from, to)
      BY <1>7 DEF SimulateRow
    <2>2. ~(w.lots = << >> \/ "no_rule" \in {f.error, g.error})
      BY <1>2, <1>7
    <2>3. SimulateSell(w, t, from, to) =
            IF f.error = "insufficient" THEN [w EXCEPT !.raised = TRUE]
            ELSE [w EXCEPT !.lots = OpenLots(w.lots, t.qty), !.filer = w.filer + c * f.cgt,
                           !.nonfiler = w.nonfiler + c * g.cgt, !.gain = w.gain + c * f.gain,
                           !.sells = w.sells + c]
      BY <2>2 DEF SimulateSell, SellFor
    <2> QED BY <2>1, <2>3
  <1> DEFINE lots == LotsAfter(w.lots, t)
             a == Counts(t, from, to, Due(w.lots, t, TRUE))
             b == Counts(t, from, to, Due(w.lots, t, FALSE))
             e == Counts(t, from, to, GainOf(w.lots, t))
             k == Counts(t, from, to, Told(w.lots, t))
  <1>8. ASSUME ~w.raised PROVE Moves(w, v, lots, a, b, e, k) /\ (v.raised <=> Raises(w.lots, t))
    <2>1. CASE ~Tells(w.lots, t)
      <3>1. a = 0 /\ b = 0 /\ e = 0 /\ k = 0
        BY <2>1 DEF Counts, Due, GainOf, Told
      <3> HIDE DEF a, b, e, k
      <3>2. CASE v = w /\ t.kind \notin Acquired /\ ~Raises(w.lots, t)
        <4>1. lots = w.lots
          BY <2>1, <3>2 DEF LotsAfter
        <4> HIDE DEF lots, v
        <4> QED BY <1>1, <1>8, <3>1, <3>2, <4>1 DEF Moves
      <3>3. CASE t.kind \in Acquired
        <4>1. lots = Append(w.lots, t) /\ ~Raises(w.lots, t)
          BY <3>3 DEF LotsAfter, Raises, Acquired
        <4>2. v = [w EXCEPT !.lots = lots]
          BY <1>6, <1>8, <3>3, <4>1
        <4> HIDE DEF lots, v
        <4>3. v = [x \in SimColumns |-> v[x]]
          BY <1>1, <4>2
        <4>4. v.lots = lots /\ v.filer = w.filer /\ v.nonfiler = w.nonfiler /\ v.gain = w.gain /\ v.sells = w.sells /\ (v.raised <=> w.raised)
          BY <1>1, <4>2 DEF SimColumns
        <4>5. Moves(w, v, lots, a, b, e, k)
          BY <1>1, <3>1, <4>3, <4>4 DEF Moves
        <4>6. ~v.raised /\ ~Raises(w.lots, t)
          BY <1>8, <4>1, <4>4
        <4> QED BY <4>5, <4>6
      <3>4. CASE Raises(w.lots, t)
        <4>1. t.kind = "sell" /\ w.lots # << >> /\ f.error = "insufficient"
          BY <3>4 DEF Raises
        <4>2. lots = w.lots
          BY <2>1, <4>1 DEF LotsAfter, Acquired
        <4>3. v = [w EXCEPT !.raised = TRUE]
          BY <1>7, <1>8, <4>1
        <4> HIDE DEF lots, v
        <4>4. v = [x \in SimColumns |-> v[x]]
          BY <1>1, <4>3
        <4>5. v.lots = w.lots /\ v.filer = w.filer /\ v.nonfiler = w.nonfiler /\ v.gain = w.gain /\ v.sells = w.sells /\ v.raised
          BY <1>1, <4>3 DEF SimColumns
        <4> QED BY <1>1, <3>1, <3>4, <4>2, <4>4, <4>5 DEF Moves
      <3>5. CASE t.kind \notin Acquired /\ ~Raises(w.lots, t)
        <4>1. t.kind = "dividend" \/ (t.kind = "sell" /\ (w.lots = << >> \/ f.error = "no_rule"))
          BY <1>2, <1>3, <2>1, <3>5 DEF Tells, Raises
        <4> QED BY <1>5, <1>8, <3>2, <3>5, <4>1
      <3> QED BY <3>3, <3>4, <3>5
    <2>2. CASE Tells(w.lots, t)
      <3>1. t.kind = "sell" /\ w.lots # << >> /\ f.error = "none" /\ t.kind \notin Acquired
        BY <2>2 DEF Tells, Acquired
      <3>2. ~Raises(w.lots, t)
        BY <3>1 DEF Raises
      <3>3. lots = OpenLots(w.lots, t.qty)
        BY <2>2, <3>1 DEF LotsAfter
      <3>4. a = c * f.cgt /\ b = c * g.cgt /\ e = c * f.gain /\ k = c
        <4>1. /\ Due(w.lots, t, TRUE) = f.cgt /\ Due(w.lots, t, FALSE) = g.cgt
              /\ GainOf(w.lots, t) = f.gain /\ Told(w.lots, t) = 1
          BY <2>2 DEF Due, GainOf, Told
        <4> DEFINE x == f.cgt
                   y == g.cgt
                   z == f.gain
        <4>2. x \in Int /\ y \in Int /\ z \in Int
          <5> HIDE DEF f, g
          <5> QED BY <1>2
        <4> HIDE DEF x, y, z
        <4>3. Counts(t, from, to, x) = c * x /\ Counts(t, from, to, y) = c * y /\ Counts(t, from, to, z) = c * z /\ Counts(t, from, to, 1) = c
          BY <4>2 DEF Counts
        <4> QED BY <4>1, <4>3 DEF x, y, z
      <3>5. v = [w EXCEPT !.lots = lots, !.filer = w.filer + a, !.nonfiler = w.nonfiler + b, !.gain = w.gain + e, !.sells = w.sells + k]
        BY <1>7, <1>8, <3>1, <3>3, <3>4
      <3> HIDE DEF lots, v, a, b, e, k
      <3> DEFINE aa == w.filer + a
                 bb == w.nonfiler + b
                 ee == w.gain + e
                 kk == w.sells + k
      <3> HIDE DEF aa, bb, ee, kk
      <3>6. v = [w EXCEPT !.lots = lots, !.filer = aa, !.nonfiler = bb, !.gain = ee, !.sells = kk]
        BY <3>5 DEF aa, bb, ee, kk
      <3>7. v = [x \in SimColumns |-> v[x]]
        BY <1>1, <3>6
      <3>8. v.lots = lots /\ v.filer = aa /\ v.nonfiler = bb /\ v.gain = ee /\ v.sells = kk /\ (v.raised <=> w.raised)
        BY <1>1, <3>6 DEF SimColumns
      <3> QED BY <1>8, <3>2, <3>7, <3>8 DEF Moves, aa, bb, ee, kk
    <2> QED BY <2>1, <2>2
  <1> QED BY <1>4, <1>8

-----------------------------------------------------------------------------
(***************************************************************************)
(* Three simulations of one history: one of all days, one of those before  *)
(* a day and one of those from that day on.                                *)
(***************************************************************************)
Split(w, b, a, S) ==
    /\ Sim(w, S) /\ Sim(b, S) /\ Sim(a, S)
    /\ b.lots = w.lots /\ a.lots = w.lots
    /\ (b.raised <=> w.raised) /\ (a.raised <=> w.raised)
    /\ w.filer = b.filer + a.filer /\ w.nonfiler = b.nonfiler + a.nonfiler
    /\ w.gain = b.gain + a.gain /\ w.sells = b.sells + a.sells
    /\ w.filer <= w.nonfiler

\* A day is counted once.
LEMMA CountsOnce ==
    ASSUME NEW t, t.date \in Int, NEW first \in Int, NEW last \in Int, NEW day \in Int, t.date \in first .. last,
           NEW x \in Int
    PROVE  /\ Counts(t, first, last, x) = x
           /\ \/ Counts(t, first, day - 1, x) = x /\ Counts(t, day, last, x) = 0
              \/ Counts(t, first, day - 1, x) = 0 /\ Counts(t, day, last, x) = x
  BY DEF Counts

LEMMA AddUp ==
    ASSUME NEW w \in Int, NEW v \in Int, NEW b \in Int, NEW a \in Int, NEW x \in Int, NEW p \in Int, NEW q \in Int,
           w = b + a, x = p + q, v = w + x
    PROVE  v = (b + p) + (a + q)
  OBVIOUS

\* After an error the walk is over.
LEMMA SimStops ==
    ASSUME NEW w, w.raised, NEW t, NEW from, NEW to
    PROVE  SimulateRow(w, t, from, to) = w
  BY DEF SimulateRow

LEMMA MovesIsSim ==
    ASSUME NEW S, NEW w, Sim(w, S), NEW v, NEW lots \in Seq(S), NEW x \in Nat, NEW y \in Nat, NEW z \in Int,
           NEW k \in Nat, Moves(w, v, lots, x, y, z, k)
    PROVE  Sim(v, S)
  <1>1. w.filer \in Nat /\ w.nonfiler \in Nat /\ w.gain \in Int /\ w.sells \in Nat
    BY DEF Sim
  <1>2. /\ v = [c \in SimColumns |-> v[c]] /\ v.lots = lots
        /\ v.filer = w.filer + x /\ v.nonfiler = w.nonfiler + y /\ v.gain = w.gain + z /\ v.sells = w.sells + k
    BY DEF Moves
  <1>3. v.filer \in Nat /\ v.nonfiler \in Nat /\ v.gain \in Int /\ v.sells \in Nat /\ v.lots \in Seq(S)
    <2> DEFINE a == w.filer
               b == w.nonfiler
               c == w.gain
               d == w.sells
    <2>1. a \in Nat /\ b \in Nat /\ c \in Int /\ d \in Nat
      BY <1>1
    <2> HIDE DEF a, b, c, d
    <2>2. a + x \in Nat /\ b + y \in Nat /\ c + z \in Int /\ d + k \in Nat
      BY <2>1
    <2> QED BY <1>2, <2>2 DEF a, b, c, d
  <1> QED BY <1>2, <1>3 DEF Sim

LEMMA SplitRow ==
    ASSUME NEW S, TaxLots(S), NEW w, NEW b, NEW a, Split(w, b, a, S), NEW t, Trade(t), t \in S,
           NEW first \in Int, NEW last \in Int, NEW day \in Int, t.date \in first .. last
    PROVE  Split(SimulateRow(w, t, first, last), SimulateRow(b, t, first, day - 1),
                 SimulateRow(a, t, day, last), S)
  <1> DEFINE ww == SimulateRow(w, t, first, last)
             bb == SimulateRow(b, t, first, day - 1)
             aa == SimulateRow(a, t, day, last)
             lots == w.lots
             f == Due(lots, t, TRUE)
             g == Due(lots, t, FALSE)
             e == GainOf(lots, t)
             k == Told(lots, t)
             next == LotsAfter(lots, t)
             W(x) == Counts(t, first, last, x)
             B(x) == Counts(t, first, day - 1, x)
             A(x) == Counts(t, day, last, x)
  <1>1. /\ Sim(w, S) /\ Sim(b, S) /\ Sim(a, S)
        /\ b.lots = lots /\ a.lots = lots /\ lots \in Seq(S)
        /\ (b.raised <=> w.raised) /\ (a.raised <=> w.raised)
        /\ w.filer = b.filer + a.filer /\ w.nonfiler = b.nonfiler + a.nonfiler
        /\ w.gain = b.gain + a.gain /\ w.sells = b.sells + a.sells
        /\ w.filer <= w.nonfiler
    BY DEF Split, Sim
  <1>2. t.date \in Int /\ day - 1 \in Int
    BY DEF Trade
  <1>3. f \in Nat /\ g \in Nat /\ f <= g /\ e \in Int /\ k \in Nat /\ next \in Seq(S)
    BY <1>1, SellTypes
  <1>4. CASE w.raised
    <2>1. ww = w /\ bb = b /\ aa = a
      <3>1. ww = w
        BY <1>4, SimStops
      <3>2. b.raised /\ a.raised
        BY <1>1, <1>4
      <3>3. bb = b
        BY <3>2, SimStops
      <3>4. aa = a
        BY <3>2, SimStops
      <3> QED BY <3>1, <3>3, <3>4
    <2> QED BY <2>1
  <1>5. CASE ~w.raised
    <2> DEFINE R == Raises(lots, t)
    <2>1. Moves(w, ww, next, W(f), W(g), W(e), W(k)) /\ (ww.raised <=> R)
      BY <1>1, <1>5, SimRow
    <2>2. Moves(b, bb, next, B(f), B(g), B(e), B(k)) /\ (bb.raised <=> R)
      <3>1. ~b.raised
        BY <1>1, <1>5
      <3>2. LET v == bb
            IN  /\ Moves(b, v, LotsAfter(b.lots, t), B(Due(b.lots, t, TRUE)), B(Due(b.lots, t, FALSE)),
                         B(GainOf(b.lots, t)), B(Told(b.lots, t)))
                /\ v.raised <=> Raises(b.lots, t)
        BY <1>1, <1>2, <3>1, SimRow
      <3> HIDE DEF bb
      <3> QED BY <1>1, <3>2
    <2>3. Moves(a, aa, next, A(f), A(g), A(e), A(k)) /\ (aa.raised <=> R)
      <3>1. ~a.raised
        BY <1>1, <1>5
      <3>2. LET v == aa
            IN  /\ Moves(a, v, LotsAfter(a.lots, t), A(Due(a.lots, t, TRUE)), A(Due(a.lots, t, FALSE)),
                         A(GainOf(a.lots, t)), A(Told(a.lots, t)))
                /\ v.raised <=> Raises(a.lots, t)
        BY <1>1, <1>2, <3>1, SimRow
      <3> HIDE DEF aa
      <3> QED BY <1>1, <3>2
    <2> HIDE DEF R, ww, bb, aa, lots, f, g, e, k, next
    <2>4. \A x \in Int : W(x) = x /\ ((B(x) = x /\ A(x) = 0) \/ (B(x) = 0 /\ A(x) = x))
      BY <1>2, CountsOnce
    <2> HIDE DEF W, B, A
    <2>5. /\ W(f) = f /\ W(g) = g /\ W(e) = e /\ W(k) = k
          /\ B(f) \in Nat /\ B(g) \in Nat /\ B(e) \in Int /\ B(k) \in Nat
          /\ A(f) \in Nat /\ A(g) \in Nat /\ A(e) \in Int /\ A(k) \in Nat
          /\ B(f) + A(f) = f /\ B(g) + A(g) = g /\ B(e) + A(e) = e /\ B(k) + A(k) = k
      BY <1>3, <2>4
    <2> DEFINE bf == B(f)
               bg == B(g)
               be == B(e)
               bk == B(k)
               af == A(f)
               ag == A(g)
               ae == A(e)
               ak == A(k)
    <2> HIDE DEF bf, bg, be, bk, af, ag, ae, ak
    <2>6. /\ bf \in Nat /\ bg \in Nat /\ be \in Int /\ bk \in Nat
          /\ af \in Nat /\ ag \in Nat /\ ae \in Int /\ ak \in Nat
          /\ bf + af = f /\ bg + ag = g /\ be + ae = e /\ bk + ak = k
      BY <2>5 DEF bf, bg, be, bk, af, ag, ae, ak
    <2>7. /\ Moves(w, ww, next, f, g, e, k) /\ Moves(b, bb, next, bf, bg, be, bk) /\ Moves(a, aa, next, af, ag, ae, ak)
      BY <2>1, <2>2, <2>3, <2>5 DEF bf, bg, be, bk, af, ag, ae, ak
    <2>8. /\ w.filer \in Nat /\ w.nonfiler \in Nat /\ w.gain \in Int /\ w.sells \in Nat
          /\ b.filer \in Nat /\ b.nonfiler \in Nat /\ b.gain \in Int /\ b.sells \in Nat
          /\ a.filer \in Nat /\ a.nonfiler \in Nat /\ a.gain \in Int /\ a.sells \in Nat
      BY <1>1 DEF Sim
    <2>9. Sim(ww, S) /\ Sim(bb, S) /\ Sim(aa, S)
      BY <1>1, <1>3, <2>6, <2>7, MovesIsSim
    <2>10. /\ bb.lots = ww.lots /\ aa.lots = ww.lots
           /\ ww.filer = bb.filer + aa.filer /\ ww.nonfiler = bb.nonfiler + aa.nonfiler
           /\ ww.gain = bb.gain + aa.gain /\ ww.sells = bb.sells + aa.sells
           /\ ww.filer <= ww.nonfiler
      <3>1. /\ ww.lots = next /\ bb.lots = next /\ aa.lots = next
            /\ ww.filer = w.filer + f /\ bb.filer = b.filer + bf /\ aa.filer = a.filer + af
            /\ ww.nonfiler = w.nonfiler + g /\ bb.nonfiler = b.nonfiler + bg /\ aa.nonfiler = a.nonfiler + ag
            /\ ww.gain = w.gain + e /\ bb.gain = b.gain + be /\ aa.gain = a.gain + ae
            /\ ww.sells = w.sells + k /\ bb.sells = b.sells + bk /\ aa.sells = a.sells + ak
        <4> USE DEF Moves
        <4>1. ww.lots = next /\ ww.filer = w.filer + f /\ ww.nonfiler = w.nonfiler + g /\ ww.gain = w.gain + e /\ ww.sells = w.sells + k
          BY <2>7
        <4>2. bb.lots = next /\ bb.filer = b.filer + bf /\ bb.nonfiler = b.nonfiler + bg /\ bb.gain = b.gain + be /\ bb.sells = b.sells + bk
          BY <2>7
        <4>3. aa.lots = next /\ aa.filer = a.filer + af /\ aa.nonfiler = a.nonfiler + ag /\ aa.gain = a.gain + ae /\ aa.sells = a.sells + ak
          BY <2>7
        <4> QED BY <4>1, <4>2, <4>3
      <3>2. bb.lots = ww.lots /\ aa.lots = ww.lots
        BY <3>1
      <3>3. ww.filer = bb.filer + aa.filer /\ ww.nonfiler = bb.nonfiler + aa.nonfiler
        <4>1. w.filer \in Int /\ b.filer \in Int /\ a.filer \in Int /\ w.filer + f \in Int /\ f \in Int /\ bf \in Int /\ af \in Int
          BY <1>3, <2>6, <2>8
        <4>2. w.nonfiler \in Int /\ b.nonfiler \in Int /\ a.nonfiler \in Int /\ w.nonfiler + g \in Int /\ g \in Int /\ bg \in Int /\ ag \in Int
          BY <1>3, <2>6, <2>8
        <4>3. f = bf + af /\ g = bg + ag
          BY <2>6
        <4>4. w.filer + f = (b.filer + bf) + (a.filer + af)
          BY <1>1, <4>1, <4>3, AddUp
        <4>5. w.nonfiler + g = (b.nonfiler + bg) + (a.nonfiler + ag)
          BY <1>1, <4>2, <4>3, AddUp
        <4> QED BY <3>1, <4>4, <4>5
      <3>4. ww.gain = bb.gain + aa.gain /\ ww.sells = bb.sells + aa.sells
        <4>1. w.gain \in Int /\ b.gain \in Int /\ a.gain \in Int /\ w.gain + e \in Int /\ e \in Int /\ be \in Int /\ ae \in Int
          BY <1>3, <2>6, <2>8
        <4>2. w.sells \in Int /\ b.sells \in Int /\ a.sells \in Int /\ w.sells + k \in Int /\ k \in Int /\ bk \in Int /\ ak \in Int
          BY <1>3, <2>6, <2>8
        <4>3. e = be + ae /\ k = bk + ak
          BY <2>6
        <4>4. w.gain + e = (b.gain + be) + (a.gain + ae)
          BY <1>1, <4>1, <4>3, AddUp
        <4>5. w.sells + k = (b.sells + bk) + (a.sells + ak)
          BY <1>1, <4>2, <4>3, AddUp
        <4> QED BY <3>1, <4>4, <4>5
      <3>5. ww.filer <= ww.nonfiler
        BY <1>1, <1>3, <2>8, <3>1
      <3> QED BY <3>2, <3>3, <3>4, <3>5
    <2>11. (bb.raised <=> ww.raised) /\ (aa.raised <=> ww.raised)
      BY <2>1, <2>2, <2>3
    <2> QED BY <2>9, <2>10, <2>11 DEF Split, ww, bb, aa
  <1> QED BY <1>4, <1>5

NoSim == [lots |-> << >>, filer |-> 0, nonfiler |-> 0, gain |-> 0, sells |-> 0, raised |-> FALSE]

LEMMA NoSimIsSim ==
    ASSUME NEW S
    PROVE  Sim(NoSim, S) /\ Split(NoSim, NoSim, NoSim, S) /\ ~NoSim.raised
  BY DEF NoSim, Sim, SimColumns, Split

LEMMA PartTaxLots ==
    ASSUME NEW rows, Rows(rows)
    PROVE  TaxLots(Parts(rows))
  <1>1. \A x \in Parts(rows) : x.price \in Int
    BY PartPrices DEF Priced
  <1> QED BY <1>1, PartFacts DEF TaxLots

(***************************************************************************)
(* The window of a simulation can be cut anywhere.                         *)
(***************************************************************************)
LEMMA SplitAll ==
    ASSUME NEW rows, Rows(rows), NEW first \in Int, NEW last \in Int, NEW day \in Int,
           \A t \in rows : t.date \in first .. last
    PROVE  Split(simulate(rows, first, last), simulate(rows, first, day - 1), simulate(rows, day, last), Parts(rows))
  <1> DEFINE seq == Sorted(rows)
             n == Cardinality(rows)
             S == Parts(rows)
             to == day - 1
  <1>1. Lists(seq, n, rows)
    BY SortedLists
  <1>2. TaxLots(S) /\ rows \subseteq S
    BY PartTaxLots, PartFacts
  <1>3. /\ simulate(rows, first, last) = SimAll(NoSim, seq, first, last)
        /\ simulate(rows, first, to) = SimAll(NoSim, seq, first, to)
        /\ simulate(rows, day, last) = SimAll(NoSim, seq, day, last)
    BY DEF simulate, SimAll, NoSim
  <1> HIDE DEF seq, n, S
  <1>4. n \in Nat /\ DOMAIN seq = 1 .. n /\ \A k \in 1 .. n : seq[k] \in rows
    BY <1>1 DEF Lists
  <1>5. \A k \in 1 .. n : Trade(seq[k]) /\ seq[k] \in S /\ seq[k].date \in first .. last
    BY <1>2, <1>4 DEF Rows
  <1>6. PICK p : Simulates(p, NoSim, seq, n, first, last)
    BY <1>4, SimRun
  <1>7. PICK q : Simulates(q, NoSim, seq, n, first, to)
    <2> HIDE DEF to
    <2> QED BY <1>4, SimRun
  <1>8. PICK r : Simulates(r, NoSim, seq, n, day, last)
    BY <1>4, SimRun
  <1> DEFINE Ok(k) == Split(p[k], q[k], r[k], S)
             P == {k \in Nat : k <= n => Ok(k)}
  <1>9. 0 \in P
    <2>1. p[0] = NoSim /\ q[0] = NoSim /\ r[0] = NoSim
      BY <1>6, <1>7, <1>8 DEF Simulates
    <2> QED BY <2>1, NoSimIsSim
  <1>10. ASSUME NEW k \in Nat, k \in P PROVE k + 1 \in P
    <2> SUFFICES ASSUME k + 1 <= n PROVE Ok(k + 1)
      OBVIOUS
    <2>1. k + 1 \in 1 .. n /\ (k + 1) - 1 = k /\ k <= n
      BY <1>4
    <2> DEFINE w == p[k]
               b == q[k]
               a == r[k]
               t == seq[k + 1]
    <2>2. /\ p[k + 1] = SimulateRow(w, t, first, last)
          /\ q[k + 1] = SimulateRow(b, t, first, to)
          /\ r[k + 1] = SimulateRow(a, t, day, last)
      BY <1>6, <1>7, <1>8, <2>1 DEF Simulates
    <2>3. Split(w, b, a, S)
      BY <1>10, <2>1
    <2>4. Trade(t) /\ t \in S /\ t.date \in first .. last
      BY <1>5, <2>1
    <2> HIDE DEF w, b, a, t
    <2>5. Split(SimulateRow(w, t, first, last), SimulateRow(b, t, first, to), SimulateRow(a, t, day, last), S)
      BY <1>2, <2>3, <2>4, SplitRow
    <2> QED BY <2>2, <2>5
  <1>11. Ok(n)
    <2> HIDE DEF Ok
    <2>1. \A k \in Nat : k \in P
      <3> HIDE DEF P
      <3> QED BY <1>9, <1>10, InductionSet
    <2> QED BY <1>4, <2>1
  <1> QED BY <1>3, <1>6, <1>7, <1>8, <1>11 DEF Simulates, S

-----------------------------------------------------------------------------
\* The tax stored with the sells.
Stored(rows) == SumFunction([t \in Sells(rows) |-> t.cgt])

LEMMA OneMoreTax ==
    ASSUME NEW rows, IsFiniteSet(rows), NEW t, t \notin rows, \A s \in Sells(rows \cup {t}) : s.cgt \in Int
    PROVE  Stored(rows \cup {t}) = IF t.kind = "sell" THEN Stored(rows) + t.cgt ELSE Stored(rows)
  <1>1. \A R : Stored(R) = SellSum(R, "cgt")
    BY DEF Stored, SellSum
  <1> QED BY <1>1, OneMoreSell

\* The simulator and the books of the tax engine after the trades rows.
OwnTax(w) == IF Filer THEN w.filer ELSE w.nonfiler
Retells(w, rows, S) ==
    /\ Sim(w, S) /\ ~w.raised /\ w.lots = LotsOf(rows)
    /\ Stored(rows) = OwnTax(w) /\ w.sells = Cardinality(Sells(rows))
    /\ \A s \in Sells(rows) : s.cgt \in Int

LEMMA RetellRow ==
    ASSUME NEW rows, NEW t, t \notin rows, Rows(rows \cup {t}), \A s \in rows : s \in Before(rows \cup {t}, t),
           Covered(rows), t.kind = "sell" => MatchedWith(t, rows),
           NEW S, TaxLots(S), t \in S,
           NEW first \in Int, NEW last \in Int, t.date \in first .. last,
           NEW w, Retells(w, rows, S)
    PROVE  Retells(SimulateRow(w, t, first, last), rows \cup {t}, S)
  <1> DEFINE all == rows \cup {t}
             lots == LotsOf(rows)
             v == SimulateRow(w, t, first, last)
             f == Due(lots, t, TRUE)
             g == Due(lots, t, FALSE)
             e == GainOf(lots, t)
             k == Told(lots, t)
             next == LotsAfter(lots, t)
  <1>1. Rows(rows) /\ IsFiniteSet(rows) /\ Trade(t)
    BY FS_Subset DEF Rows
  <1>2. t.qty \in Nat /\ t.qty > 0 /\ t.date \in Int /\ t.kind \in Acquired \cup {"sell", "dividend"}
    BY <1>1 DEF Trade
  <1>3. /\ Sim(w, S) /\ ~w.raised /\ w.lots = lots /\ lots \in Seq(S)
        /\ Stored(rows) = OwnTax(w) /\ w.sells = Cardinality(Sells(rows))
        /\ \A s \in Sells(rows) : s.cgt \in Int
    BY DEF Retells, Sim
  <1>4. /\ t.kind = "sell" => LotsOf(all) = OpenLots(lots, t.qty)
        /\ t.kind = "dividend" => LotsOf(all) = lots
        /\ t.kind \in Acquired => LotsOf(all) = Append(lots, t)
    BY LotsGrow
  <1>5. f \in Nat /\ g \in Nat /\ e \in Int /\ k \in Nat /\ next \in Seq(S)
    BY <1>1, <1>3, SellTypes
  <1>6. Moves(w, v, next, f, g, e, k) /\ (v.raised <=> Raises(lots, t))
    <2>1. LET u == v
          IN  /\ Moves(w, u, LotsAfter(w.lots, t), Counts(t, first, last, Due(w.lots, t, TRUE)),
                       Counts(t, first, last, Due(w.lots, t, FALSE)), Counts(t, first, last, GainOf(w.lots, t)),
                       Counts(t, first, last, Told(w.lots, t)))
              /\ u.raised <=> Raises(w.lots, t)
      BY <1>1, <1>3, SimRow
    <2>2. \A x : Counts(t, first, last, x) = x
      BY DEF Counts
    <2> HIDE DEF v, lots
    <2> QED BY <1>3, <2>1, <2>2
  <1>7. Sim(v, S)
    <2> HIDE DEF v, next, f, g, e, k
    <2> QED BY <1>3, <1>5, <1>6, MovesIsSim
  <1>8. v.lots = next /\ v.filer = w.filer + f /\ v.nonfiler = w.nonfiler + g /\ v.sells = w.sells + k
    <2> HIDE DEF v, next, f, g, e, k
    <2> QED BY <1>6 DEF Moves
  <1>9. w.filer \in Nat /\ w.nonfiler \in Nat /\ w.sells \in Nat
    BY <1>3 DEF Sim
  <1>10. Filer \in BOOLEAN
    BY TradeAssumption
  <1>11. CASE t.kind = "sell"
    <2> DEFINE m == SellFor(lots, t, Filer)
    <2>1. m.error = "none" /\ t.cgt = m.cgt
      BY <1>11 DEF MatchedWith, MatchSell, SellFor, LotsOf
    <2>2. /\ SellFor(lots, t, TRUE).error = SellFor(lots, t, FALSE).error
          /\ SellFor(lots, t, TRUE).cgt \in Nat /\ SellFor(lots, t, FALSE).cgt \in Nat
      <3> HIDE DEF lots
      <3> QED BY <1>1, <1>3, SellTypes
    <2>3. m.error = SellFor(lots, t, TRUE).error /\ m.cgt \in Nat
      BY <1>10, <2>2
    <2>4. lots # << >>
      <3> SUFFICES ASSUME lots = << >> PROVE FALSE
        OBVIOUS
      <3>1. t.qty <= HeldIn(lots)
        <4> HIDE DEF lots
        <4> QED BY <1>2, <1>3, <2>1, AcceptedIsCovered DEF TaxLots, SellFor
      <3>2. HeldIn(lots) = 0
        BY HeldEmpty
      <3> HIDE DEF lots
      <3> QED BY <1>2, <3>1, <3>2
    <2>5. Tells(lots, t) /\ ~Raises(lots, t)
      BY <1>11, <2>1, <2>3, <2>4 DEF Tells, Raises
    <2>6. next = OpenLots(lots, t.qty)
      BY <1>11, <2>5 DEF LotsAfter, Acquired
    <2>7. k = 1 /\ (Filer => t.cgt = f) /\ (~Filer => t.cgt = g)
      <3>1. f = SellFor(lots, t, TRUE).cgt /\ g = SellFor(lots, t, FALSE).cgt /\ k = 1
        BY <2>5 DEF Due, Told
      <3>2. CASE Filer
        BY <1>10, <2>1, <3>1, <3>2
      <3>3. CASE ~Filer
        <4>1. Filer = FALSE
          BY <1>10, <3>3
        <4> QED BY <2>1, <3>1, <3>3, <4>1
      <3> QED BY <3>1, <3>2, <3>3
    <2> HIDE DEF m, v, next, f, g, e, k, lots
    <2>8. \A s \in Sells(all) : s.cgt \in Int
      BY <1>3, <2>1, <2>3 DEF Sells
    <2>9. Stored(all) = Stored(rows) + t.cgt
      BY <1>1, <1>11, <2>8, OneMoreTax
    <2>10. OwnTax(v) = OwnTax(w) + t.cgt
      BY <1>8, <2>7 DEF OwnTax
    <2>11. Cardinality(Sells(all)) = Cardinality(Sells(rows)) + 1
      <3>1. Sells(all) = Sells(rows) \cup {t} /\ t \notin Sells(rows) /\ Sells(rows) \subseteq rows
        BY <1>11 DEF Sells
      <3>2. IsFiniteSet(Sells(rows))
        BY <1>1, <3>1, FS_Subset
      <3> QED BY <3>1, <3>2, FS_AddElement
    <2>12. ~v.raised
      BY <1>6, <2>5
    <2>13. v.lots = LotsOf(all)
      BY <1>4, <1>8, <1>11, <2>6
    <2>14. Stored(all) = OwnTax(v) /\ v.sells = Cardinality(Sells(all))
      BY <1>3, <1>8, <2>7, <2>9, <2>10, <2>11
    <2> QED BY <1>7, <2>8, <2>12, <2>13, <2>14 DEF Retells, v
  <1>12. CASE t.kind # "sell"
    <2>1. Sells(all) = Sells(rows)
      BY <1>12 DEF Sells
    <2>2. ~Tells(lots, t) /\ ~Raises(lots, t)
      BY <1>12 DEF Tells, Raises
    <2>3. f = 0 /\ g = 0 /\ k = 0
      BY <2>2 DEF Due, Told
    <2>4. next = LotsOf(all)
      <3>1. CASE t.kind \in Acquired
        BY <1>4, <3>1 DEF LotsAfter
      <3>2. CASE t.kind = "dividend"
        BY <1>4, <2>2, <3>2 DEF LotsAfter, Acquired
      <3> QED BY <1>2, <1>12, <3>1, <3>2
    <2> HIDE DEF v, next, f, g, e, k, lots
    <2>5. ~v.raised /\ v.lots = LotsOf(all)
      BY <1>6, <1>8, <2>2, <2>4
    <2>6. v.filer = w.filer /\ v.nonfiler = w.nonfiler /\ v.sells = w.sells
      BY <1>8, <1>9, <2>3
    <2>7. OwnTax(v) = OwnTax(w)
      BY <2>6 DEF OwnTax
    <2>8. Stored(all) = Stored(rows)
      BY <2>1 DEF Stored
    <2> QED BY <1>3, <1>7, <2>1, <2>5, <2>6, <2>7, <2>8 DEF Retells, v
  <1> QED BY <1>11, <1>12

LEMMA RetellEmpty ==
    ASSUME NEW S
    PROVE  Retells(NoSim, {}, S)
  <1>1. Sells({}) = {} /\ Acquisitions({}) = {} /\ Cardinality({}) = 0
    BY FS_EmptySet DEF Sells, Acquisitions
  <1>2. Stored({}) = 0
    <2>1. DOMAIN [t \in {} |-> t.cgt] = {}
      OBVIOUS
    <2> QED BY <1>1, <2>1, SumEmpty DEF Stored, SumFunction
  <1>3. LotsOf({}) = << >>
    BY AgreeEmpty
  <1>4. NoSim.lots = << >> /\ OwnTax(NoSim) = 0 /\ NoSim.sells = 0
    BY DEF NoSim, OwnTax
  <1> QED BY <1>1, <1>2, <1>3, <1>4, NoSimIsSim DEF Retells

(***************************************************************************)
(* A history in date order in which every sell was matched against the     *)
(* trades before it: the simulator retells it.                             *)
(***************************************************************************)
LEMMA SimRetells ==
    ASSUME NEW rows, Rows(rows), NEW n, n = Cardinality(rows), NEW seq, seq = Sorted(rows),
           \A k \in 1 .. n : Covered(First(seq, k)),
           \A k \in 1 .. n : seq[k].kind = "sell" => MatchedWith(seq[k], First(seq, k - 1)),
           NEW first \in Int, NEW last \in Int, \A t \in rows : t.date \in first .. last
    PROVE  Retells(simulate(rows, first, last), rows, Parts(rows))
  <1> DEFINE S == Parts(rows)
  <1>1. Lists(seq, n, rows) /\ n \in Nat /\ DOMAIN seq = 1 .. n
    <2>1. Lists(seq, n, rows)
      BY SortedLists
    <2> QED BY <2>1 DEF Lists
  <1>2. TaxLots(S) /\ rows \subseteq S
    BY PartTaxLots, PartFacts
  <1>3. simulate(rows, first, last) = SimAll(NoSim, seq, first, last)
    BY DEF simulate, SimAll, NoSim
  <1> HIDE DEF S
  <1>4. PICK run : Simulates(run, NoSim, seq, n, first, last)
    BY <1>1, SimRun
  <1> DEFINE P == {k \in Nat : k <= n => Retells(run[k], First(seq, k), S)}
  <1>5. 0 \in P
    <2>1. run[0] = NoSim /\ First(seq, 0) = {}
      BY <1>4 DEF Simulates, First
    <2> QED BY <2>1, RetellEmpty
  <1>6. ASSUME NEW k \in Nat, k \in P PROVE k + 1 \in P
    <2> SUFFICES ASSUME k + 1 <= n PROVE Retells(run[k + 1], First(seq, k + 1), S)
      OBVIOUS
    <2> DEFINE pre == First(seq, k)
               t == seq[k + 1]
               w == run[k]
    <2>1. k + 1 \in 1 .. n /\ (k + 1) - 1 = k /\ k <= n
      BY <1>1
    <2>2. Retells(w, pre, S) /\ run[k + 1] = SimulateRow(w, t, first, last)
      BY <1>4, <1>6, <2>1 DEF Simulates
    <2>3. /\ First(seq, k + 1) = pre \cup {t} /\ pre \cup {t} \subseteq rows /\ t \notin pre
          /\ Rows(pre \cup {t}) /\ \A s \in pre : s \in Before(pre \cup {t}, t)
      BY NextRow
    <2>4. t.kind = "sell" => MatchedWith(t, pre)
      BY <2>1
    <2>5. Covered(pre)
      <3>1. CASE k = 0
        <4>1. pre = {}
          BY <3>1 DEF First
        <4> HIDE DEF pre
        <4> QED BY <4>1, AgreeEmpty
      <3>2. CASE k # 0
        BY <2>1, <3>2
      <3> QED BY <3>1, <3>2
    <2> HIDE DEF pre, t, w
    <2>6. t \in S /\ t.date \in first .. last
      BY <1>2, <2>3
    <2>7. Retells(SimulateRow(w, t, first, last), pre \cup {t}, S)
      BY <1>2, <2>2, <2>3, <2>4, <2>5, <2>6, RetellRow
    <2> QED BY <2>2, <2>3, <2>7
  <1>7. Retells(run[n], First(seq, n), S)
    <2>1. \A k \in Nat : k \in P
      <3> HIDE DEF P
      <3> QED BY <1>5, <1>6, InductionSet
    <2> QED BY <1>1, <2>1
  <1>8. First(seq, n) = rows
    BY <1>1 DEF First, Lists
  <1>9. run[n] = SimAll(NoSim, seq, first, last)
    BY <1>4 DEF Simulates
  <1> QED BY <1>3, <1>7, <1>8, <1>9 DEF S

-----------------------------------------------------------------------------
(***************************************************************************)
(* What the open lots of the walk cost, against all that was ever paid.    *)
(***************************************************************************)
CostOf(lots) == [k \in DOMAIN lots |-> lots[k].qty * lots[k].price]
CostIn(lots) == SumFunction(CostOf(lots))

LEMMA CostEmpty == CostIn(<< >>) = 0
  <1>1. DOMAIN CostOf(<< >>) = {}
    BY DEF CostOf
  <1> QED BY <1>1, SumEmpty DEF CostIn, SumFunction

LEMMA LotCost ==
    ASSUME NEW lot \in Lot
    PROVE  lot.qty \in Nat /\ lot.price \in Nat /\ lot.qty * lot.price \in Nat
  <1>1. lot.qty \in Nat /\ lot.price \in Nat
    BY DEF Lot
  <1> QED BY <1>1

LEMMA CostNat ==
    ASSUME NEW lots \in Seq(Lot)
    PROVE  /\ CostIn(lots) \in Nat /\ CostIn(lots) = SumFunctionOnSet(CostOf(lots), 1 .. Len(lots))
           /\ \A k \in 1 .. Len(lots) : CostOf(lots)[k] \in Nat /\ CostOf(lots)[k] = lots[k].qty * lots[k].price
  <1>1. DOMAIN lots = 1 .. Len(lots) /\ \A k \in 1 .. Len(lots) : lots[k] \in Lot
    OBVIOUS
  <1>2. DOMAIN CostOf(lots) = 1 .. Len(lots)
    BY <1>1 DEF CostOf
  <1>3. \A k \in 1 .. Len(lots) : CostOf(lots)[k] = lots[k].qty * lots[k].price
    BY <1>1 DEF CostOf
  <1>4. \A k \in 1 .. Len(lots) : CostOf(lots)[k] \in Nat
    BY <1>1, <1>3, LotCost
  <1>5. IsFiniteSet(1 .. Len(lots))
    BY FS_Interval
  <1> QED BY <1>2, <1>3, <1>4, <1>5, SumNat DEF CostIn, SumFunction

LEMMA CostAppend ==
    ASSUME NEW lots \in Seq(Lot), NEW lot \in Lot
    PROVE  CostIn(Append(lots, lot)) = CostIn(lots) + lot.qty * lot.price
  <1> DEFINE n == Len(lots)
             more == Append(lots, lot)
             f == CostOf(lots)
             g == CostOf(more)
             x == lot.qty * lot.price
  <1>1. /\ n \in Nat /\ more \in Seq(Lot) /\ Len(more) = n + 1 /\ more[n + 1] = lot
        /\ \A k \in 1 .. n : k \in 1 .. n + 1 /\ more[k] = lots[k]
    OBVIOUS
  <1> HIDE DEF more
  <1>2. /\ CostIn(more) = SumFunctionOnSet(g, 1 .. n + 1)
        /\ \A k \in 1 .. n + 1 : g[k] \in Nat /\ g[k] = more[k].qty * more[k].price
    <2> HIDE DEF n
    <2>1. /\ CostIn(more) = SumFunctionOnSet(g, 1 .. Len(more))
          /\ \A k \in 1 .. Len(more) : g[k] \in Nat /\ g[k] = more[k].qty * more[k].price
      BY <1>1, CostNat
    <2> QED BY <1>1, <2>1
  <1>3. /\ CostIn(lots) = SumFunctionOnSet(f, 1 .. n)
        /\ \A k \in 1 .. n : f[k] \in Nat /\ f[k] = lots[k].qty * lots[k].price
    BY CostNat
  <1> HIDE DEF f, g, n
  <1>4. n + 1 \in 1 .. n + 1
    BY <1>1
  <1>5. g[n + 1] = x /\ \A k \in 1 .. n : f[k] \in Int /\ g[k] = f[k]
    BY <1>1, <1>2, <1>3, <1>4
  <1>6. SumFunctionOnSet(g, 1 .. n) = SumFunctionOnSet(f, 1 .. n)
    <2>1. IsFiniteSet(1 .. n)
      BY <1>1, FS_Interval
    <2> QED BY <1>5, <2>1, SumAgree
  <1>7. /\ SumFunctionOnSet(g, 1 .. n + 1) = g[n + 1] + SumFunctionOnSet(g, 1 .. n)
        /\ SumFunctionOnSet(g, 1 .. n) \in Int
    <2>1. \A k \in 1 .. n + 1 : g[k] \in Int
      BY <1>2
    <2> QED BY <1>1, <2>1, SumUpTo
  <1>8. g[n + 1] \in Int
    BY <1>2, <1>4
  <1>9. CostIn(more) = CostIn(lots) + x
    <2> HIDE DEF x
    <2> QED BY <1>2, <1>3, <1>5, <1>6, <1>7, <1>8
  <1> QED BY <1>9 DEF more

\* No shares cost nothing.
LEMMA CostNone ==
    ASSUME NEW lots \in Seq(Lot), HeldIn(lots) = 0
    PROVE  CostIn(lots) = 0
  <1> DEFINE K == 1 .. Len(lots)
             q == QtyOf(lots)
             c == CostOf(lots)
  <1>1. SumFunctionOnSet(q, K) = 0 /\ \A k \in K : q[k] \in Nat
    BY HeldNat, LotCuttable
  <1>2. CostIn(lots) = SumFunctionOnSet(c, K) /\ \A k \in K : c[k] = lots[k].qty * lots[k].price
    BY CostNat
  <1>3. IsFiniteSet(K) /\ \A k \in K : lots[k] \in Lot /\ q[k] = lots[k].qty
    <2>1. DOMAIN lots = K /\ \A k \in K : lots[k] \in Lot
      OBVIOUS
    <2>2. IsFiniteSet(K)
      BY FS_Interval
    <2> HIDE DEF K
    <2> QED BY <2>1, <2>2 DEF QtyOf
  <1> HIDE DEF K, q, c
  <1>4. ASSUME NEW k \in K PROVE c[k] = 0
    <2>1. \A j \in K : q[j] \in Int
      BY <1>1
    <2>2. 0 = q[k] + SumFunctionOnSet(q, K \ {k})
      BY <1>1, <1>3, <2>1, SumRemove DEF SumWorks
    <2>3. SumFunctionOnSet(q, K \ {k}) \in Nat
      BY <1>1, <1>3, SumGrows
    <2>4. q[k] = 0
      BY <1>1, <2>2, <2>3
    <2>5. lots[k].qty = 0 /\ lots[k].price \in Nat
      BY <1>3, <2>4, LotCost
    <2> QED BY <1>2, <2>5
  <1> QED BY <1>2, <1>3, <1>4, SumZero

LEMMA ConsumeCost ==
    ASSUME NEW acc \in Selling, NEW lot \in Lot
    PROVE  CostIn(Consume(acc, lot).lots) <= CostIn(acc.lots) + lot.qty * lot.price
  <1> DEFINE take == IF lot.qty < acc.remaining THEN lot.qty ELSE acc.remaining
             rest == [lot EXCEPT !.qty = @ - take]
             p == lot.price
             x == lot.qty * p
             y == (lot.qty - take) * p
  <1>1. lot.qty \in Nat /\ p \in Nat /\ x \in Nat /\ acc.remaining \in Nat /\ acc.lots \in Seq(Lot)
    BY LotCost DEF Selling
  <1>2. take \in Nat /\ take <= lot.qty
    BY <1>1
  <1>3. rest \in Lot /\ rest.qty = lot.qty - take /\ rest.price = p
    BY <1>1, <1>2 DEF Lot
  <1>4. Consume(acc, lot).lots = IF take = lot.qty THEN acc.lots ELSE Append(acc.lots, rest)
    BY DEF Consume, Selling
  <1>5. CostIn(acc.lots) \in Nat
    BY <1>1, CostNat
  <1> HIDE DEF take, rest
  <1>6. CostIn(Append(acc.lots, rest)) = CostIn(acc.lots) + y
    BY <1>1, <1>3, CostAppend
  <1>7. y \in Int /\ y <= x
    <2> DEFINE a == lot.qty
    <2>1. a \in Nat /\ a - take \in Nat
      BY <1>1, <1>2
    <2> HIDE DEF a, p
    <2>2. take * p \in Nat /\ (a - take) * p = a * p - take * p
      BY <1>1, <1>2, <2>1
    <2>3. a * p \in Nat
      BY <1>1, <2>1
    <2>4. (a - take) * p \in Int /\ (a - take) * p <= a * p
      BY <2>2, <2>3
    <2> QED BY <2>4 DEF a
  <1> HIDE DEF x, y
  <1>8. CostIn(Consume(acc, lot).lots) <= CostIn(acc.lots) + x
    BY <1>1, <1>4, <1>5, <1>6, <1>7
  <1> QED BY <1>8 DEF x, p

\* Selling does not add to the cost of what stays.
LEMMA SellCost ==
    ASSUME NEW w \in Walker, NEW t, t.qty \in Nat, t.price \in Nat
    PROVE  CostIn(WalkSell(w, t).lots) <= CostIn(w.lots)
  <1> DEFINE base == [remaining |-> t.qty, price |-> t.price, realized |-> w.realized, lots |-> << >>]
             n == Len(w.lots)
             c == CostOf(w.lots)
             acc == ConsumeAll(base, w.lots)
  <1>1. w.lots \in Seq(Lot) /\ w.realized \in Int
    BY DEF Walker
  <1>2. n \in Nat /\ DOMAIN w.lots = 1 .. n /\ \A k \in 1 .. n : w.lots[k] \in Lot
    BY <1>1
  <1>3. /\ CostIn(w.lots) = SumFunctionOnSet(c, 1 .. n)
        /\ \A k \in 1 .. n : c[k] \in Nat /\ c[k] = w.lots[k].qty * w.lots[k].price
    BY <1>1, CostNat
  <1>4. base \in Selling /\ base.remaining = t.qty /\ HeldIn(base.lots) = 0 /\ CostIn(base.lots) = 0
    BY <1>1, HeldEmpty, CostEmpty DEF Selling
  <1>5. WalkSell(w, t).lots = acc.lots
    BY DEF WalkSell, ConsumeAll, Walker
  <1> HIDE DEF base, n, c, acc
  <1>6. PICK run : Consumes(run, base, w.lots, n)
    BY <1>2, ConsumeRun
  <1>7. /\ run[0] = base /\ run[n] = acc
        /\ \A k \in 1 .. n : run[k] = Consume(run[k - 1], w.lots[k])
    BY <1>6 DEF Consumes, acc
  <1> DEFINE Ok(k) == /\ run[k] \in Selling
                      /\ run[k].remaining = 0 \/ HeldIn(run[k].lots) = 0
                      /\ CostIn(run[k].lots) <= SumFunctionOnSet(c, 1 .. k)
             P == {k \in Nat : k <= n => Ok(k)}
  <1>8. 0 \in P
    <2>1. 1 .. 0 = {}
      OBVIOUS
    <2> QED BY <1>4, <1>7, <2>1, SumEmpty
  <1>9. ASSUME NEW k \in Nat, k \in P PROVE k + 1 \in P
    <2> SUFFICES ASSUME k + 1 <= n PROVE Ok(k + 1)
      OBVIOUS
    <2> DEFINE a == run[k]
               b == run[k + 1]
               lot == w.lots[k + 1]
               old == SumFunctionOnSet(c, 1 .. k)
               sum == SumFunctionOnSet(c, 1 .. k + 1)
               x == c[k + 1]
    <2>1. k + 1 \in 1 .. n /\ (k + 1) - 1 = k /\ k <= n
      BY <1>2
    <2>2. a \in Selling /\ (a.remaining = 0 \/ HeldIn(a.lots) = 0) /\ CostIn(a.lots) <= old
      BY <1>9, <2>1
    <2>3. b = Consume(a, lot) /\ lot \in Lot /\ x = lot.qty * lot.price /\ x \in Nat
      BY <1>2, <1>3, <1>7, <2>1
    <2>4. sum = x + old /\ old \in Int
      <3>1. \A j \in 1 .. k + 1 : c[j] \in Int
        BY <1>2, <1>3, <2>1
      <3> QED BY <3>1, SumUpTo
    <2> HIDE DEF a, b, lot, old, sum, x
    <2>5. b \in Selling /\ (b.remaining = 0 \/ HeldIn(b.lots) = 0)
      BY <2>2, <2>3, ConsumeLot
    <2>6. CostIn(b.lots) <= CostIn(a.lots) + x
      BY <2>2, <2>3, ConsumeCost
    <2>7. CostIn(a.lots) \in Nat /\ CostIn(b.lots) \in Nat
      BY <2>2, <2>5, CostNat DEF Selling
    <2>8. CostIn(b.lots) <= sum
      BY <2>2, <2>3, <2>4, <2>6, <2>7
    <2> QED BY <2>5, <2>8 DEF b, sum
  <1>10. Ok(n)
    <2> HIDE DEF Ok
    <2>1. \A k \in Nat : k \in P
      <3> HIDE DEF P
      <3> QED BY <1>8, <1>9, InductionSet
    <2> QED BY <1>2, <2>1
  <1> QED BY <1>3, <1>5, <1>7, <1>10

\* What a row pays out.
Earned(t) == IF t.kind = "dividend" THEN t.qty * t.price ELSE 0
EarnedOf(rows) == [t \in rows |-> Earned(t)]

LEMMA CostRow ==
    ASSUME NEW w \in Walker, NEW t, Trade(t)
    PROVE  /\ CostIn(Walk(w, t).lots) <= CostIn(w.lots) + Spent(t)
           /\ t.kind # "sell" => CostIn(Walk(w, t).lots) = CostIn(w.lots) + Spent(t)
           /\ Walk(w, t).dividends = w.dividends + Earned(t) /\ Earned(t) \in Nat
  <1> DEFINE v == Walk(w, t)
             x == t.qty * t.price
  <1>1. w.lots \in Seq(Lot) /\ w.dividends \in Nat /\ w.invested \in Nat /\ w.realized \in Int
    BY DEF Walker
  <1>2. t.qty \in Nat /\ t.price \in Nat /\ x \in Nat /\ t.kind \in Acquired \cup {"sell", "dividend"}
    BY TradeTypes DEF Trade
  <1>3. CostIn(w.lots) \in Nat
    BY <1>1, CostNat
  <1>4. CASE t.kind = "sell"
    <2>1. v = WalkSell(w, t) /\ Spent(t) = 0 /\ Earned(t) = 0
      BY <1>4 DEF Walk, Spent, Earned, Acquired
    <2>2. WalkSell(w, t).dividends = w.dividends /\ WalkSell(w, t) \in Walker
      BY <1>2, SellTakes
    <2>3. CostIn(WalkSell(w, t).lots) <= CostIn(w.lots)
      BY <1>2, SellCost
    <2> HIDE DEF v
    <2> QED BY <1>1, <1>3, <1>4, <2>1, <2>2, <2>3 DEF v
  <1>5. CASE t.kind = "dividend"
    <2>1. Spent(t) = 0 /\ Earned(t) = x
      BY <1>5 DEF Spent, Earned, Acquired
    <2>2. v = [w EXCEPT !.dividends = w.dividends + x]
      BY <1>5 DEF Walk
    <2> HIDE DEF x
    <2>3. v.lots = w.lots /\ v.dividends = w.dividends + x
      BY <2>2 DEF Walker
    <2> HIDE DEF v
    <2> QED BY <1>1, <1>2, <1>3, <2>1, <2>3 DEF v
  <1>6. CASE t.kind \in Acquired
    <2> DEFINE lot == [qty |-> t.qty, price |-> t.price]
    <2>1. Spent(t) = x /\ Earned(t) = 0
      BY <1>6 DEF Spent, Earned, Acquired
    <2>2. v = [w EXCEPT !.lots = Append(w.lots, lot), !.invested = w.invested + x]
      BY <1>6 DEF Walk, Acquired
    <2>3. lot \in Lot /\ lot.qty * lot.price = x
      BY <1>2 DEF Lot
    <2> HIDE DEF x, lot
    <2>4. v.lots = Append(w.lots, lot) /\ v.dividends = w.dividends
      BY <2>2 DEF Walker
    <2>5. CostIn(v.lots) = CostIn(w.lots) + x
      BY <1>1, <2>3, <2>4, CostAppend
    <2> HIDE DEF v
    <2> QED BY <1>1, <1>2, <1>3, <2>1, <2>4, <2>5 DEF v
  <1> QED BY <1>2, <1>4, <1>5, <1>6


\* Dividend rows, and what they paid.
Dividends(rows) == {t \in rows : t.kind = "dividend"}

LEMMA EarnedSums ==
    ASSUME NEW rows, Rows(rows)
    PROVE  /\ SumFunctionOnSet(EarnedOf(rows), rows) = Paid(Dividends(rows))
           /\ Paid(Dividends(rows)) \in Nat
           /\ \A t \in rows : EarnedOf(rows)[t] = Earned(t) /\ Earned(t) \in Nat
           /\ \A part \in SUBSET Dividends(rows) :
                Paid(part) \in Int /\ Paid(part) <= Paid(Dividends(rows))
  <1> DEFINE div == Dividends(rows)
             rest == rows \ div
             paid == [t \in div |-> t.qty * t.price]
             f == EarnedOf(rows)
  <1>1. div \subseteq rows /\ \A t \in rows : t \in div <=> t.kind = "dividend"
    BY DEF Dividends
  <1>2. \A t \in rows : t.qty * t.price \in Nat
    BY TradeTypes DEF Rows
  <1>3. \A t \in rows : f[t] = Earned(t) /\ Earned(t) \in Nat
    BY <1>2 DEF EarnedOf, Earned
  <1>4. \A t \in div : paid[t] = t.qty * t.price
    OBVIOUS
  <1>5. Paid(div) = SumFunctionOnSet(paid, div)
    BY DEF Paid, SumFunction
  <1> HIDE DEF div, paid, f
  <1>6. IsFiniteSet(div) /\ IsFiniteSet(rest) /\ div \cup rest = rows /\ div \cap rest = {}
    BY <1>1, FS_Subset DEF Rows
  <1>7. \A t \in div : f[t] = paid[t] /\ paid[t] \in Nat
    BY <1>1, <1>2, <1>3, <1>4 DEF Earned
  <1>8. \A t \in rest : f[t] = 0
    BY <1>1, <1>3 DEF Earned
  <1>9. SumFunctionOnSet(f, rest) = 0
    <2> HIDE DEF rest
    <2> QED BY <1>6, <1>8, SumZero
  <1>10. SumFunctionOnSet(f, div) = Paid(div) /\ Paid(div) \in Nat
    <2>1. \A t \in div : paid[t] \in Int /\ f[t] = paid[t]
      BY <1>7
    <2> QED BY <1>5, <1>6, <1>7, <2>1, SumAgree, SumNat
  <1>11. SumFunctionOnSet(f, rows) = SumFunctionOnSet(f, div) + SumFunctionOnSet(f, rest)
    <2>1. \A t \in div \cup rest : f[t] \in Int
      BY <1>3, <1>6
    <2> HIDE DEF rest
    <2> QED BY <1>6, <2>1, SumSplit
  <1> HIDE DEF rest
  <1>12. SumFunctionOnSet(f, rows) = Paid(div)
    BY <1>9, <1>10, <1>11
  <1>13. ASSUME NEW part \in SUBSET div PROVE Paid(part) \in Int /\ Paid(part) <= Paid(div)
    <2> DEFINE some == [t \in part |-> t.qty * t.price]
    <2>1. Paid(part) = SumFunctionOnSet(some, part)
      BY DEF Paid, SumFunction
    <2>2. IsFiniteSet(part) /\ \A t \in part : some[t] = paid[t] /\ paid[t] \in Int
      BY <1>4, <1>6, <1>7, FS_Subset
    <2> HIDE DEF some
    <2>3. SumFunctionOnSet(some, part) = SumFunctionOnSet(paid, part)
      BY <2>2, SumAgree
    <2>4. SumFunctionOnSet(paid, part) <= SumFunctionOnSet(paid, div)
      BY <1>6, <1>7, SumGrows
    <2>5. SumFunctionOnSet(paid, part) \in Nat
      <3>1. \A t \in part : paid[t] \in Nat
        BY <1>7
      <3> QED BY <2>2, <3>1, SumNat
    <2> QED BY <1>5, <2>1, <2>3, <2>4, <2>5
  <1> QED BY <1>3, <1>10, <1>12, <1>13 DEF div, f

(***************************************************************************)
(* The lots left cost no more than was invested, exactly that when nothing *)
(* was sold, and the walk adds up the dividends.                           *)
(***************************************************************************)
LEMMA WalkCost ==
    ASSUME NEW rows, Rows(rows), NEW seq, NEW n, Lists(seq, n, rows)
    PROVE  LET w == WalkAll(NoWalk, seq)
           IN  /\ CostIn(w.lots) <= w.invested /\ (Sells(rows) = {} => CostIn(w.lots) = w.invested)
               /\ w.dividends = Paid(Dividends(rows))
  <1> DEFINE d == [k \in 1 .. n |-> EarnedOf(rows)[seq[k]]]
             got == [k \in 0 .. n |-> SumFunctionOnSet(d, 1 .. k)]
  <1>1. n \in Nat /\ DOMAIN seq = 1 .. n /\ \A k \in 1 .. n : seq[k] \in rows
    BY DEF Lists
  <1>2. \A k \in 1 .. n : Trade(seq[k])
    BY <1>1 DEF Rows
  <1>3. \A k \in 1 .. n : d[k] = Earned(seq[k]) /\ d[k] \in Nat
    BY <1>1, EarnedSums
  <1>4. got[n] = Paid(Dividends(rows))
    <2>1. n \in 0 .. n
      BY <1>1
    <2>2. \A t \in rows : EarnedOf(rows)[t] \in Int
      BY EarnedSums
    <2>3. SumFunctionOnSet(d, 1 .. n) = SumFunctionOnSet(EarnedOf(rows), rows)
      BY <2>2, SumListed
    <2> HIDE DEF d
    <2> QED BY <2>1, <2>3, EarnedSums
  <1> HIDE DEF d
  <1>5. got[0] = 0
    <2>1. 0 \in 0 .. n /\ 1 .. 0 = {}
      BY <1>1
    <2> QED BY <2>1, SumEmpty
  <1>6. ASSUME NEW k \in Nat, k + 1 <= n PROVE got[k + 1] = d[k + 1] + got[k] /\ got[k] \in Int /\ d[k + 1] \in Nat
    <2>1. k \in 0 .. n /\ k + 1 \in 0 .. n /\ k + 1 \in 1 .. n /\ \A j \in 1 .. k + 1 : j \in 1 .. n
      BY <1>1, <1>6
    <2>2. \A j \in 1 .. k + 1 : d[j] \in Int
      BY <1>3, <2>1
    <2>3. SumFunctionOnSet(d, 1 .. k + 1) = d[k + 1] + SumFunctionOnSet(d, 1 .. k) /\ SumFunctionOnSet(d, 1 .. k) \in Int
      BY <2>2, SumUpTo
    <2> QED BY <1>3, <2>1, <2>3
  <1> HIDE DEF got
  <1>7. PICK run : Walks(run, NoWalk, seq, n)
    BY <1>1, WalkRun
  <1> DEFINE Ok(k) == /\ run[k] \in Walker /\ CostIn(run[k].lots) <= run[k].invested
                      /\ Sells(rows) = {} => CostIn(run[k].lots) = run[k].invested
                      /\ run[k].dividends = got[k]
             P == {k \in Nat : k <= n => Ok(k)}
  <1>8. 0 \in P
    <2>1. run[0] = NoWalk
      BY <1>7 DEF Walks
    <2>2. NoWalk \in Walker /\ CostIn(NoWalk.lots) = 0 /\ NoWalk.invested = 0 /\ NoWalk.dividends = 0
      BY CostEmpty DEF NoWalk, Walker
    <2> QED BY <1>5, <2>1, <2>2
  <1>9. ASSUME NEW k \in Nat, k \in P PROVE k + 1 \in P
    <2> SUFFICES ASSUME k + 1 <= n PROVE Ok(k + 1)
      OBVIOUS
    <2> DEFINE w == run[k]
               v == run[k + 1]
               t == seq[k + 1]
               old == got[k]
               sum == got[k + 1]
    <2>1. k + 1 \in 1 .. n /\ (k + 1) - 1 = k /\ k <= n
      BY <1>1
    <2>2. /\ w \in Walker /\ CostIn(w.lots) <= w.invested
          /\ Sells(rows) = {} => CostIn(w.lots) = w.invested
          /\ w.dividends = old
      BY <1>9, <2>1
    <2>3. v = Walk(w, t)
      BY <1>7, <2>1 DEF Walks
    <2>4. Trade(t) /\ t \in rows
      BY <1>1, <1>2, <2>1
    <2>5. sum = Earned(t) + old /\ old \in Int
      BY <1>3, <1>6, <2>1
    <2> HIDE DEF w, v, t, old, sum
    <2>6. v \in Walker /\ v.invested = w.invested + Spent(t)
      BY <2>2, <2>3, <2>4, WalkRow
    <2>7. /\ CostIn(v.lots) <= CostIn(w.lots) + Spent(t)
          /\ t.kind # "sell" => CostIn(v.lots) = CostIn(w.lots) + Spent(t)
          /\ v.dividends = w.dividends + Earned(t) /\ Earned(t) \in Nat
      BY <2>2, <2>3, <2>4, CostRow
    <2>8. /\ CostIn(w.lots) \in Nat /\ CostIn(v.lots) \in Nat /\ Spent(t) \in Nat
          /\ w.invested \in Nat /\ w.dividends \in Nat
      BY <2>2, <2>4, <2>6, CostNat, TradeTypes DEF Walker
    <2>9. Sells(rows) = {} => t.kind # "sell"
      BY <2>4 DEF Sells
    <2>10. CostIn(v.lots) <= v.invested
      BY <2>2, <2>6, <2>7, <2>8
    <2>11. Sells(rows) = {} => CostIn(v.lots) = v.invested
      BY <2>2, <2>6, <2>7, <2>9
    <2>12. v.dividends = sum
      BY <2>2, <2>5, <2>7
    <2> QED BY <2>6, <2>10, <2>11, <2>12 DEF v, sum
  <1>10. Ok(n)
    <2> HIDE DEF Ok
    <2>1. \A k \in Nat : k \in P
      <3> HIDE DEF P
      <3> QED BY <1>8, <1>9, InductionSet
    <2> QED BY <1>1, <2>1
  <1>11. run[n] = WalkAll(NoWalk, seq)
    BY <1>7 DEF Walks
  <1> QED BY <1>4, <1>10, <1>11

\* The average is within half a unit of the cost per share.
LEMMA AvgCostClose ==
    ASSUME NEW cost \in Nat, NEW qty \in Nat, qty > 0
    PROVE  LET a == HalfEven(cost, qty)
           IN  a \in Nat /\ a * qty \in Nat /\ 2 * (a * qty) - 2 * cost \in -qty .. qty
  <1> DEFINE a == HalfEven(cost, qty)
  <1>1. a \in Int /\ 2 * (qty * a) - 2 * cost \in -qty .. qty /\ a >= 0
    BY HalfEvenClose
  <1> HIDE DEF a
  <1>2. a \in Nat
    BY <1>1
  <1>3. qty * a = a * qty /\ a * qty \in Nat
    BY <1>2
  <1> QED BY <1>1, <1>2, <1>3 DEF a

(***************************************************************************)
(* The snapshot's columns, brought to one unit: what was ever paid for     *)
(* shares is at least what the average makes of those held, up to the      *)
(* roundings of both, and the same when nothing was sold.                  *)
(***************************************************************************)
LEMMA SnapshotCost ==
    ASSUME NEW rows, Rows(rows)
    PROVE  LET h == Snapshot(rows)
               x == Paisa * h.invested
               y == h.avg_cost * h.quantity
           IN  /\ h.quantity \in Nat /\ h.invested \in Nat /\ h.avg_cost \in Nat
               /\ x \in Nat /\ y \in Nat
               /\ 2 * y - 2 * x <= h.quantity + Paisa
               /\ Sells(rows) = {} => 2 * x - 2 * y <= h.quantity + Paisa
               /\ h.dividends = HalfEven(Paid(Dividends(rows)), Paisa)
  <1> DEFINE h == Snapshot(rows)
             w == WalkAll(NoWalk, Sorted(rows))
             qty == HeldIn(w.lots)
             cost == CostIn(w.lots)
             avg == IF qty > 0 THEN HalfEven(cost, qty) ELSE 0
  <1>1. h = IF qty = 0 /\ w.dividends = 0 /\ w.realized = 0 THEN NoHolding
            ELSE [quantity |-> qty, avg_cost |-> avg,
                  invested |-> HalfEven(w.invested, Paisa),
                  realized |-> HalfEven(w.realized, Paisa),
                  dividends |-> HalfEven(w.dividends, Paisa), present |-> TRUE]
    BY DEF Snapshot, WalkAll, NoWalk, HeldIn, QtyOf, CostIn, CostOf
  <1>2. w \in Walker
    BY SortedLists, WalkTotals
  <1>3. /\ cost <= w.invested /\ (Sells(rows) = {} => cost = w.invested)
        /\ w.dividends = Paid(Dividends(rows))
    BY SortedLists, WalkCost
  <1> HIDE DEF w
  <1>4. w.lots \in Seq(Lot) /\ w.invested \in Nat /\ w.dividends \in Nat
    BY <1>2 DEF Walker
  <1>5. qty \in Nat /\ cost \in Nat /\ (qty = 0 => cost = 0)
    BY <1>4, HeldNat, LotCuttable, CostNat, CostNone
  <1> HIDE DEF qty, cost
  <1>6. avg \in Nat /\ avg * qty \in Nat /\ 2 * (avg * qty) - 2 * cost \in -qty .. qty
    <2>1. CASE qty > 0
      <3>1. avg = HalfEven(cost, qty)
        BY <2>1
      <3> HIDE DEF avg
      <3> QED BY <1>5, <2>1, <3>1, AvgCostClose
    <2>2. CASE ~(qty > 0)
      <3>1. avg = 0 /\ qty = 0 /\ cost = 0
        BY <1>5, <2>2
      <3> HIDE DEF avg
      <3> QED BY <3>1
    <2> QED BY <2>1, <2>2
  <1> HIDE DEF avg
  <1> DEFINE inv == HalfEven(w.invested, Paisa)
             div == HalfEven(w.dividends, Paisa)
  <1>7. inv \in Nat /\ Paisa * inv \in Nat /\ 2 * (Paisa * inv) - 2 * w.invested \in -Paisa .. Paisa
    <2>1. inv \in Int /\ inv >= 0 /\ 2 * (Paisa * inv) - 2 * w.invested \in -Paisa .. Paisa
      <3> DEFINE i == w.invested
      <3>1. i \in Int /\ i >= 0
        BY <1>4
      <3> HIDE DEF i
      <3>2. /\ HalfEven(i, Paisa) \in Int /\ HalfEven(i, Paisa) >= 0
            /\ 2 * (Paisa * HalfEven(i, Paisa)) - 2 * i \in -Paisa .. Paisa
        BY <3>1, HalfEvenClose, PaisaAssumption
      <3> QED BY <3>2 DEF i
    <2> HIDE DEF inv
    <2>2. Paisa * inv \in Nat
      BY <2>1, PaisaAssumption
    <2> QED BY <2>1, <2>2
  <1>8. w.dividends = 0 => div = 0
    BY <1>4, HalfEvenClose, PaisaAssumption
  <1>9. div = HalfEven(Paid(Dividends(rows)), Paisa)
    BY <1>3
  <1> HIDE DEF inv, div
  <1>10. CASE h = NoHolding /\ w.dividends = 0
    <2>1. h.quantity = 0 /\ h.invested = 0 /\ h.avg_cost = 0 /\ h.dividends = 0
      BY <1>10 DEF NoHolding
    <2> HIDE DEF h
    <2>2. h.dividends = HalfEven(Paid(Dividends(rows)), Paisa)
      BY <1>8, <1>9, <1>10, <2>1
    <2>3. Paisa * h.invested = 0 /\ h.avg_cost * h.quantity = 0
      BY <2>1, PaisaAssumption
    <2> QED BY <2>1, <2>2, <2>3, PaisaAssumption DEF h
  <1>11. CASE ~(qty = 0 /\ w.dividends = 0 /\ w.realized = 0)
    <2>1. h.quantity = qty /\ h.invested = inv /\ h.avg_cost = avg /\ h.dividends = div
      BY <1>1, <1>11 DEF inv, div
    <2> HIDE DEF h
    <2> DEFINE y == avg * qty
               x == Paisa * inv
               i == w.invested
    <2>2. y \in Nat /\ 2 * y - 2 * cost \in -qty .. qty /\ cost <= i /\ i \in Nat
      BY <1>3, <1>4, <1>6
    <2>3. (Sells(rows) = {} => cost = i) /\ x \in Nat /\ 2 * x - 2 * i \in -Paisa .. Paisa
      BY <1>3, <1>7
    <2>4. Paisa * h.invested = x /\ h.avg_cost * h.quantity = y
      BY <2>1
    <2> HIDE DEF y, x, i
    <2>5. 2 * y - 2 * x <= qty + Paisa
      BY <1>5, <2>2, <2>3, PaisaAssumption
    <2>6. Sells(rows) = {} => 2 * x - 2 * y <= qty + Paisa
      BY <1>5, <2>2, <2>3, PaisaAssumption
    <2>7. h.dividends = HalfEven(Paid(Dividends(rows)), Paisa)
      BY <1>9, <2>1
    <2> QED BY <1>5, <1>6, <1>7, <2>1, <2>2, <2>3, <2>4, <2>5, <2>6, <2>7 DEF h
  <1> QED BY <1>1, <1>10, <1>11

-----------------------------------------------------------------------------
\* What a sale of all open lots would cost: never more for a filer.
LEMMA CgtIfSold ==
    ASSUME NEW rows, Rows(rows), NEW holding, NEW close \in Int, NEW today \in Int
    PROVE  LET f == cgt_if_sold(rows, holding, close, today, TRUE)
               g == cgt_if_sold(rows, holding, close, today, FALSE)
           IN  f \in Nat /\ g \in Nat /\ f <= g
  <1> DEFINE acq == Acquisitions(rows)
             S == Parts(acq)
             lots == LotsOf(rows)
             all == HeldIn(lots)
             a == match_fifo(lots, all, close, today, TRUE, SeedBrackets)
             b == match_fifo(lots, all, close, today, FALSE, SeedBrackets)
             f == cgt_if_sold(rows, holding, close, today, TRUE)
             g == cgt_if_sold(rows, holding, close, today, FALSE)
             none == close = NoClose \/ holding.quantity = 0 \/ lots = << >>
  <1>1. Rows(acq)
    BY FS_Subset DEF Rows, Acquisitions
  <1>2. /\ f = IF none \/ a.error = "no_rule" THEN 0 ELSE a.cgt
        /\ g = IF none \/ b.error = "no_rule" THEN 0 ELSE b.cgt
    BY DEF cgt_if_sold, LotsOf, HeldIn, QtyOf
  <1>3. TaxLots(S) /\ Sorted(acq) \in Seq(S) /\ Quantity(Sells(rows)) \in Nat
    BY <1>1, PartTaxLots, ListedHeld, SoldSums
  <1>4. lots \in Seq(S)
    <2> DEFINE seq == Sorted(acq)
               sold == Quantity(Sells(rows))
    <2>1. lots = OpenLots(seq, sold) /\ seq \in Seq(S) /\ sold \in Nat /\ Cuttable(S)
      BY <1>3 DEF LotsOf, TaxLots
    <2> HIDE DEF seq, sold, S, lots
    <2> QED BY <2>1, OpenLotsHeld
  <1> HIDE DEF S, lots
  <1>5. all \in Nat
    BY <1>3, <1>4, HeldNat DEF TaxLots
  <1> HIDE DEF all
  <1>6. Beside(a, b)
    BY <1>3, <1>4, <1>5, BesideMatch DEF TaxLots
  <1> HIDE DEF a, b, f, g, none
  <1>7. a.error = b.error /\ a.cgt \in Nat /\ b.cgt \in Nat /\ a.cgt <= b.cgt
    BY <1>6 DEF Beside
  <1>8. f \in Nat /\ g \in Nat /\ f <= g
    BY <1>2, <1>7
  <1> QED BY <1>8 DEF f, g

\* What a summary says: gross is the profit left when the tax is given back.
LEMMA SummaryFigures ==
    ASSUME NEW rows, Rows(rows), NEW close \in Prices \cup {NoClose}, NEW today \in Int, NEW start
    PROVE  LET h == Snapshot(rows)
               s == summary(rows, h, close, today, Filer, start)
               gross == s.after_tax + s.cgt - s.unrealized
               slack == h.quantity + 3 * Paisa
           IN  /\ close # NoClose /\ Sells(rows) = {} => 2 * Paisa * gross <= slack
               /\ 2 * Paisa * gross >= -slack
               /\ s.after_tax <= HalfEven(unrealized_pnl(h, close), Paisa)
               /\ cgt_if_sold(rows, h, close, today, TRUE) <= cgt_if_sold(rows, h, close, today, FALSE)
               /\ s.ytd.dividends <= h.dividends
  <1> DEFINE h == Snapshot(rows)
             s == summary(rows, h, close, today, Filer, start)
             gross == s.after_tax + s.cgt - s.unrealized
             q == h.quantity
             slack == q + 3 * Paisa
             avg == h.avg_cost
             y == avg * q
             x == Paisa * h.invested
             value == market_value(h, close)
             pnl == unrealized_pnl(h, close)
             f == cgt_if_sold(rows, h, close, today, TRUE)
             g == cgt_if_sold(rows, h, close, today, FALSE)
             c == cgt_if_sold(rows, h, close, today, Filer)
             year == {t \in rows : t.date >= start}
             part == {t \in year : t.kind = "dividend"}
             none == Sells(rows) = {}
             u == HalfEven(value - x, Paisa)
             a == HalfEven(pnl - Paisa * c, Paisa)
  <1>1. close \in Int /\ Paisa \in Nat \ {0}
    BY TradeAssumption, PaisaAssumption DEF NoClose
  <1>2. /\ q \in Nat /\ avg \in Nat /\ x \in Nat /\ y \in Nat
        /\ 2 * y - 2 * x <= q + Paisa
        /\ none => 2 * x - 2 * y <= q + Paisa
        /\ h.dividends = HalfEven(Paid(Dividends(rows)), Paisa)
    BY SnapshotCost
  <1>3. /\ s.unrealized = u /\ s.after_tax = a /\ s.cgt = c
        /\ s.ytd.dividends = HalfEven(Paid(part), Paisa)
    BY DEF summary, _ytd_aggregates
  <1>4. part \in SUBSET Dividends(rows)
    BY DEF Dividends
  <1>5. s.ytd.dividends <= h.dividends
    <2> HIDE DEF part, h, s
    <2>1. Paid(part) \in Int /\ Paid(Dividends(rows)) \in Int /\ Paid(part) <= Paid(Dividends(rows))
      BY <1>4, EarnedSums
    <2> QED BY <1>1, <1>2, <1>3, <2>1, HalfEvenGrows
  <1>6. /\ value = IF close = NoClose THEN 0 ELSE close * q
        /\ pnl = IF close = NoClose THEN 0 ELSE (close - avg) * q
    BY DEF market_value, unrealized_pnl
  <1> HIDE DEF h
  <1>7. f \in Nat /\ g \in Nat /\ f <= g
    BY <1>1, CgtIfSold
  <1>8. c \in Nat
    <2>1. CASE Filer = TRUE
      BY <1>7, <2>1
    <2>2. CASE Filer = FALSE
      BY <1>7, <2>2
    <2> QED BY <2>1, <2>2, TradeAssumption
  <1> HIDE DEF s, value, pnl, f, g, c, none, q, avg, x
  <1>9. (close - avg) * q = close * q - y /\ close * q \in Int
    BY <1>1, <1>2
  <1> HIDE DEF y
  <1>10. value \in Int /\ pnl \in Int /\ (pnl - value = IF close = NoClose THEN 0 ELSE -y)
    <2> DEFINE z == close * q
               zz == (close - avg) * q
    <2>1. value = IF close = NoClose THEN 0 ELSE z
      BY <1>6
    <2>2. pnl = IF close = NoClose THEN 0 ELSE zz
      BY <1>6
    <2>3. z \in Int /\ zz = z - y
      BY <1>9
    <2> HIDE DEF z, zz
    <2> QED BY <1>2, <2>1, <2>2, <2>3
  <1> DEFINE pc0 == Paisa * c
             u0 == value - x
             a0 == pnl - pc0
  <1>11. pc0 \in Nat
    BY <1>1, <1>8
  <1>12. u0 \in Int /\ a0 \in Int /\ a0 <= pnl
    <2> HIDE DEF pc0
    <2> QED BY <1>2, <1>10, <1>11
  <1> HIDE DEF u0, a0
  <1>13. /\ u \in Int /\ Paisa * u \in Int /\ 2 * (Paisa * u) - 2 * u0 \in -Paisa .. Paisa
         /\ a \in Int /\ Paisa * a \in Int /\ 2 * (Paisa * a) - 2 * a0 \in -Paisa .. Paisa
    <2>1. u = HalfEven(u0, Paisa) /\ a = HalfEven(a0, Paisa)
      BY DEF u0, a0
    <2> HIDE DEF u, a
    <2> QED BY <1>1, <1>12, <2>1, HalfEvenClose
  <1>14. a <= HalfEven(pnl, Paisa)
    <2>1. a = HalfEven(a0, Paisa)
      BY DEF a0
    <2> HIDE DEF a
    <2> QED BY <1>1, <1>10, <1>12, <2>1, HalfEvenGrows
  <1> HIDE DEF u, a
  <1>15. 2 * Paisa * gross = 2 * (Paisa * a) + 2 * pc0 - 2 * (Paisa * u)
    <2>1. gross = a + c - u
      BY <1>3
    <2> HIDE DEF gross
    <2>2. Paisa * (a + c - u) = Paisa * a + Paisa * c - Paisa * u
      BY <1>1, <1>8, <1>13
    <2>3. 2 * Paisa * gross = 2 * (Paisa * (a + c - u))
      BY <1>1, <1>8, <1>13, <2>1
    <2> DEFINE pa == Paisa * a
               pu == Paisa * u
    <2>4. pa \in Int /\ pu \in Int /\ 2 * Paisa * gross = 2 * (pa + pc0 - pu)
      BY <1>13, <2>2, <2>3
    <2> HIDE DEF pa, pu, pc0
    <2>5. 2 * (pa + pc0 - pu) = 2 * pa + 2 * pc0 - 2 * pu
      BY <1>11, <2>4
    <2> QED BY <2>4, <2>5 DEF pa, pu, pc0
  <1> DEFINE pa == Paisa * a
             pu == Paisa * u
             twice == 2 * Paisa * gross
  <1>16. /\ pa \in Int /\ 2 * pa - 2 * a0 \in -Paisa .. Paisa
         /\ pu \in Int /\ 2 * pu - 2 * u0 \in -Paisa .. Paisa
         /\ twice = 2 * pa + 2 * pc0 - 2 * pu
    BY <1>13, <1>15
  <1>17. u0 = value - x /\ a0 = pnl - pc0
    BY DEF u0, a0
  <1> DEFINE d == 2 * (pnl - value) + 2 * x
  <1> HIDE DEF pa, pu, twice, pc0
  <1>18. /\ d \in Int /\ twice \in Int /\ twice <= d + 2 * Paisa /\ twice >= d - 2 * Paisa
    BY <1>1, <1>2, <1>10, <1>11, <1>12, <1>16, <1>17
  <1>19. twice >= -slack /\ (close # NoClose /\ none => twice <= slack)
    <2>1. CASE close = NoClose
      <3>1. d >= 0
        BY <1>2, <1>10, <2>1
      <3> HIDE DEF d
      <3> QED BY <1>1, <1>2, <1>18, <2>1, <3>1
    <2>2. CASE close # NoClose
      <3>1. d = 2 * x - 2 * y
        BY <1>2, <1>10, <2>2
      <3> HIDE DEF d
      <3> QED BY <1>1, <1>2, <1>18, <2>2, <3>1
    <2> QED BY <2>1, <2>2
  <1>20. s.after_tax <= HalfEven(pnl, Paisa)
    BY <1>3, <1>14
  <1> HIDE DEF slack
  <1> QED BY <1>5, <1>7, <1>19, <1>20 DEF h, s, gross, q, pnl, f, g, none, twice, slack

\* The days reports are asked for, and those of the trades.
LEMMA DayRange ==
    /\ Min(Days) \in Days /\ Max(Days) \in Days
    /\ \A day \in Days : day \in Int /\ Min(Days) <= day /\ day <= Max(Days)
  <1>1. PICK first \in Days, last \in Days : \A day \in Days : first <= day /\ day <= last
    BY ReportAssumption
  <1>2. \A day \in Days : day \in Int
    BY TradeAssumption
  <1>3. Min(Days) \in Days /\ \A day \in Days : Min(Days) <= day
    BY <1>1 DEF Min
  <1>4. Max(Days) \in Days /\ \A day \in Days : Max(Days) >= day
    <2>1. \A day \in Days : last >= day
      BY <1>1, <1>2
    <2> QED BY <2>1 DEF Max
  <1> QED BY <1>2, <1>3, <1>4

Dated ==
    /\ \A t \in transactions : t.date \in Days
    /\ \A r \in Requests : Busy(r) => row[r].date \in Days

LEMMA NextDated ==
    ASSUME HealInv, Dated, [Next]_vars
    PROVE  Dated'
  <1>1. pc \in [Requests -> {"idle", "select_buys", "select_sells", "insert", "select_snapshot", "flush", "commit"}]
        /\ DOMAIN row = Requests
    BY DEF HealInv, Domains
  <1>2. CASE UNCHANGED vars
    BY <1>2 DEF vars, Dated, Busy
  <1>3. ASSUME NEW r \in Requests, NEW id \in 1 .. MaxTrades, NEW kind \in Kinds, NEW day \in Days,
               NEW qty \in Quantities, NEW price \in Prices, Submit(r, id, kind, day, qty, price)
        PROVE  Dated'
    <2>1. UNCHANGED transactions /\ row'[r].date = day
          /\ \A q \in Requests : q # r => pc'[q] = pc[q] /\ row'[q] = row[q]
      BY <1>1, <1>3 DEF Submit, tables
    <2> QED BY <2>1 DEF Dated, Busy
  <1>4. ASSUME NEW r \in Requests, End(r) PROVE \A q \in Requests : Busy(q)' => Busy(q) /\ row'[q] = row[q]
    BY <1>1, <1>4 DEF End, Busy
  <1>5. ASSUME UNCHANGED transactions, \A q \in Requests : Busy(q)' => Busy(q) /\ row'[q].date = row[q].date
        PROVE  Dated'
    BY <1>5 DEF Dated
  <1>6. ASSUME NEW r \in Requests, Crash(r) PROVE Dated'
    <2>1. UNCHANGED transactions /\ End(r)
      BY <1>6 DEF Crash, tables
    <2> QED BY <1>4, <1>5, <2>1
  <1>7. ASSUME NEW r \in Requests, Commit(r) PROVE Dated'
    <2>1. transactions' = transactions \cup {row[r]} /\ Busy(r) /\ End(r)
      BY <1>7 DEF Commit, Busy
    <2>2. row[r].date \in Days
      BY <2>1 DEF Dated
    <2> QED BY <1>4, <2>1, <2>2 DEF Dated
  <1>8. ASSUME NEW r \in Requests, SelectSells(r) PROVE Dated'
    <2>1. UNCHANGED transactions /\ pc[r] = "select_sells"
      BY <1>8 DEF SelectSells, tables
    <2>2. CASE End(r)
      BY <1>4, <1>5, <2>1, <2>2
    <2>3. CASE ~End(r)
      <3> DEFINE m == MatchSell(row[r], buys[r], Sells(transactions))
      <3> DEFINE tax == m.cgt
                 gain == m.gain
                 count == m.matched
                 t == row[r]
                 u == [t EXCEPT !.cgt = tax, !.gain = gain, !.matched = count]
      <3>1. row' = [row EXCEPT ![r] = u] /\ pc' = [pc EXCEPT ![r] = "insert"]
        BY <1>8, <2>3 DEF SelectSells
      <3> HIDE DEF m, tax, gain, count, t
      <3>2. u.date = t.date
        OBVIOUS
      <3> HIDE DEF u
      <3>3. \A q \in Requests : row'[q].date = row[q].date
        BY <1>1, <3>1, <3>2 DEF t
      <3>4. \A q \in Requests : Busy(q)' => Busy(q)
        BY <1>1, <2>1, <3>1 DEF Busy
      <3> QED BY <1>5, <2>1, <3>3, <3>4
    <2> QED BY <2>2, <2>3
  <1>9. ASSUME NEW r \in Requests, SelectBuys(r) \/ InsertAndWalk(r) \/ SelectSnapshot(r) PROVE Dated'
    <2>1. UNCHANGED <<transactions, row>> /\ \A q \in Requests : Busy(q)' => Busy(q)
      BY <1>1, <1>9 DEF SelectBuys, InsertAndWalk, SelectSnapshot, tables, Busy
    <2> QED BY <1>5, <2>1
  <1>10. ASSUME NEW r \in Requests, Flush(r) PROVE Dated'
    <2>1. UNCHANGED transactions /\ pc[r] = "flush"
      BY <1>10 DEF Flush, tables
    <2>2. CASE End(r)
      BY <1>4, <1>5, <2>1, <2>2
    <2>3. CASE ~End(r)
      <3>1. UNCHANGED row /\ pc' = [pc EXCEPT ![r] = "commit"]
        BY <1>10, <2>3 DEF Flush
      <3>2. \A q \in Requests : Busy(q)' => Busy(q)
        BY <1>1, <2>1, <3>1 DEF Busy
      <3> QED BY <1>5, <2>1, <3>1, <3>2
    <2> QED BY <2>2, <2>3
  <1> QED BY <1>2, <1>3, <1>6, <1>7, <1>8, <1>9, <1>10 DEF Next, Step

LEMMA DatedInvariance == Spec => []Dated
  <1>1. Init => Dated
    BY DEF Init, Dated, Busy
  <1>2. HealInv /\ Dated /\ [Next]_vars => Dated'
    BY NextDated
  <1> QED BY <1>1, <1>2, HealInvariance, PTL DEF Spec

LEMMA SimulatorIsRight ==
    ASSUME BackInv, SellInv, GainInv, Dated
    PROVE  SimulatorAgrees
  <1> DEFINE first == Min(Days)
             last == Max(Days)
             rows == transactions
             S == Parts(rows)
             whole == simulate(rows, first, last)
             before(day) == simulate(rows, first, day - 1)
             after(day) == simulate(rows, day, last)
  <1>1. first \in Int /\ last \in Int /\ first \in Days /\ \A day \in Days : day \in Int /\ day \in first .. last
    BY DayRange
  <1> HIDE DEF first, last
  <1>2. Rows(rows) /\ \A t \in rows : t.date \in first .. last
    BY <1>1 DEF BackInv, RowsOK, Dated
  <1>3. \A day \in Days : Split(whole, before(day), after(day), S)
    BY <1>1, <1>2, SplitAll
  <1> HIDE DEF whole, before, after, S
  <1>4. whole.filer <= whole.nonfiler
    BY <1>1, <1>3 DEF Split
  <1>5. \A day \in Days : /\ whole.filer = before(day).filer + after(day).filer
                          /\ whole.nonfiler = before(day).nonfiler + after(day).nonfiler
                          /\ whole.gain = before(day).gain + after(day).gain
                          /\ whole.sells = before(day).sells + after(day).sells
    BY <1>3 DEF Split
  <1>6. ASSUME InDateOrder PROVE Retells(whole, rows, S)
    <2> DEFINE seq == Sorted(rows)
               n == Cardinality(rows)
    <2>1. n = Cardinality(rows) /\ seq = Sorted(rows)
      OBVIOUS
    <2> HIDE DEF seq, n
    <2>2. /\ \A k \in 1 .. n : Covered(First(seq, k))
          /\ \A k \in 1 .. n : seq[k].kind = "sell" => MatchedWith(seq[k], First(seq, k - 1))
      BY <1>6, <2>1, HistoryMatched
    <2> QED BY <1>1, <1>2, <2>1, <2>2, SimRetells DEF whole, S
  <1>7. InDateOrder => /\ ~whole.raised
                       /\ Stored(rows) = IF Filer THEN whole.filer ELSE whole.nonfiler
                       /\ whole.sells = Cardinality(Sells(rows))
                       /\ whole.lots = LotsOf(rows)
    BY <1>6 DEF Retells, OwnTax
  <1> QED BY <1>4, <1>5, <1>7 DEF SimulatorAgrees, Stored, LotsOf, whole, before, after, first, last

LEMMA SummaryIsRight ==
    ASSUME BackInv, SnapshotFresh, Quiet
    PROVE  SummaryAgrees
  <1> DEFINE start == Max(Days)
  <1>1. Rows(transactions) /\ holdings = Snapshot(transactions)
    BY DEF BackInv, RowsOK, SnapshotFresh
  <1>2. \A day \in Days : day \in Int
    BY TradeAssumption
  <1>3. ASSUME NEW close \in Prices \cup {NoClose}, NEW today \in Days
        PROVE  LET s == summary(transactions, holdings, close, today, Filer, start)
                   gross == s.after_tax + s.cgt - s.unrealized
                   slack == holdings.quantity + 3 * Paisa
               IN  /\ close # NoClose /\ Sells(transactions) = {} => 2 * Paisa * gross <= slack
                   /\ 2 * Paisa * gross >= -slack
                   /\ s.after_tax <= HalfEven(unrealized_pnl(holdings, close), Paisa)
                   /\ cgt_if_sold(transactions, holdings, close, today, TRUE)
                        <= cgt_if_sold(transactions, holdings, close, today, FALSE)
                   /\ s.ytd.dividends <= holdings.dividends
    <2> HIDE DEF start
    <2> QED BY <1>1, <1>2, SummaryFigures
  <1> QED BY <1>3 DEF SummaryAgrees

(***************************************************************************)
(* Trades that do not overlap: the tax simulator retells the stored taxes  *)
(* and the open lots of a history entered in date order, its windows add   *)
(* up whatever the order, and the portfolio summary's figures stand to     *)
(* each other as they should, for filers and non-filers, at every close.   *)
(***************************************************************************)
THEOREM SerialReportsAgree == Spec /\ []Serial => []TaxReportsAgree
  <1>1. BackInv /\ SellInv /\ GainInv /\ Dated /\ SnapshotFresh => TaxReportsAgree
    BY SimulatorIsRight, SummaryIsRight DEF TaxReportsAgree
  <1> QED BY <1>1, SerialSells, SerialGains, BackInvariance, DatedInvariance, SerialStaysFresh, PTL

==============================================================================
