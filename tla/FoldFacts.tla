----------------------------- MODULE FoldFacts -----------------------------
(***************************************************************************)
(* Facts the proofs share: induction over the naturals and the subsets of  *)
(* a finite set, greatest and least elements, and SumFunctionOnSet(f, S),  *)
(* the sum of f[x] over a finite S, which the community module defines by  *)
(* recursion over the subsets of S.                                        *)
(***************************************************************************)
EXTENDS Integers, Functions, FiniteSetsExt, FiniteSetTheorems, WellFoundedInduction, TLAPS

\* A set of natural numbers has a least element.
LEMMA NatSetHasMin ==
    ASSUME NEW S, S \subseteq Nat, S # {}
    PROVE  \E m \in S : \A s \in S : m <= s
  <1> DEFINE R == OpToRel(<, Nat)
  <1>1. IsWellFoundedOn(R, Nat)
    BY NatLessThanWellFounded
  <1>2. \A m, n \in Nat : m < n => <<m, n>> \in R
    BY DEF OpToRel
  <1> HIDE DEF R
  <1>3. PICK m \in S : \A s \in S : ~ (<<s, m>> \in R)
    BY <1>1, WFMin
  <1>4. \A s \in S : ~(s < m) /\ s \in Nat /\ m \in Nat
    BY <1>2, <1>3
  <1> QED BY <1>4

\* Induction on the naturals, with the set of the numbers that satisfy the claim.
LEMMA InductionSet ==
    ASSUME NEW P, 0 \in P, \A n \in Nat : n \in P => n + 1 \in P
    PROVE  \A n \in Nat : n \in P
  <1> DEFINE Out == {n \in Nat : n \notin P}
  <1>1. SUFFICES ASSUME Out # {} PROVE FALSE
    OBVIOUS
  <1>2. PICK n \in Out : \A m \in Out : n <= m
    BY <1>1, NatSetHasMin
  <1>3. n # 0 /\ n \in Nat
    OBVIOUS
  <1>4. n - 1 \in Nat /\ ~(n <= n - 1) /\ (n - 1) + 1 = n
    BY <1>3
  <1>5. n - 1 \in P
    BY <1>2, <1>4
  <1> QED BY <1>4, <1>5

\* A set of natural numbers with a bound has a greatest element.
LEMMA BoundedHasMax ==
    ASSUME NEW S, S \subseteq Nat, S # {}, NEW b \in Nat, \A s \in S : s <= b
    PROVE  \E m \in S : \A s \in S : s <= m
  <1> DEFINE T == {n \in Nat : \A s \in S : s <= n}
  <1>1. PICK n \in T : \A m \in T : n <= m
    BY NatSetHasMin
  <1>2. n \in Nat /\ \A s \in S : s <= n
    OBVIOUS
  <1>3. CASE n \in S
    BY <1>2, <1>3
  <1>4. CASE n \notin S
    <2>1. ASSUME NEW s \in S PROVE s <= n - 1
      BY <1>2, <1>4
    <2>2. (\A s \in S : s <= n - 1) /\ \E s \in S : s <= n - 1
      BY <2>1
    <2>3. n - 1 \in Nat /\ ~(n <= n - 1)
      BY <1>2, <2>2
    <2>4. n - 1 \in T
      BY <2>2, <2>3
    <2> QED BY <1>1, <2>3, <2>4
  <1> QED BY <1>3, <1>4

-----------------------------------------------------------------------------
One(s) == CHOOSE x \in s : TRUE

\* h is the recursive function behind the sum over S.
Adds(f, S, h) ==
    h = [s \in SUBSET S |-> IF s = {} THEN 0 ELSE f[One(s)] + h[s \ {One(s)}]]

LEMMA SumIsChosen ==
    ASSUME NEW f, NEW S
    PROVE  SumFunctionOnSet(f, S) = (CHOOSE h : Adds(f, S, h))[S]
  BY DEF SumFunctionOnSet, FoldFunctionOnSet, MapThenFoldSet, Adds, One

\* Taking an element off a finite set that is not empty.
LEMMA TakeOff ==
    ASSUME NEW s, IsFiniteSet(s), s # {}
    PROVE  /\ One(s) \in s /\ IsFiniteSet(s \ {One(s)}) /\ s \ {One(s)} \subseteq s
           /\ Cardinality(s \ {One(s)}) = Cardinality(s) - 1
           /\ Cardinality(s) \in Nat /\ Cardinality(s) > 0
  <1>1. One(s) \in s
    BY DEF One
  <1>2. IsFiniteSet(s \ {One(s)}) /\ Cardinality(s \ {One(s)}) = Cardinality(s) - 1
    BY <1>1, FS_RemoveElement
  <1>3. Cardinality(s) \in Nat /\ Cardinality(s) # 0
    BY FS_CardinalityType, FS_EmptySet
  <1> QED BY <1>1, <1>2, <1>3

\* Two such functions agree where both are defined.
LEMMA AddsAgree ==
    ASSUME NEW f, NEW S, IsFiniteSet(S), NEW T \in SUBSET S, NEW g, Adds(f, S, g), NEW h, Adds(f, T, h)
    PROVE  \A s \in SUBSET T : h[s] = g[s]
  <1> DEFINE P == {n \in Nat : \A s \in SUBSET T : Cardinality(s) = n => h[s] = g[s]}
  <1>1. \A s \in SUBSET T : s \in SUBSET S /\ IsFiniteSet(s) /\ Cardinality(s) \in Nat
    BY FS_Subset, FS_CardinalityType
  <1>2. \A s \in SUBSET T : /\ h[s] = IF s = {} THEN 0 ELSE f[One(s)] + h[s \ {One(s)}]
                            /\ g[s] = IF s = {} THEN 0 ELSE f[One(s)] + g[s \ {One(s)}]
    BY <1>1 DEF Adds
  <1>3. 0 \in P
    BY <1>1, <1>2, FS_EmptySet
  <1>4. ASSUME NEW n \in Nat, n \in P PROVE n + 1 \in P
    <2> SUFFICES ASSUME NEW s \in SUBSET T, Cardinality(s) = n + 1 PROVE h[s] = g[s]
      OBVIOUS
    <2>1. s # {}
      BY FS_EmptySet
    <2>2. s \ {One(s)} \in SUBSET T /\ Cardinality(s \ {One(s)}) = n
      BY <1>1, <2>1, TakeOff
    <2>3. h[s \ {One(s)}] = g[s \ {One(s)}]
      BY <1>4, <2>2
    <2> QED BY <1>2, <2>1, <2>3
  <1> HIDE DEF P
  <1>5. \A n \in Nat : n \in P
    BY <1>3, <1>4, InductionSet
  <1> QED BY <1>1, <1>5 DEF P

\* The equation of the sum, where the functions behind it exist.
LEMMA SumEquation ==
    ASSUME NEW f, NEW S, IsFiniteSet(S), \E h : Adds(f, S, h), \E h : Adds(f, S \ {One(S)}, h)
    PROVE  SumFunctionOnSet(f, S) =
             IF S = {} THEN 0 ELSE f[One(S)] + SumFunctionOnSet(f, S \ {One(S)})
  <1> DEFINE T == S \ {One(S)}
             g == CHOOSE h : Adds(f, S, h)
             k == CHOOSE h : Adds(f, T, h)
  <1>1. Adds(f, S, g) /\ Adds(f, T, k)
    OBVIOUS
  <1>2. SumFunctionOnSet(f, S) = g[S] /\ SumFunctionOnSet(f, T) = k[T]
    BY SumIsChosen
  <1>3. T \in SUBSET S
    OBVIOUS
  <1> HIDE DEF g, k, T
  <1>4. k[T] = g[T]
    BY <1>1, <1>3, AddsAgree
  <1>5. g[S] = IF S = {} THEN 0 ELSE f[One(S)] + g[S \ {One(S)}]
    BY <1>1 DEF Adds
  <1> QED BY <1>2, <1>4, <1>5 DEF T

LEMMA AddsExists ==
    ASSUME NEW f, NEW S, IsFiniteSet(S)
    PROVE  \E h : Adds(f, S, h)
  <1> DEFINE P == {n \in Nat : \A s : IsFiniteSet(s) /\ Cardinality(s) <= n => \E h : Adds(f, s, h)}
             H(s) == [u \in SUBSET s |-> IF u = {} THEN 0 ELSE f[One(u)] + SumFunctionOnSet(f, u \ {One(u)})]
  <1>1. ASSUME NEW s, IsFiniteSet(s),
               \A u \in SUBSET s : u # s => \E h : Adds(f, u, h)
        PROVE  Adds(f, s, H(s))
    <2>1. ASSUME NEW u \in SUBSET s, u # {}
          PROVE  H(s)[u \ {One(u)}] = SumFunctionOnSet(f, u \ {One(u)})
      <3> DEFINE v == u \ {One(u)}
                 w == v \ {One(v)}
      <3>1. v \in SUBSET s /\ w \in SUBSET s /\ IsFiniteSet(v)
        BY <1>1, <2>1, FS_Subset
      <3>2. One(u) \in u
        BY <2>1 DEF One
      <3>3. v # s /\ w # s
        BY <3>2
      <3>4. SumFunctionOnSet(f, v) = IF v = {} THEN 0 ELSE f[One(v)] + SumFunctionOnSet(f, w)
        BY <1>1, <3>1, <3>3, SumEquation
      <3>5. H(s)[v] = IF v = {} THEN 0 ELSE f[One(v)] + SumFunctionOnSet(f, w)
        BY <3>1
      <3> QED BY <3>4, <3>5
    <2>2. H(s) = [u \in SUBSET s |-> IF u = {} THEN 0 ELSE f[One(u)] + H(s)[u \ {One(u)}]]
      BY <2>1
    <2> QED BY <2>2 DEF Adds
  <1>2. 0 \in P
    <2> SUFFICES ASSUME NEW s, IsFiniteSet(s), Cardinality(s) <= 0 PROVE \E h : Adds(f, s, h)
      OBVIOUS
    <2>1. s = {}
      BY FS_CardinalityType, FS_EmptySet
    <2> HIDE DEF H
    <2> QED BY <1>1, <2>1
  <1>3. ASSUME NEW n \in Nat, n \in P PROVE n + 1 \in P
    <2> SUFFICES ASSUME NEW s, IsFiniteSet(s), Cardinality(s) <= n + 1 PROVE \E h : Adds(f, s, h)
      OBVIOUS
    <2>1. ASSUME NEW u \in SUBSET s, u # s PROVE \E h : Adds(f, u, h)
      <3>1. IsFiniteSet(u) /\ Cardinality(u) \in Nat /\ Cardinality(s) \in Nat
        BY FS_Subset, FS_CardinalityType
      <3>2. Cardinality(u) <= Cardinality(s) /\ Cardinality(u) # Cardinality(s)
        BY <2>1, FS_Subset
      <3>3. Cardinality(u) <= n
        BY <3>1, <3>2
      <3> QED BY <1>3, <3>1, <3>3
    <2> HIDE DEF H
    <2> QED BY <1>1, <2>1
  <1> HIDE DEF P
  <1>4. \A n \in Nat : n \in P
    BY <1>2, <1>3, InductionSet
  <1>5. Cardinality(S) \in Nat /\ Cardinality(S) <= Cardinality(S)
    BY FS_CardinalityType
  <1> QED BY <1>4, <1>5 DEF P

LEMMA SumRecursion ==
    ASSUME NEW f, NEW S, IsFiniteSet(S)
    PROVE  SumFunctionOnSet(f, S) =
             IF S = {} THEN 0 ELSE f[One(S)] + SumFunctionOnSet(f, S \ {One(S)})
  <1>1. IsFiniteSet(S \ {One(S)})
    BY FS_RemoveElement
  <1> QED BY <1>1, AddsExists, SumEquation

-----------------------------------------------------------------------------
LEMMA SumEmpty ==
    ASSUME NEW f
    PROVE  SumFunctionOnSet(f, {}) = 0
  BY SumRecursion, FS_EmptySet

\* The sum is a number, and any element can be taken off first.
SumWorks(f, S) ==
    /\ SumFunctionOnSet(f, S) \in Int
    /\ \A x \in S : SumFunctionOnSet(f, S) = f[x] + SumFunctionOnSet(f, S \ {x})

LEMMA SumRemove ==
    ASSUME NEW f, NEW S, IsFiniteSet(S), \A x \in S : f[x] \in Int
    PROVE  SumWorks(f, S)
  <1> DEFINE P == {n \in Nat : \A s \in SUBSET S : Cardinality(s) <= n => SumWorks(f, s)}
  <1>1. \A s \in SUBSET S : IsFiniteSet(s) /\ Cardinality(s) \in Nat
    BY FS_Subset, FS_CardinalityType
  <1>2. 0 \in P
    <2> SUFFICES ASSUME NEW s \in SUBSET S, Cardinality(s) <= 0 PROVE SumWorks(f, s)
      OBVIOUS
    <2>1. s = {}
      BY <1>1, FS_EmptySet
    <2> QED BY <2>1, SumEmpty DEF SumWorks
  <1>3. ASSUME NEW n \in Nat, n \in P PROVE n + 1 \in P
    <2> SUFFICES ASSUME NEW s \in SUBSET S, Cardinality(s) <= n + 1, s # {} PROVE SumWorks(f, s)
      BY SumEmpty DEF SumWorks
    <2> DEFINE c == One(s)
    <2>1. IsFiniteSet(s) /\ Cardinality(s) \in Nat
      BY <1>1
    <2>2. c \in s /\ f[c] \in Int
      BY <2>1, TakeOff
    <2>3. ASSUME NEW u \in SUBSET s, u # s PROVE SumWorks(f, u)
      <3>1. Cardinality(u) <= Cardinality(s) /\ Cardinality(u) # Cardinality(s) /\ Cardinality(u) \in Nat
        BY <1>1, <2>1, <2>3, FS_Subset
      <3> QED BY <1>3, <2>1, <3>1
    <2>4. SumFunctionOnSet(f, s) = f[c] + SumFunctionOnSet(f, s \ {c})
      BY <2>1, SumRecursion
    <2> HIDE DEF c
    <2>5. SumFunctionOnSet(f, s \ {c}) \in Int
      BY <2>2, <2>3 DEF SumWorks
    <2>6. ASSUME NEW x \in s, x # c
          PROVE  SumFunctionOnSet(f, s) = f[x] + SumFunctionOnSet(f, s \ {x})
      <3> DEFINE rest == (s \ {c}) \ {x}
      <3>1. rest = (s \ {x}) \ {c} /\ f[x] \in Int
        OBVIOUS
      <3>2. SumWorks(f, s \ {c}) /\ SumWorks(f, s \ {x}) /\ SumWorks(f, rest)
        BY <2>2, <2>3
      <3>3. SumFunctionOnSet(f, s \ {c}) = f[x] + SumFunctionOnSet(f, rest)
        BY <2>6, <3>2 DEF SumWorks
      <3>4. SumFunctionOnSet(f, s \ {x}) = f[c] + SumFunctionOnSet(f, rest)
        BY <2>2, <2>6, <3>1, <3>2 DEF SumWorks
      <3>5. SumFunctionOnSet(f, rest) \in Int
        BY <3>2 DEF SumWorks
      <3> HIDE DEF rest
      <3> QED BY <2>2, <2>4, <3>1, <3>3, <3>4, <3>5
    <2> QED BY <2>2, <2>4, <2>5, <2>6 DEF SumWorks
  <1> HIDE DEF P
  <1>4. \A n \in Nat : n \in P
    BY <1>2, <1>3, InductionSet
  <1>5. S \in SUBSET S /\ Cardinality(S) \in Nat
    BY <1>1
  <1> QED BY <1>4, <1>5 DEF P

\* Adding an element.
LEMMA SumAdd ==
    ASSUME NEW f, NEW S, IsFiniteSet(S), NEW x, x \notin S, \A y \in S \cup {x} : f[y] \in Int
    PROVE  /\ SumFunctionOnSet(f, S \cup {x}) = f[x] + SumFunctionOnSet(f, S)
           /\ SumFunctionOnSet(f, S) \in Int
  <1>1. IsFiniteSet(S \cup {x}) /\ (S \cup {x}) \ {x} = S
    BY FS_AddElement
  <1> QED BY <1>1, SumRemove DEF SumWorks

\* Induction on the subsets of a finite set, one element at a time.
LEMMA SubsetInduction ==
    ASSUME NEW S, IsFiniteSet(S), NEW P, {} \in P,
           \A T \in SUBSET S, x \in S : T \in P /\ x \notin T => T \cup {x} \in P
    PROVE  S \in P
  <1> DEFINE N == {n \in Nat : \A T \in SUBSET S : Cardinality(T) = n => T \in P}
  <1>1. \A T \in SUBSET S : IsFiniteSet(T) /\ Cardinality(T) \in Nat
    BY FS_Subset, FS_CardinalityType
  <1>2. 0 \in N
    BY <1>1, FS_EmptySet
  <1>3. ASSUME NEW n \in Nat, n \in N PROVE n + 1 \in N
    <2> SUFFICES ASSUME NEW T \in SUBSET S, Cardinality(T) = n + 1 PROVE T \in P
      OBVIOUS
    <2>1. T # {} /\ IsFiniteSet(T)
      BY <1>1, FS_EmptySet
    <2> DEFINE x == One(T)
               U == T \ {x}
    <2>2. x \in T /\ Cardinality(U) = n
      <3>1. x \in T /\ Cardinality(U) = Cardinality(T) - 1
        BY <2>1, TakeOff
      <3>2. (n + 1) - 1 = n
        OBVIOUS
      <3> QED BY <3>1, <3>2
    <2>3. U \in SUBSET S /\ x \notin U /\ T = U \cup {x}
      BY <2>2
    <2>4. U \in P
      BY <1>3, <2>2, <2>3
    <2> HIDE DEF x, U
    <2> QED BY <2>2, <2>3, <2>4
  <1> HIDE DEF N
  <1>4. \A n \in Nat : n \in N
    BY <1>2, <1>3, InductionSet
  <1> QED BY <1>1, <1>4 DEF N

\* The sum depends on the values over S only.
LEMMA SumAgree ==
    ASSUME NEW S, IsFiniteSet(S), NEW f, NEW g, \A x \in S : f[x] \in Int /\ g[x] = f[x]
    PROVE  SumFunctionOnSet(g, S) = SumFunctionOnSet(f, S)
  <1> DEFINE P == {T \in SUBSET S : SumFunctionOnSet(g, T) = SumFunctionOnSet(f, T)}
  <1>1. {} \in P
    BY SumEmpty
  <1>2. ASSUME NEW T \in SUBSET S, NEW x \in S, T \in P, x \notin T PROVE T \cup {x} \in P
    <2>1. IsFiniteSet(T)
      BY FS_Subset
    <2>2. /\ SumFunctionOnSet(f, T \cup {x}) = f[x] + SumFunctionOnSet(f, T)
          /\ SumFunctionOnSet(g, T \cup {x}) = g[x] + SumFunctionOnSet(g, T)
      BY <1>2, <2>1, SumAdd
    <2> QED BY <1>2, <2>2
  <1> HIDE DEF P
  <1>3. S \in P
    BY <1>1, <1>2, SubsetInduction
  <1> QED BY <1>3 DEF P

\* Sums of naturals are natural and grow with the set.
LEMMA SumNat ==
    ASSUME NEW S, IsFiniteSet(S), NEW f, \A x \in S : f[x] \in Nat
    PROVE  SumFunctionOnSet(f, S) \in Nat
  <1> DEFINE P == {T \in SUBSET S : SumFunctionOnSet(f, T) \in Nat}
  <1>1. {} \in P
    BY SumEmpty
  <1>2. ASSUME NEW T \in SUBSET S, NEW x \in S, T \in P, x \notin T PROVE T \cup {x} \in P
    <2>1. IsFiniteSet(T) /\ f[x] \in Nat
      BY FS_Subset
    <2>2. SumFunctionOnSet(f, T \cup {x}) = f[x] + SumFunctionOnSet(f, T)
      BY <1>2, <2>1, SumAdd
    <2> QED BY <1>2, <2>1, <2>2
  <1> HIDE DEF P
  <1>3. S \in P
    BY <1>1, <1>2, SubsetInduction
  <1> QED BY <1>3 DEF P

\* Two sums over disjoint sets.
LEMMA SumSplit ==
    ASSUME NEW S, IsFiniteSet(S), NEW T, IsFiniteSet(T), S \cap T = {}, NEW f, \A x \in S \cup T : f[x] \in Int
    PROVE  SumFunctionOnSet(f, S \cup T) = SumFunctionOnSet(f, S) + SumFunctionOnSet(f, T)
  <1> DEFINE P == {U \in SUBSET T : SumFunctionOnSet(f, S \cup U) = SumFunctionOnSet(f, S) + SumFunctionOnSet(f, U)}
  <1>0. SumFunctionOnSet(f, S) \in Int
    BY SumRemove DEF SumWorks
  <1>1. {} \in P
    <2>1. S \cup {} = S
      OBVIOUS
    <2> QED BY <1>0, <2>1, SumEmpty
  <1>2. ASSUME NEW U \in SUBSET T, NEW x \in T, U \in P, x \notin U PROVE U \cup {x} \in P
    <2>1. IsFiniteSet(U) /\ IsFiniteSet(S \cup U)
      BY FS_Subset, FS_Union
    <2>2. x \notin S \cup U /\ S \cup (U \cup {x}) = (S \cup U) \cup {x} /\ f[x] \in Int
      BY <1>2
    <2>3. /\ SumFunctionOnSet(f, U \cup {x}) = f[x] + SumFunctionOnSet(f, U)
          /\ SumFunctionOnSet(f, U) \in Int
      BY <1>2, <2>1, SumAdd
    <2>4. SumFunctionOnSet(f, (S \cup U) \cup {x}) = f[x] + SumFunctionOnSet(f, S \cup U)
      BY <2>1, <2>2, SumAdd
    <2>5. SumFunctionOnSet(f, S \cup U) = SumFunctionOnSet(f, S) + SumFunctionOnSet(f, U)
      BY <1>2
    <2> DEFINE s == SumFunctionOnSet(f, S)
               u == SumFunctionOnSet(f, U)
    <2>6. /\ SumFunctionOnSet(f, S \cup (U \cup {x})) = f[x] + (s + u)
          /\ SumFunctionOnSet(f, U \cup {x}) = f[x] + u
          /\ s \in Int /\ u \in Int /\ f[x] \in Int
      BY <1>0, <2>2, <2>3, <2>4, <2>5
    <2> HIDE DEF s, u
    <2>7. SumFunctionOnSet(f, S \cup (U \cup {x})) = s + SumFunctionOnSet(f, U \cup {x})
      BY <2>6
    <2> QED BY <2>7 DEF s
  <1> HIDE DEF P
  <1>3. T \in P
    BY <1>1, <1>2, SubsetInduction
  <1> QED BY <1>3 DEF P

LEMMA SumGrows ==
    ASSUME NEW S, IsFiniteSet(S), NEW T \in SUBSET S, NEW f, \A x \in S : f[x] \in Nat
    PROVE  /\ SumFunctionOnSet(f, T) <= SumFunctionOnSet(f, S)
           /\ SumFunctionOnSet(f, T) \in Nat /\ SumFunctionOnSet(f, S) \in Nat
  <1>1. IsFiniteSet(T) /\ IsFiniteSet(S \ T) /\ T \cup (S \ T) = S /\ T \cap (S \ T) = {}
    BY FS_Subset
  <1>2. /\ SumFunctionOnSet(f, T) \in Nat /\ SumFunctionOnSet(f, S \ T) \in Nat
        /\ SumFunctionOnSet(f, S) \in Nat
    BY <1>1, SumNat
  <1>3. SumFunctionOnSet(f, S) = SumFunctionOnSet(f, T) + SumFunctionOnSet(f, S \ T)
    BY <1>1, SumSplit
  <1> QED BY <1>2, <1>3

\* Renaming the indices one to one leaves the sum as it is.
LEMMA SumRenamed ==
    ASSUME NEW S, IsFiniteSet(S), NEW b, \A x, y \in S : b[x] = b[y] => x = y,
           NEW f, NEW e, \A x \in S : f[b[x]] \in Int /\ e[x] = f[b[x]]
    PROVE  SumFunctionOnSet(f, {b[x] : x \in S}) = SumFunctionOnSet(e, S)
  <1> DEFINE P == {T \in SUBSET S : /\ IsFiniteSet({b[x] : x \in T})
                                    /\ SumFunctionOnSet(f, {b[x] : x \in T}) = SumFunctionOnSet(e, T)}
  <1>1. {} \in P
    <2>1. {b[x] : x \in {}} = {}
      OBVIOUS
    <2> QED BY <2>1, SumEmpty, FS_EmptySet
  <1>2. ASSUME NEW T \in SUBSET S, NEW x \in S, T \in P, x \notin T PROVE T \cup {x} \in P
    <2> DEFINE B == {b[y] : y \in T}
    <2>1. IsFiniteSet(T)
      BY FS_Subset
    <2>2. b[x] \notin B /\ {b[y] : y \in T \cup {x}} = B \cup {b[x]}
      BY <1>2
    <2>3. IsFiniteSet(B) /\ SumFunctionOnSet(f, B) = SumFunctionOnSet(e, T)
      BY <1>2
    <2>4. IsFiniteSet(B \cup {b[x]})
      BY <2>3, FS_AddElement
    <2>5. \A z \in B \cup {b[x]} : f[z] \in Int
      OBVIOUS
    <2> HIDE DEF B
    <2>6. SumFunctionOnSet(f, B \cup {b[x]}) = f[b[x]] + SumFunctionOnSet(f, B)
      BY <2>2, <2>3, <2>5, SumAdd
    <2>7. SumFunctionOnSet(e, T \cup {x}) = e[x] + SumFunctionOnSet(e, T)
      BY <1>2, <2>1, SumAdd
    <2> QED BY <2>2, <2>3, <2>4, <2>6, <2>7 DEF P
  <1> HIDE DEF P
  <1>3. S \in P
    BY <1>1, <1>2, SubsetInduction
  <1> QED BY <1>3 DEF P

\* One more index.
LEMMA SumUpTo ==
    ASSUME NEW n \in Nat, NEW f, \A k \in 1 .. n + 1 : f[k] \in Int
    PROVE  /\ SumFunctionOnSet(f, 1 .. n + 1) = f[n + 1] + SumFunctionOnSet(f, 1 .. n)
           /\ SumFunctionOnSet(f, 1 .. n) \in Int
  <1>1. IsFiniteSet(1 .. n)
    BY FS_Interval
  <1>2. 1 .. n + 1 = (1 .. n) \cup {n + 1} /\ n + 1 \notin 1 .. n
    OBVIOUS
  <1> QED BY <1>1, <1>2, SumAdd

\* A sum of zeros.
LEMMA SumZero ==
    ASSUME NEW S, IsFiniteSet(S), NEW f, \A x \in S : f[x] = 0
    PROVE  SumFunctionOnSet(f, S) = 0
  <1> DEFINE P == {T \in SUBSET S : SumFunctionOnSet(f, T) = 0}
  <1>1. {} \in P
    BY SumEmpty
  <1>2. ASSUME NEW T \in SUBSET S, NEW x \in S, T \in P, x \notin T PROVE T \cup {x} \in P
    <2>1. IsFiniteSet(T) /\ f[x] = 0 /\ SumFunctionOnSet(f, T) = 0
      BY <1>2, FS_Subset
    <2>2. \A y \in T \cup {x} : f[y] \in Int
      OBVIOUS
    <2>3. SumFunctionOnSet(f, T \cup {x}) = f[x] + SumFunctionOnSet(f, T)
      BY <1>2, <2>1, <2>2, SumAdd
    <2> QED BY <2>1, <2>3
  <1>3. S \in P
    <2> HIDE DEF P
    <2> QED BY <1>1, <1>2, SubsetInduction
  <1> QED BY <1>3

-----------------------------------------------------------------------------
\* seq lists the elements of S, each once.
Lists(seq, n, S) ==
    /\ n \in Nat /\ DOMAIN seq = 1 .. n
    /\ {seq[k] : k \in 1 .. n} = S
    /\ \A j, k \in 1 .. n : seq[j] = seq[k] => j = k

\* A sum over a set is the sum over the places of its elements in a list.
LEMMA SumListed ==
    ASSUME NEW S, NEW seq, NEW n, Lists(seq, n, S), NEW f, \A t \in S : f[t] \in Int
    PROVE  SumFunctionOnSet([k \in 1 .. n |-> f[seq[k]]], 1 .. n) = SumFunctionOnSet(f, S)
  <1> DEFINE e == [k \in 1 .. n |-> f[seq[k]]]
             K == 1 .. n
  <1>1. IsFiniteSet(K) /\ S = {seq[k] : k \in K} /\ \A j, k \in K : seq[j] = seq[k] => j = k
    BY FS_Interval DEF Lists
  <1>2. \A k \in K : f[seq[k]] \in Int /\ e[k] = f[seq[k]]
    BY <1>1
  <1> HIDE DEF e, K
  <1>3. SumFunctionOnSet(f, {seq[k] : k \in K}) = SumFunctionOnSet(e, K)
    BY <1>1, <1>2, SumRenamed
  <1>4. SumFunctionOnSet(e, K) = SumFunctionOnSet(f, S)
    BY <1>1, <1>3
  <1> QED BY <1>4 DEF e, K

\* before[t] are the elements that a strict total order of S puts before t.
Orders(before, S) ==
    /\ IsFiniteSet(S)
    /\ \A t \in S : before[t] \in SUBSET S /\ t \notin before[t]
    /\ \A s, t \in S : s # t => s \in before[t] \/ t \in before[s]
    /\ \A s, t \in S : s \in before[t] => before[s] \subseteq before[t]

\* Place k goes to an element with k - 1 before it.
Ranks(seq, before, S) ==
    /\ DOMAIN seq = 1 .. Cardinality(S)
    /\ \A k \in 1 .. Cardinality(S) : \A t \in S :
         Cardinality(before[t]) = k - 1 => seq[k] \in S /\ Cardinality(before[seq[k]]) = k - 1

\* Sorting by rank lists the set in that order.
LEMMA RankedLists ==
    ASSUME NEW S, NEW before, Orders(before, S), NEW seq, Ranks(seq, before, S)
    PROVE  /\ Lists(seq, Cardinality(S), S)
           /\ \A k \in 1 .. Cardinality(S) : Cardinality(before[seq[k]]) = k - 1
           /\ \A s, t \in S : s \in before[t] => Cardinality(before[s]) < Cardinality(before[t])
  <1> USE DEF Orders, Ranks
  <1> DEFINE n == Cardinality(S)
             rank == [t \in S |-> Cardinality(before[t]) + 1]
  <1>1. n \in Nat
    BY FS_CardinalityType
  <1>2. ASSUME NEW t \in S
        PROVE  IsFiniteSet(before[t]) /\ Cardinality(before[t]) \in Nat /\ Cardinality(before[t]) < n
    <2>1. IsFiniteSet(before[t]) /\ Cardinality(before[t]) <= n /\ Cardinality(before[t]) # n
      BY FS_Subset
    <2>2. Cardinality(before[t]) \in Nat
      BY <2>1, FS_CardinalityType
    <2> QED BY <1>1, <2>1, <2>2
  <1>3. ASSUME NEW s \in S, NEW t \in S, s \in before[t] PROVE Cardinality(before[s]) < Cardinality(before[t])
    <2>1. before[s] \in SUBSET before[t] /\ before[s] # before[t]
      BY <1>3
    <2>2. Cardinality(before[s]) <= Cardinality(before[t]) /\ Cardinality(before[s]) # Cardinality(before[t])
      BY <1>2, <2>1, FS_Subset
    <2> QED BY <1>2, <2>2
  <1>4. \A s, t \in S : Cardinality(before[s]) = Cardinality(before[t]) => s = t
    BY <1>2, <1>3
  <1>5. rank \in [S -> 1 .. n]
    BY <1>1, <1>2
  <1>6. \A s, t \in S : rank[s] = rank[t] => s = t
    <2> SUFFICES ASSUME NEW s \in S, NEW t \in S, rank[s] = rank[t] PROVE s = t
      OBVIOUS
    <2>1. Cardinality(before[s]) \in Nat /\ Cardinality(before[t]) \in Nat
      BY <1>2
    <2>2. Cardinality(before[s]) + 1 = Cardinality(before[t]) + 1
      OBVIOUS
    <2>3. Cardinality(before[s]) = Cardinality(before[t])
      BY <2>1, <2>2
    <2> QED BY <1>4, <2>3
  <1>7. rank \in Injection(S, 1 .. n)
    <2> HIDE DEF rank, n
    <2>1. DOMAIN rank = S
      BY <1>5
    <2> QED BY <1>5, <1>6, <2>1 DEF Injection, IsInjective
  <1>8. rank \in Surjection(S, 1 .. n)
    <2> HIDE DEF rank
    <2>1. IsFiniteSet(1 .. n) /\ Cardinality(1 .. n) = Cardinality(S)
      BY <1>1, FS_Interval
    <2> QED BY <1>7, <2>1, FS_Injection
  <1>9. ASSUME NEW k \in 1 .. n PROVE seq[k] \in S /\ Cardinality(before[seq[k]]) = k - 1
    <2>1. PICK t \in S : rank[t] = k
      <3> HIDE DEF rank, n
      <3> QED BY <1>8 DEF Surjection
    <2>2. Cardinality(before[t]) \in Nat
      BY <1>2
    <2>3. Cardinality(before[t]) = k - 1
      BY <2>1, <2>2
    <2> QED BY <2>3
  <1>10. \A j, k \in 1 .. n : seq[j] = seq[k] => j = k
    <2> HIDE DEF n
    <2>1. \A j, k \in 1 .. n : j - 1 = k - 1 => j = k
      BY <1>1
    <2> QED BY <1>9, <2>1
  <1>11. ASSUME NEW t \in S PROVE \E k \in 1 .. n : seq[k] = t
    <2> DEFINE k == rank[t]
    <2>1. k \in 1 .. n
      BY <1>5
    <2>2. Cardinality(before[t]) = k - 1
      <3>1. Cardinality(before[t]) \in Nat
        BY <1>2
      <3> QED BY <3>1
    <2> HIDE DEF k, n
    <2>3. seq[k] \in S /\ Cardinality(before[seq[k]]) = Cardinality(before[t])
      BY <1>9, <2>1, <2>2
    <2> QED BY <1>4, <2>1, <2>3
  <1>12. {seq[k] : k \in 1 .. n} = S
    <2> HIDE DEF n
    <2> QED BY <1>9, <1>11
  <1> HIDE DEF n
  <1>13. Lists(seq, n, S)
    BY <1>1, <1>10, <1>12 DEF Lists, n
  <1> QED BY <1>3, <1>9, <1>13 DEF n

-----------------------------------------------------------------------------
\* The greatest of a set of indices.
LEMMA MaxIsIn ==
    ASSUME NEW n \in Nat, NEW s \in SUBSET (1 .. n), s # {}
    PROVE  /\ Max(s) \in s /\ \A y \in s : Max(s) >= y
           /\ s \ {Max(s)} \in SUBSET (1 .. n)
  <1>1. s \subseteq Nat /\ \A k \in s : k <= n
    OBVIOUS
  <1>2. PICK m \in s : \A y \in s : y <= m
    BY <1>1, BoundedHasMax
  <1>3. \A y \in s : m >= y
    BY <1>1, <1>2
  <1> QED BY <1>3 DEF Max

LEMMA MaxOfTop ==
    ASSUME NEW n \in Nat, NEW s \in SUBSET (1 .. n + 1), n + 1 \in s
    PROVE  Max(s) = n + 1 /\ s \ {n + 1} \in SUBSET (1 .. n)
  <1>1. Max(s) \in s /\ \A y \in s : Max(s) >= y
    BY MaxIsIn
  <1>2. Max(s) = n + 1
    <2> DEFINE m == Max(s)
    <2>1. m \in 1 .. n + 1 /\ m >= n + 1
      BY <1>1
    <2> HIDE DEF m
    <2>2. m = n + 1
      BY <2>1
    <2> QED BY <2>2 DEF m
  <1>3. \A y \in s : y # n + 1 => y \in 1 .. n
    OBVIOUS
  <1> QED BY <1>2, <1>3

-----------------------------------------------------------------------------
\* Division with a remainder.
LEMMA Modulo ==
    ASSUME NEW a \in Nat, NEW b \in Nat \ {0}
    PROVE  /\ a % b \in Nat /\ a % b <= b - 1
           /\ a \div b \in Nat /\ a = b * (a \div b) + (a % b)
  <1>1. a % b \in Nat /\ a % b <= b - 1 /\ a \div b \in Nat
    OBVIOUS
  <1>2. a % b = a - b * (a \div b)
    OBVIOUS
  <1>3. b * (a \div b) \in Int
    BY <1>1
  <1> QED BY <1>1, <1>2, <1>3

=============================================================================
