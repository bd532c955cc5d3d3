---------------------------- MODULE TotalsProofs ----------------------------
(* What the budgets of the search index, the source cache and the covers, and *)
(* the reports on the ledger rest on: how a sum changes with one of its terms *)
(* and how it is counted in parts.                                            *)
EXTENDS Recency, Integers, FiniteSetTheorems, WellFoundedInduction, TLAPS

\* The units of a function are pairs of an argument and a number up to its value.
LEMMA UnitsArePairs ==
    ASSUME NEW S, NEW f \in [S -> Nat]
    PROVE  \A p : p \in Units(f) <=>
                    \E x \in S, i \in Nat : p = <<x, i>> /\ 1 <= i /\ i <= f[x]
  BY DEF Units

\* A sum over a finite set is a natural number.
LEMMA TotalNatural ==
    ASSUME NEW S, IsFiniteSet(S), NEW f \in [S -> Nat]
    PROVE  IsFiniteSet(Units(f)) /\ Total(f) \in Nat
  <1> DEFINE Of(x) == {x} \X (1..f[x])
             column == [x \in S |-> Of(x)]
             columns == {column[x] : x \in S}
  <1>1. column \in Surjection(S, columns)
    BY DEF Surjection
  <1>2. IsFiniteSet(columns)
    <2> HIDE DEF column
    <2> QED BY <1>1, FS_Surjection
  <1>3. \A x \in S : IsFiniteSet(Of(x))
    <2> TAKE x \in S
    <2>1. IsFiniteSet(1..f[x])
      BY FS_Interval
    <2>2. IsFiniteSet({x})
      BY FS_Singleton
    <2> QED BY <2>1, <2>2, FS_Product
  <1>4. \A T \in columns : IsFiniteSet(T)
    BY <1>3
  <1>5. Units(f) = UNION columns
    BY DEF Units
  <1>6. IsFiniteSet(UNION columns)
    <2> HIDE DEF columns
    <2> QED BY <1>2, <1>4, FS_UNION
  <1>7. QED BY <1>5, <1>6, FS_CardinalityType DEF Total

\* A sum over a part is not greater.
LEMMA TotalOfPart ==
    ASSUME NEW S, IsFiniteSet(S), NEW f \in [S -> Nat],
           NEW P \in SUBSET S, NEW g \in [P -> Nat], \A x \in P : g[x] <= f[x]
    PROVE  Total(g) <= Total(f)
  <1>1. IsFiniteSet(Units(f))
    BY TotalNatural
  <1>2. Units(g) \subseteq Units(f)
    BY UnitsArePairs
  <1>3. QED BY <1>1, <1>2, FS_Subset DEF Total

\* One term more.
LEMMA TotalPlusOne ==
    ASSUME NEW S, IsFiniteSet(S), NEW x \in S, NEW f \in [S -> Nat],
           NEW g \in [S \ {x} -> Nat], \A y \in S \ {x} : g[y] = f[y]
    PROVE  Total(f) = Total(g) + f[x]
  <1> DEFINE X == {x} \X (1..f[x])
  <1>1. IsFiniteSet(S \ {x})
    BY FS_RemoveElement
  <1>2. IsFiniteSet(Units(g)) /\ Total(g) \in Nat
    BY <1>1, TotalNatural
  <1>3. IsFiniteSet(1..f[x]) /\ Cardinality(1..f[x]) = f[x]
    BY FS_Interval
  <1>4. IsFiniteSet({x}) /\ Cardinality({x}) = 1
    BY FS_Singleton
  <1>5. IsFiniteSet(X) /\ Cardinality(X) = f[x]
    <2> DEFINE I == 1..f[x]
    <2>1. f[x] \in Nat /\ 1 * f[x] = f[x]
      OBVIOUS
    <2>2. IsFiniteSet(I) /\ Cardinality(I) = f[x]
      BY <1>3
    <2> HIDE DEF I
    <2>3. Cardinality({x} \X I) = Cardinality({x}) * Cardinality(I) /\ IsFiniteSet({x} \X I)
      BY <1>4, <2>2, FS_Product
    <2>4. Cardinality({x} \X I) = 1 * f[x]
      BY <1>4, <2>2, <2>3
    <2> QED BY <2>1, <2>3, <2>4 DEF I
  <1>6. Units(f) = Units(g) \cup X
    BY DEF Units
  <1>7. Units(g) \cap X = {}
    BY DEF Units
  <1>8. Cardinality({}) = 0
    BY FS_EmptySet
  <1>9. Cardinality(Units(g) \cup X) = Cardinality(Units(g)) + Cardinality(X) - 0
    <2> HIDE DEF X
    <2> QED BY <1>2, <1>5, <1>7, <1>8, FS_Union
  <1>10. QED BY <1>2, <1>5, <1>6, <1>9 DEF Total

\* A sum of nothing.
LEMMA TotalOfZeros ==
    ASSUME NEW S, NEW f \in [S -> Nat], \A x \in S : f[x] = 0
    PROVE  Total(f) = 0
  <1>1. Units(f) = {}
    BY UnitsArePairs
  <1>2. QED BY <1>1, FS_EmptySet DEF Total

\* The sizes of disjoint parts add up to the size of the whole.
LEMMA TotalOfParts ==
    ASSUME NEW I, IsFiniteSet(I), NEW part,
           \A i \in I : IsFiniteSet(part[i]),
           \A i, j \in I : i # j => part[i] \cap part[j] = {}
    PROVE  Total([i \in I |-> Cardinality(part[i])]) = Cardinality(UNION {part[i] : i \in I})
  <1> DEFINE size == [i \in I |-> Cardinality(part[i])]
             whole == UNION {part[i] : i \in I}
             count == [i \in I |-> CHOOSE b : b \in Bijection(1..size[i], part[i])]
             nth == [u \in Units(size) |-> count[u[1]][u[2]]]
  <1>1. \A i \in I : /\ size[i] = Cardinality(part[i]) /\ size[i] \in Nat
                     /\ count[i] \in Bijection(1..size[i], part[i])
    <2> TAKE i \in I
    <2>1. size[i] = Cardinality(part[i])
      OBVIOUS
    <2>2. Cardinality(part[i]) \in Nat /\ ExistsBijection(1..Cardinality(part[i]), part[i])
      BY FS_CardinalityType
    <2>3. \E b : b \in Bijection(1..size[i], part[i])
      BY <2>1, <2>2 DEF ExistsBijection
    <2> HIDE DEF size
    <2>4. QED BY <2>1, <2>2, <2>3
  <1>2. size \in [I -> Nat]
    BY <1>1
  <1>3. \A i \in I : /\ \A k \in 1..size[i] : count[i][k] \in part[i]
                     /\ \A k, l \in 1..size[i] : count[i][k] = count[i][l] => k = l
                     /\ \A x \in part[i] : \E k \in 1..size[i] : count[i][k] = x
    <2> HIDE DEF size, count
    <2> QED BY <1>1 DEF Bijection, Injection, Surjection, IsInjective
  <1> HIDE DEF size, count
  <1>4. \A p : p \in Units(size) <=> \E i \in I, k \in Nat : p = <<i, k>> /\ 1 <= k /\ k <= size[i]
    BY <1>2, UnitsArePairs
  <1>5. \A i \in I : \A k \in 1..size[i] : <<i, k>> \in Units(size) /\ nth[<<i, k>>] = count[i][k]
    <2> TAKE i \in I
    <2> TAKE k \in 1..size[i]
    <2>1. k \in Nat /\ 1 <= k /\ k <= size[i]
      BY <1>1
    <2>2. QED BY <1>4, <2>1
  <1>6. \A p \in Units(size) : \E i \in I : \E k \in 1..size[i] : p = <<i, k>>
    <2> TAKE p \in Units(size)
    <2>1. PICK i \in I, k \in Nat : p = <<i, k>> /\ 1 <= k /\ k <= size[i]
      BY <1>4
    <2>2. k \in 1..size[i]
      BY <1>1, <2>1
    <2>3. QED BY <2>1, <2>2
  <1> HIDE DEF nth
  <1>7. nth \in [Units(size) -> whole]
    <2>1. \A p \in Units(size) : nth[p] \in whole
      BY <1>3, <1>5, <1>6
    <2>2. nth = [p \in Units(size) |-> nth[p]]
      BY DEF nth
    <2> HIDE DEF whole
    <2>3. QED BY <2>1, <2>2
  <1>8. \A x \in whole : \E p \in Units(size) : nth[p] = x
    <2> TAKE x \in whole
    <2>1. PICK i \in I : x \in part[i]
      OBVIOUS
    <2>2. PICK k \in 1..size[i] : count[i][k] = x
      BY <1>3, <2>1
    <2>3. QED BY <1>5, <2>2
  <1>9. ASSUME NEW p \in Units(size), NEW q \in Units(size), nth[p] = nth[q]
        PROVE  p = q
    <2>1. PICK i \in I : \E k \in 1..size[i] : p = <<i, k>>
      BY <1>6
    <2>a. PICK k \in 1..size[i] : p = <<i, k>>
      BY <2>1
    <2>2. PICK j \in I : \E l \in 1..size[j] : q = <<j, l>>
      BY <1>6
    <2>b. PICK l \in 1..size[j] : q = <<j, l>>
      BY <2>2
    <2>3. count[i][k] = count[j][l]
      BY <1>5, <1>9, <2>a, <2>b
    <2>4. count[i][k] \in part[i] /\ count[j][l] \in part[j]
      BY <1>3
    <2>5. i = j
      BY <2>3, <2>4
    <2>6. k = l
      BY <1>3, <2>3, <2>5
    <2>7. QED BY <2>a, <2>b, <2>5, <2>6
  <1>10. nth \in Bijection(Units(size), whole)
    <2> HIDE DEF whole
    <2> QED BY <1>7, <1>8, <1>9 DEF Bijection, Injection, Surjection, IsInjective
  <1>11. IsFiniteSet(Units(size)) /\ ExistsBijection(Units(size), whole)
    BY <1>2, <1>10, TotalNatural DEF ExistsBijection
  <1> HIDE DEF whole
  <1>12. Cardinality(whole) = Cardinality(Units(size))
    BY <1>11, FS_Bijection
  <1>13. QED BY <1>12 DEF Total, size, whole

\* A set counted by the value that each of its members has: every value counts the
\* members that have it.
LEMMA TotalOfTotals ==
    ASSUME NEW I, IsFiniteSet(I), NEW S, IsFiniteSet(S), NEW f \in [S -> Nat],
           NEW part \in [I -> SUBSET S],
           \A i, j \in I : i # j => part[i] \cap part[j] = {},
           \A x \in S : \E i \in I : x \in part[i]
    PROVE  Total([i \in I |-> Total([x \in part[i] |-> f[x]])]) = Total(f)
  <1> DEFINE g(i) == [x \in part[i] |-> f[x]]
             units == [i \in I |-> Units(g(i))]
  <1>1. \A i \in I : part[i] \subseteq S /\ g(i) \in [part[i] -> Nat]
    OBVIOUS
  <1>2. \A i \in I : \A p : p \in units[i] <=>
            \E x \in part[i], k \in Nat : p = <<x, k>> /\ 1 <= k /\ k <= f[x]
    <2> TAKE i \in I
    <2> TAKE p
    <2> DEFINE h == g(i)
    <2>1. h \in [part[i] -> Nat] /\ \A x \in part[i] : h[x] = f[x]
      BY <1>1
    <2>2. units[i] = Units(h)
      OBVIOUS
    <2> HIDE DEF h, units
    <2>3. p \in Units(h) <=> \E x \in part[i], k \in Nat : p = <<x, k>> /\ 1 <= k /\ k <= h[x]
      BY <2>1, UnitsArePairs
    <2>4. QED BY <2>1, <2>2, <2>3
  <1>3. \A p : p \in Units(f) <=> \E x \in S, k \in Nat : p = <<x, k>> /\ 1 <= k /\ k <= f[x]
    BY UnitsArePairs
  <1>4. IsFiniteSet(Units(f))
    BY TotalNatural
  <1>5. [i \in I |-> Total(g(i))] = [i \in I |-> Cardinality(units[i])]
    BY DEF Total
  <1> HIDE DEF units
  <1>6. \A i \in I : units[i] \subseteq Units(f)
    BY <1>1, <1>2, <1>3
  <1>7. \A i \in I : IsFiniteSet(units[i])
    BY <1>4, <1>6, FS_Subset
  <1>8. ASSUME NEW i \in I, NEW j \in I, i # j PROVE units[i] \cap units[j] = {}
    <2> SUFFICES ASSUME NEW p \in units[i], p \in units[j] PROVE FALSE
      OBVIOUS
    <2>1. PICK x \in part[i], k \in Nat : p = <<x, k>>
      BY <1>2
    <2>2. PICK y \in part[j], l \in Nat : p = <<y, l>>
      BY <1>2
    <2>3. x = y
      BY <2>1, <2>2
    <2>4. QED BY <1>8, <2>3
  <1>9. Units(f) = UNION {units[i] : i \in I}
    <2>1. ASSUME NEW p \in Units(f) PROVE \E i \in I : p \in units[i]
      <3>1. PICK x \in S, k \in Nat : p = <<x, k>> /\ 1 <= k /\ k <= f[x]
        BY <1>3
      <3>2. PICK i \in I : x \in part[i]
        OBVIOUS
      <3>3. QED BY <1>2, <3>1, <3>2
    <2>2. QED BY <1>6, <2>1
  <1>10. Total([i \in I |-> Cardinality(units[i])]) = Cardinality(UNION {units[i] : i \in I})
    <2>1. \A i, j \in I : i # j => units[i] \cap units[j] = {}
      BY <1>8
    <2> HIDE DEF g
    <2>2. QED BY ONLY IsFiniteSet(I), <1>7, <2>1, TotalOfParts
  <1>11. QED BY <1>5, <1>9, <1>10 DEF Total
-----------------------------------------------------------------------------
(* What evictions by age rest on. *)

\* Of a set of naturals one is the least.
LEMMA LeastNatural ==
    ASSUME NEW T \in SUBSET Nat, T # {}
    PROVE  \E x \in T : \A y \in T : x <= y
  <1> DEFINE R == {ss \in Nat \X Nat : ss[1] < ss[2]}
  <1>1. IsWellFoundedOn(R, Nat)
    BY NatLessThanWellFounded DEF OpToRel
  <1>2. \A x, y \in Nat : <<x, y>> \in R <=> x < y
    OBVIOUS
  <1> HIDE DEF R
  <1>3. PICK x \in T : \A y \in T : ~ (<<y, x>> \in R)
    BY <1>1, WFMin
  <1>4. ASSUME NEW y \in T PROVE x <= y
    <2>1. x \in Nat /\ y \in Nat /\ <<y, x>> \notin R
      BY <1>3
    <2>2. ~(y < x)
      BY <1>2, <2>1
    <2>3. QED BY <2>1, <2>2
  <1>5. QED BY <1>4

\* What is touched comes last.
LEMMA TouchOrders ==
    ASSUME NEW S, NEW older, IsOrder(older, S), NEW x
    PROVE  IsOrder(Touched(older, S, x), S \cup {x})
  <1> DEFINE new == Touched(older, S, x)
             T == S \cup {x}
  <1>1. \A a, b : <<a, b>> \in new <=> \/ <<a, b>> \in older /\ a # x /\ b # x
                                       \/ a \in S /\ a # x /\ b = x
    BY DEF Touched, Without
  <1>2. new \subseteq T \X T
    BY DEF Touched, Without, IsOrder
  <1> HIDE DEF new
  <1>3. /\ older \subseteq S \X S
        /\ \A a, b \in S : a # b => <<a, b>> \in older \/ <<b, a>> \in older
        /\ \A a, b \in S : ~(<<a, b>> \in older /\ <<b, a>> \in older)
        /\ \A a, b, c \in S : <<a, b>> \in older /\ <<b, c>> \in older => <<a, c>> \in older
    BY DEF IsOrder
  <1>4. \A a, b \in T : a # b => <<a, b>> \in new \/ <<b, a>> \in new
    BY <1>1, <1>3
  <1>5. \A a, b \in T : ~(<<a, b>> \in new /\ <<b, a>> \in new)
    BY <1>1, <1>3
  <1>6. \A a, b, c \in T : <<a, b>> \in new /\ <<b, c>> \in new => <<a, c>> \in new
    BY <1>1, <1>3
  <1>7. QED BY <1>2, <1>4, <1>5, <1>6 DEF IsOrder, new

LEMMA WithoutOrders ==
    ASSUME NEW S, NEW older, IsOrder(older, S), NEW x
    PROVE  IsOrder(Without(older, x), S \ {x})
  <1>1. \A a, b : <<a, b>> \in Without(older, x) <=> <<a, b>> \in older /\ a # x /\ b # x
    BY DEF Without
  <1>2. Without(older, x) \subseteq (S \ {x}) \X (S \ {x})
    BY DEF Without, IsOrder
  <1>3. QED BY <1>1, <1>2 DEF IsOrder

LEMMA PartOrders ==
    ASSUME NEW S, NEW older, IsOrder(older, S), NEW T \in SUBSET S
    PROVE  IsOrder(older \cap (T \X T), T)
  BY DEF IsOrder

\* Of a set one is the oldest.
LEMMA OldestOf ==
    ASSUME NEW S, NEW older, IsOrder(older, S), NEW T \in SUBSET S, IsFiniteSet(T), T # {}
    PROVE  \E x \in T : \A y \in T : y = x \/ <<x, y>> \in older
  <1> DEFINE Before(x) == {y \in T : <<y, x>> \in older}
             sizes == {Cardinality(Before(x)) : x \in T}
  <1>1. \A x \in T : IsFiniteSet(Before(x)) /\ Cardinality(Before(x)) \in Nat
    BY FS_Subset, FS_CardinalityType
  <1>2. PICK n \in sizes : \A m \in sizes : n <= m
    <2>1. sizes \in SUBSET Nat /\ sizes # {}
      BY <1>1
    <2> HIDE DEF sizes
    <2>2. QED BY <2>1, LeastNatural
  <1>3. PICK x \in T : n = Cardinality(Before(x))
    BY <1>2
  <1>4. ASSUME NEW y \in T, <<y, x>> \in older PROVE FALSE
    <2>1. Before(y) \subseteq Before(x)
      BY <1>4 DEF IsOrder
    <2>2. Before(y) # Before(x)
      <3>1. y \in Before(x) /\ y \notin Before(y)
        BY <1>4 DEF IsOrder
      <3>2. QED BY <3>1
    <2>3. IsFiniteSet(Before(x))
      BY <1>1
    <2>4. Cardinality(Before(x)) <= Cardinality(Before(y))
      BY <1>2, <1>3
    <2> HIDE DEF Before
    <2>5. /\ Cardinality(Before(y)) <= Cardinality(Before(x))
          /\ Cardinality(Before(y)) = Cardinality(Before(x)) => Before(y) = Before(x)
      BY <2>1, <2>3, FS_Subset
    <2>6. QED BY <1>1, <2>2, <2>4, <2>5
  <1>5. QED BY <1>4 DEF IsOrder

LEMMA OldestOfAll ==
    ASSUME NEW S, NEW older, IsOrder(older, S), IsFiniteSet(S), S # {}
    PROVE  \E x \in S : \A y \in S : y = x \/ <<x, y>> \in older
  <1>1. S \in SUBSET S
    OBVIOUS
  <1>2. QED BY <1>1, OldestOf

\* What an eviction by age keeps fits the limit.
LEMMA NewestFit ==
    ASSUME NEW S, NEW older, IsOrder(older, S), NEW T \in SUBSET S, IsFiniteSet(T),
           NEW size \in [T -> Nat], NEW limit \in Nat,
           NEW kept, kept = Newest(older, T, size, limit)
    PROVE  kept \subseteq T /\ Total([x \in kept |-> size[x]]) <= limit
  <1> DEFINE f == [x \in kept |-> size[x]]
  <1>1. kept \subseteq T /\ IsFiniteSet(kept)
    BY FS_Subset DEF Newest
  <1>2. f \in [kept -> Nat] /\ \A x \in kept : f[x] = size[x]
    BY <1>1
  <1>3. CASE kept = {}
    <2> HIDE DEF f
    <2>1. Total(f) = 0
      BY <1>2, <1>3, TotalOfZeros
    <2>2. QED BY <1>1, <2>1 DEF f
  <1>4. CASE kept # {}
    <2>1. PICK x \in kept : \A y \in kept : y = x \/ <<x, y>> \in older
      <3>1. kept \in SUBSET S
        BY <1>1
      <3>2. QED BY <1>1, <1>4, <3>1, OldestOf
    <2> DEFINE R == Since(older, T, x)
               g == [y \in R |-> size[y]]
    <2>2. Total(g) <= limit
      BY DEF Newest
    <2>3. R \subseteq T /\ kept \in SUBSET R /\ IsFiniteSet(R)
      BY <1>1, <2>1, FS_Subset DEF Since
    <2>4. g \in [R -> Nat] /\ \A y \in kept : f[y] <= g[y]
      BY <1>1, <1>2, <2>3
    <2> HIDE DEF f, g, R
    <2>5. Total(f) <= Total(g) /\ Total(f) \in Nat /\ Total(g) \in Nat
      BY <1>1, <1>2, <2>3, <2>4, TotalOfPart, TotalNatural
    <2>6. QED BY <1>1, <2>2, <2>5 DEF f
  <1>5. QED BY <1>3, <1>4
=============================================================================
