-------------------------- MODULE TradePagesProofs --------------------------
(***************************************************************************)
(* Proofs about TradePages, for any trades, limits, periods and page       *)
(* sizes: what the pages hold, however the selection orders equal rows.    *)
(***************************************************************************)
EXTENDS TradePages, FiniteSetTheorems, SequenceTheorems, TLAPS

-----------------------------------------------------------------------------
(* Ranks: counting what precedes puts a finite set in order. *)

TotalOn(R, K) ==
    /\ \A i \in K : <<i, i>> \in R
    /\ \A i, j \in K : <<i, j>> \in R \/ <<j, i>> \in R
    /\ \A i, j \in K : <<i, j>> \in R /\ <<j, i>> \in R => i = j
    /\ \A i, j, k \in K : <<i, j>> \in R /\ <<j, k>> \in R => <<i, k>> \in R

RankIn(R, K, i) == Cardinality({j \in K : <<j, i>> \in R})

\* The ranks of a total order agree with it.
LEMMA RankOrders ==
  ASSUME NEW K, IsFiniteSet(K), NEW R, TotalOn(R, K),
         NEW i \in K, NEW j \in K
  PROVE  /\ RankIn(R, K, i) \in 1..Cardinality(K)
         /\ <<i, j>> \in R <=> RankIn(R, K, i) <= RankIn(R, K, j)
         /\ RankIn(R, K, i) = RankIn(R, K, j) => i = j
<1> DEFINE Upto(x) == {y \in K : <<y, x>> \in R}
<1>1. \A x \in K : Upto(x) \in SUBSET K /\ x \in Upto(x)
  BY DEF TotalOn
<1>2. \A x \in K : /\ IsFiniteSet(Upto(x)) /\ Cardinality(Upto(x)) \in Nat
                   /\ Cardinality(Upto(x)) <= Cardinality(K)
                   /\ Cardinality(Upto(x)) # 0
  BY <1>1, FS_Subset, FS_CardinalityType, FS_EmptySet
<1>3. \A x, y \in K : <<x, y>> \in R =>
         /\ Cardinality(Upto(x)) <= Cardinality(Upto(y))
         /\ Cardinality(Upto(x)) = Cardinality(Upto(y)) => x = y
  <2> SUFFICES ASSUME NEW x \in K, NEW y \in K, <<x, y>> \in R
               PROVE  /\ Cardinality(Upto(x)) <= Cardinality(Upto(y))
                      /\ Cardinality(Upto(x)) = Cardinality(Upto(y)) => x = y
    OBVIOUS
  <2>1. Upto(x) \in SUBSET Upto(y)
    BY DEF TotalOn
  <2>2. Upto(x) = Upto(y) => x = y
    BY <1>1 DEF TotalOn
  <2> HIDE DEF Upto
  <2>3. QED
    BY <1>2, <2>1, <2>2, FS_Subset
<1>4. RankIn(R, K, i) = Cardinality(Upto(i)) /\ RankIn(R, K, j) = Cardinality(Upto(j))
  BY DEF RankIn
<1>5. Cardinality(K) \in Nat
  BY FS_CardinalityType
<1>6. <<i, j>> \in R \/ <<j, i>> \in R
  BY DEF TotalOn
<1>7. i = j => <<i, j>> \in R
  BY DEF TotalOn
<1> HIDE DEF Upto
<1>8. QED
  BY <1>2, <1>3, <1>4, <1>5, <1>6, <1>7

\* Every rank up to the size of the set is taken.
LEMMA RankIsOnto ==
  ASSUME NEW K, IsFiniteSet(K), NEW R, TotalOn(R, K),
         NEW r \in 1..Cardinality(K)
  PROVE  \E i \in K : RankIn(R, K, i) = r
<1> DEFINE N == Cardinality(K)
           f == [i \in K |-> RankIn(R, K, i)]
<1>1. N \in Nat /\ IsFiniteSet(1..N) /\ Cardinality(1..N) = N
  BY FS_CardinalityType, FS_Interval
<1>2. f \in [K -> 1..N]
  BY RankOrders
<1>3. IsInjective(f)
  <2>1. \A i, j \in K : RankIn(R, K, i) = RankIn(R, K, j) => i = j
    BY RankOrders
  <2>2. QED
    BY <2>1 DEF IsInjective
<1>4. f \in Injection(K, 1..N)
  BY <1>2, <1>3 DEF Injection
<1>5. f \in Surjection(K, 1..N)
  BY <1>1, <1>4, FS_Injection
<1>6. QED
  BY <1>5 DEF Surjection

-----------------------------------------------------------------------------
(* Page arithmetic. *)

\* There is another page exactly when the pages so far do not hold all.
LEMMA TotalPagesCovers ==
  ASSUME NEW n \in Nat, NEW k \in Nat, query.perPage \in Nat \ {0}
  PROVE  /\ TotalPages(n) \in Nat
         /\ TotalPages(n) <= k <=> n <= k * query.perPage
BY DEF TotalPages

LEMMA PageEnds ==
  ASSUME NEW k \in Nat, query.perPage \in Nat \ {0}
  PROVE  /\ k * query.perPage \in Nat
         /\ (k + 1) * query.perPage = k * query.perPage + query.perPage
OBVIOUS

LEMMA Count ==
  ASSUME NEW n \in Nat PROVE IsFiniteSet(1..n) /\ Cardinality(1..n) = n
BY FS_Interval

LEMMA QueryType == ASSUME query \in Query
  PROVE  /\ query.perPage \in Nat \ {0}
         /\ query.key \in {"date", "pnl"} /\ query.dir \in {"asc", "desc"}
BY BoundsAssumption DEF Query

-----------------------------------------------------------------------------
(* The selection. *)

LEMMA RowsType ==
  ASSUME TypeOK
  PROVE  /\ Rows \subseteq Trades /\ IsFiniteSet(Rows) /\ Cardinality(Rows) \in Nat
         /\ \A t \in Rows : /\ table[t] \in Row
                            /\ table[t].time \in Nat /\ table[t].pnl \in Int
<1>1. Rows \subseteq Trades
  BY DEF Rows
<1>2. IsFiniteSet(Rows) /\ Cardinality(Rows) \in Nat
  BY <1>1, TradesAssumption, FS_Subset, FS_CardinalityType
<1>3. ASSUME NEW t \in Rows
      PROVE  table[t] \in Row /\ table[t].time \in Nat /\ table[t].pnl \in Int
  <2>1. table[t] \in Row
    BY DEF TypeOK, Rows
  <2>2. table[t].time \in Times /\ table[t].pnl \in Profits
    BY <2>1 DEF Row
  <2>3. Times \subseteq Nat
    BY BoundsAssumption DEF Times
  <2>4. QED
    BY <2>1, <2>2, <2>3, ProfitsAssumption
<1>4. QED
  BY <1>1, <1>2, <1>3

\* A selection is a sequence of different rows, newest first, and leaves out
\* only rows that are no newer than any of its own.
LEMMA SelectedType ==
  ASSUME TypeOK, NEW s \in Selected
  PROVE  /\ Len(s) \in Nat /\ DOMAIN s = 1..Len(s) /\ s \in [1..Len(s) -> Rows]
         /\ s \in Seq(Trades)
         /\ Len(s) = IF Cardinality(Rows) < Limit THEN Cardinality(Rows) ELSE Limit
         /\ \A i, j \in 1..Len(s) : i < j => s[i] # s[j] /\ ~Newer(s[j], s[i])
         /\ \A i, j \in 1..Len(s) : s[i] = s[j] => i = j
         /\ \A t \in Rows : (\A i \in 1..Len(s) : s[i] # t)
                               => \A i \in 1..Len(s) : ~Newer(t, s[i])
<1> DEFINE n == IF Cardinality(Rows) < Limit THEN Cardinality(Rows) ELSE Limit
<1>1. n \in Nat
  BY RowsType, BoundsAssumption
<1>2. s \in [1..n -> Rows]
  BY DEF Selected
<1>3. s \in Seq(Rows) /\ Len(s) = n
  BY <1>1, <1>2
<1>4. s \in Seq(Trades)
  BY <1>3, RowsType, SeqMonotonic
<1>5. /\ \A i, j \in 1..n : i < j => s[i] # s[j] /\ ~Newer(s[j], s[i])
      /\ \A t \in Rows : (\A i \in 1..n : s[i] # t) => \A i \in 1..n : ~Newer(t, s[i])
  BY DEF Selected
<1>6. \A i, j \in 1..n : s[i] = s[j] => i = j
  BY <1>1, <1>5
<1> HIDE DEF n
<1>7. QED
  BY <1>1, <1>2, <1>3, <1>4, <1>5, <1>6 DEF n

\* A trade with a place is in every selection, right behind the rows that are
\* newer.
LEMMA PlaceInSelection ==
  ASSUME TypeOK, NEW s \in Selected, NEW t \in Trades, HasPlace(t)
  PROVE  \E i \in 1..Len(s) :
            /\ s[i] = t
            /\ \A u \in Rows : Newer(u, t) <=> \E j \in 1..(i - 1) : s[j] = u
<1>1. t \in Rows
  BY DEF HasPlace, Rows
<1>a. Len(s) \in Nat /\ Cardinality(1..Len(s)) = Len(s)
  BY SelectedType, Count
<1> USE SelectedType, RowsType
<1>2. \A u \in Rows \ {t} : Newer(u, t) \/ Newer(t, u)
  BY <1>1 DEF HasPlace, Newer
<1>3. \E i \in 1..Len(s) : s[i] = t
  <2> SUFFICES ASSUME \A i \in 1..Len(s) : s[i] # t PROVE FALSE
    OBVIOUS
  <2> DEFINE N == {u \in Rows : Newer(u, t)}
  <2>1. \A i \in 1..Len(s) : s[i] \in N
    BY <1>1, <1>2
  <2>2. IsFiniteSet(N) /\ Cardinality(N) < Limit
    BY FS_Subset DEF HasPlace
  <2>3. s \in [1..Len(s) -> N]
    BY <2>1
  <2> HIDE DEF N
  <2>4. s \in Injection(1..Len(s), N)
    BY <2>3 DEF Injection, IsInjective
  <2>5. Cardinality(1..Len(s)) = Len(s)
    BY <1>a
  <2>6. Len(s) <= Cardinality(N) /\ Cardinality(N) \in Nat
    BY <2>2, <2>4, <2>5, FS_Injection, FS_CardinalityType
  <2>7. Len(s) = Cardinality(Rows)
    BY <2>2, <2>6, BoundsAssumption
  <2>8. s \in Injection(1..Len(s), Rows)
    BY DEF Injection, IsInjective
  <2>9. s \in Surjection(1..Len(s), Rows)
    BY <2>5, <2>7, <2>8, FS_Injection
  <2>10. QED
    BY <1>1, <2>9 DEF Surjection
<1>4. PICK i \in 1..Len(s) : s[i] = t
  BY <1>3
<1>5. ASSUME NEW u \in Rows, Newer(u, t)
      PROVE  \E j \in 1..(i - 1) : s[j] = u
  <2>1. PICK j \in 1..Len(s) : s[j] = u
    BY <1>4, <1>5
  <2>2. ~(i < j) /\ i # j
    BY <1>1, <1>4, <1>5, <2>1 DEF Newer
  <2>3. QED
    BY <2>1, <2>2
<1>6. ASSUME NEW j \in 1..(i - 1) PROVE Newer(s[j], t)
  <2>1. j \in 1..Len(s) /\ s[j] \in Rows /\ s[j] # t /\ ~Newer(t, s[j])
    BY <1>4
  <2>2. QED
    BY <1>2, <2>1
<1>7. QED
  BY <1>4, <1>5, <1>6

\* Conversely, if no two rows share their time, whatever is selected has a
\* place.
LEMMA SelectedHavePlace ==
  ASSUME TypeOK, NEW s \in Selected, Unambiguous, NEW i \in 1..Len(s)
  PROVE  HasPlace(s[i])
<1>a. IsFiniteSet(1..(i - 1)) /\ Cardinality(1..(i - 1)) = i - 1
  <2>1. i - 1 \in Nat
    BY SelectedType
  <2>2. QED
    BY <2>1, Count
<1> USE SelectedType, RowsType
<1> DEFINE N == {u \in Rows : Newer(u, s[i])}
<1>1. \A u \in N : \E j \in 1..(i - 1) : s[j] = u
  <2> SUFFICES ASSUME NEW u \in Rows, Newer(u, s[i])
               PROVE  \E j \in 1..(i - 1) : s[j] = u
    OBVIOUS
  <2>1. PICK j \in 1..Len(s) : s[j] = u
    OBVIOUS
  <2>2. ~(i < j) /\ i # j
    BY <2>1 DEF Newer
  <2>3. QED
    BY <2>1, <2>2
<1> DEFINE place == [u \in N |-> CHOOSE j \in 1..(i - 1) : s[j] = u]
<1>2. \A u \in N : place[u] \in 1..(i - 1) /\ s[place[u]] = u
  BY <1>1
<1> HIDE DEF N
<1>3. place \in [N -> 1..(i - 1)]
  BY <1>2
<1>4. place \in Injection(N, 1..(i - 1))
  BY <1>2, <1>3 DEF Injection, IsInjective
<1>5. IsFiniteSet(1..(i - 1)) /\ Cardinality(1..(i - 1)) = i - 1
  BY <1>a
<1> HIDE DEF place
<1>6. Cardinality(N) <= i - 1 /\ Cardinality(N) \in Nat
  BY <1>4, <1>5, FS_Injection, FS_CardinalityType
<1>7. Cardinality(N) < Limit
  BY <1>6, BoundsAssumption
<1>8. s[i] \in Rows
  OBVIOUS
<1>9. QED
  BY <1>7, <1>8 DEF HasPlace, Unambiguous, Rows, N

\* There is always something that the SELECT may return: the rows can be put
\* in an order, newest first, that settles equal times in some way.
LEMMA SelectionExists == ASSUME TypeOK PROVE Selected # {}
<1> DEFINE N == Cardinality(Rows)
           K == 1..N
           n == IF N < Limit THEN N ELSE Limit
<1>1. N \in Nat /\ IsFiniteSet(Rows) /\ IsFiniteSet(K) /\ Cardinality(K) = N
  BY RowsType, Count
<1>2. PICK e \in Bijection(K, Rows) : TRUE
  BY <1>1, FS_CardinalityType DEF ExistsBijection
<1>3. /\ \A x \in K : e[x] \in Rows
      /\ \A x, y \in K : e[x] = e[y] => x = y
      /\ \A t \in Rows : \E x \in K : e[x] = t
  BY <1>2 DEF Bijection, Injection, Surjection, IsInjective
<1> DEFINE T(x) == table[e[x]].time
           R == {p \in K \X K : \/ T(p[1]) > T(p[2])
                                \/ T(p[1]) = T(p[2]) /\ p[1] <= p[2]}
<1>4. \A x \in K : T(x) \in Nat /\ x \in Nat
  BY <1>3, RowsType
<1>5. \A x, y \in K : <<x, y>> \in R <=> \/ T(x) > T(y)
                                         \/ T(x) = T(y) /\ x <= y
  OBVIOUS
<1>6. \A x, y \in K : Newer(e[x], e[y]) <=> T(x) > T(y)
  BY DEF Newer
<1> HIDE DEF R, T
<1>7. TotalOn(R, K)
  BY <1>4, <1>5 DEF TotalOn
<1>8. \A r \in 1..N : \E x \in K : RankIn(R, K, x) = r
  BY <1>1, <1>7, RankIsOnto
<1>9. \A x, y \in K : /\ RankIn(R, K, x) \in 1..N
                      /\ <<x, y>> \in R <=> RankIn(R, K, x) <= RankIn(R, K, y)
  <2> HIDE DEF K
  <2>1. QED
    BY <1>1, <1>7, RankOrders
<1> DEFINE at == [r \in 1..N |-> CHOOSE x \in K : RankIn(R, K, x) = r]
           s == [r \in 1..n |-> e[at[r]]]
<1>10. \A r \in 1..N : at[r] \in K /\ RankIn(R, K, at[r]) = r
  BY <1>8
<1>11. n \in Nat /\ n <= N /\ \A r \in 1..n : r \in 1..N
  BY <1>1, BoundsAssumption
<1>12. \A r \in 1..n : s[r] = e[at[r]] /\ s[r] \in Rows
  BY <1>3, <1>10, <1>11
<1> HIDE DEF at, s, n
<1>13. s \in [1..n -> Rows]
  BY <1>12 DEF s
\* Of two places the later one is not newer, nor the same row.
<1>14. \A i, j \in 1..N : i < j => e[at[i]] # e[at[j]] /\ ~Newer(e[at[j]], e[at[i]])
  <2> SUFFICES ASSUME NEW i \in 1..N, NEW j \in 1..N, i < j
               PROVE  e[at[i]] # e[at[j]] /\ ~Newer(e[at[j]], e[at[i]])
    OBVIOUS
  <2>1. /\ at[i] \in K /\ RankIn(R, K, at[i]) = i
        /\ at[j] \in K /\ RankIn(R, K, at[j]) = j
    BY <1>10
  <2>2. <<at[i], at[j]>> \in R /\ at[i] # at[j]
    BY <1>1, <1>9, <2>1
  <2>3. ~(T(at[j]) > T(at[i]))
    BY <1>4, <1>5, <2>1, <2>2
  <2>4. QED
    BY <1>3, <1>6, <2>1, <2>2, <2>3
<1>15. \A i, j \in 1..n : i < j => s[i] # s[j] /\ ~Newer(s[j], s[i])
  BY <1>11, <1>12, <1>14
<1>16. ASSUME NEW t \in Rows, \A i \in 1..n : s[i] # t, NEW i \in 1..n
       PROVE  ~Newer(t, s[i])
  <2>1. PICK x \in K : e[x] = t
    BY <1>3
  <2> DEFINE r == RankIn(R, K, x)
  <2>2. r \in 1..N
    BY <1>9, <2>1
  <2>3. at[r] = x
    <3>1. at[r] \in K /\ RankIn(R, K, at[r]) = r
      BY <1>10, <2>2
    <3>2. <<at[r], x>> \in R /\ <<x, at[r]>> \in R
      BY <1>1, <1>9, <2>1, <2>2, <3>1
    <3>3. QED
      BY <1>4, <1>5, <2>1, <3>1, <3>2
  <2>4. ~(r \in 1..n)
    BY <1>12, <1>16, <2>1, <2>3
  <2>5. i < r /\ i \in 1..N
    BY <1>1, <1>11, <1>16, <2>2, <2>4
  <2>6. QED
    BY <1>12, <1>14, <1>16, <2>1, <2>2, <2>3, <2>5
<1>17. s \in Selected
  BY <1>13, <1>15, <1>16 DEF Selected, n
<1>18. QED
  BY <1>17

-----------------------------------------------------------------------------
(* The sort. *)

Place(s, i) == Cardinality({j \in Kept(s) : Precedes(s, j, i)})

\* The comparison, and where it finds two trades equal the place before the
\* sort, put what was kept in a total order.
LEMMA PrecedesIsTotal ==
  ASSUME TypeOK, NEW s \in Selected
  PROVE  \A i, j, k \in Kept(s) :
            /\ Precedes(s, i, i)
            /\ Precedes(s, i, j) \/ Precedes(s, j, i)
            /\ Precedes(s, i, j) /\ Precedes(s, j, i) => i = j
            /\ Precedes(s, i, j) /\ Precedes(s, j, k) => Precedes(s, i, k)
<1> DEFINE v(i) == SortValue(s[i])
<1>1. \A i \in Kept(s) : i \in Nat /\ s[i] \in Rows
  BY SelectedType DEF Kept
<1>2. \A i \in Kept(s) : v(i) \in Int
  BY <1>1, RowsType DEF SortValue
<1>3. \A i, j \in Kept(s) : Precedes(s, i, j) <=>
         IF query.dir = "asc" THEN v(i) < v(j) \/ (v(i) = v(j) /\ i <= j)
                              ELSE v(i) > v(j) \/ (v(i) = v(j) /\ i <= j)
  BY <1>2 DEF Precedes, Before
<1> HIDE DEF v
<1>4. QED
  BY <1>1, <1>2, <1>3

\* Sorted holds what was kept, each at the place that the order gives it.
LEMMA SortedPlaces ==
  ASSUME TypeOK, NEW s \in Selected
  PROVE  /\ Sorted(s) \in Seq(Trades)
         /\ IsFiniteSet(Kept(s)) /\ Len(Sorted(s)) = Cardinality(Kept(s))
         /\ Len(Sorted(s)) \in Nat
         /\ \A i \in Kept(s) : /\ Place(s, i) \in 1..Len(Sorted(s))
                               /\ Sorted(s)[Place(s, i)] = s[i]
         /\ \A r \in 1..Len(Sorted(s)) : \E i \in Kept(s) : Place(s, i) = r
         /\ \A i, j \in Kept(s) :
               /\ Precedes(s, i, j) <=> Place(s, i) <= Place(s, j)
               /\ Place(s, i) = Place(s, j) => i = j
<1> DEFINE K == Kept(s)
           N == Cardinality(K)
           R == {p \in K \X K : Precedes(s, p[1], p[2])}
<1>1. K \subseteq 1..Len(s) /\ Len(s) \in Nat
  BY SelectedType DEF Kept
<1>2. IsFiniteSet(K) /\ N \in Nat
  BY <1>1, Count, FS_Subset, FS_CardinalityType
<1>3. \A i, j \in K : <<i, j>> \in R <=> Precedes(s, i, j)
  OBVIOUS
<1>4. TotalOn(R, K)
  BY <1>3, PrecedesIsTotal DEF TotalOn
<1>5. \A i \in K : RankIn(R, K, i) = Place(s, i)
  <2> SUFFICES ASSUME NEW i \in K PROVE RankIn(R, K, i) = Place(s, i)
    OBVIOUS
  <2>1. {j \in K : <<j, i>> \in R} = {j \in K : Precedes(s, j, i)}
    BY <1>3
  <2>2. QED
    BY <2>1 DEF RankIn, Place
<1> HIDE DEF R
<1>6. \A i, j \in K : /\ Place(s, i) \in 1..N
                      /\ Precedes(s, i, j) <=> Place(s, i) <= Place(s, j)
                      /\ Place(s, i) = Place(s, j) => i = j
  <2> SUFFICES ASSUME NEW i \in K, NEW j \in K
               PROVE  /\ Place(s, i) \in 1..N
                      /\ Precedes(s, i, j) <=> Place(s, i) <= Place(s, j)
                      /\ Place(s, i) = Place(s, j) => i = j
    OBVIOUS
  <2> HIDE DEF K
  <2>1. /\ RankIn(R, K, i) \in 1..N
        /\ <<i, j>> \in R <=> RankIn(R, K, i) <= RankIn(R, K, j)
        /\ RankIn(R, K, i) = RankIn(R, K, j) => i = j
    BY <1>2, <1>4, RankOrders
  <2>2. QED
    BY <1>3, <1>5, <2>1
<1>7. \A r \in 1..N : \E i \in K : Place(s, i) = r
  BY <1>2, <1>4, <1>5, RankIsOnto
<1> DEFINE f == [r \in 1..N |-> s[CHOOSE i \in K : Place(s, i) = r]]
<1>8. Sorted(s) = f
  BY DEF Sorted, Place
<1>9. \A r \in 1..N : f[r] \in Trades
  BY <1>1, <1>7, SelectedType, RowsType
<1>10. f \in Seq(Trades) /\ Len(f) = N
  <2>1. f \in [1..N -> Trades]
    BY <1>9
  <2> HIDE DEF f, N
  <2>2. QED
    BY <1>2, <2>1
<1>11. \A i \in K : f[Place(s, i)] = s[i]
  <2> SUFFICES ASSUME NEW i \in K PROVE f[Place(s, i)] = s[i]
    OBVIOUS
  <2>1. (CHOOSE j \in K : Place(s, j) = Place(s, i)) = i
    BY <1>6
  <2>2. QED
    BY <1>6, <2>1
<1> HIDE DEF f
<1>12. QED
  BY <1>2, <1>6, <1>7, <1>8, <1>10, <1>11

\* Newest first, the place of a trade is decided by the matching rows that are
\* newer, whichever way the rest was selected.
Ahead(t) == {u \in Rows : Matches(u) /\ Newer(u, t)}

LEMMA AheadIsFinite ==
  ASSUME TypeOK, NEW t
  PROVE  IsFiniteSet(Ahead(t)) /\ Cardinality(Ahead(t)) \in Nat
BY RowsType, FS_Subset, FS_CardinalityType DEF Ahead

LEMMA NewestFirstPlace ==
  ASSUME TypeOK, NEW s \in Selected, query.key = "date", query.dir = "desc",
         NEW t \in Trades, HasPlace(t), Matches(t)
  PROVE  /\ Cardinality(Ahead(t)) + 1 \in 1..Len(Sorted(s))
         /\ Sorted(s)[Cardinality(Ahead(t)) + 1] = t
<1>1. PICK i \in 1..Len(s) :
            /\ s[i] = t
            /\ \A u \in Rows : Newer(u, t) <=> \E j \in 1..(i - 1) : s[j] = u
  BY PlaceInSelection
<1> DEFINE K == Kept(s)
           L == {j \in K : Newer(s[j], t)}
<1>2. /\ \A j \in K : j \in 1..Len(s) /\ s[j] \in Rows /\ Matches(s[j])
      /\ \A j \in 1..Len(s) : Matches(s[j]) => j \in K
      /\ i \in K /\ t \in Rows
  BY <1>1, SelectedType DEF Kept
<1>3. \A j \in K : Precedes(s, j, i) <=> j \in L \/ j = i
  <2> SUFFICES ASSUME NEW j \in K
               PROVE  Precedes(s, j, i) <=> Newer(s[j], t) \/ j = i
    OBVIOUS
  <2>1. /\ s[j] \in Rows /\ t \in Rows /\ i \in Nat /\ j \in Nat
        /\ table[s[j]].time \in Int /\ table[t].time \in Int
    <3>1. s[j] \in Rows /\ t \in Rows /\ j \in 1..Len(s)
      BY <1>2
    <3>2. i \in Nat /\ j \in Nat
      BY <3>1, SelectedType
    <3>3. \A u \in Rows : table[u].time \in Int
      BY RowsType
    <3>4. QED
      BY <3>1, <3>2, <3>3
  <2>2. s[j] = t => j = i
    BY <1>1, <1>2, SelectedType
  <2>3. s[j] # t => table[s[j]].time # table[t].time
    BY <1>2 DEF HasPlace
  <2>4. QED
    BY <1>1, <2>1, <2>2, <2>3 DEF Precedes, Before, SortValue, Newer
<1>4. IsFiniteSet(L) /\ Cardinality(L) \in Nat
  BY SortedPlaces, FS_Subset, FS_CardinalityType
<1>5. Cardinality(L) = Cardinality(Ahead(t))
  <2> DEFINE f == [j \in L |-> s[j]]
  <2>1. f \in [L -> Ahead(t)]
    BY <1>2 DEF Ahead
  <2>2. \A j, k \in L : f[j] = f[k] => j = k
    BY <1>2, SelectedType
  <2>3. \A u \in Ahead(t) : \E j \in L : f[j] = u
    <3> SUFFICES ASSUME NEW u \in Ahead(t) PROVE \E j \in L : f[j] = u
      OBVIOUS
    <3>1. PICK j \in 1..(i - 1) : s[j] = u
      BY <1>1 DEF Ahead
    <3>2. j \in 1..Len(s)
      BY SelectedType
    <3>3. j \in L
      BY <1>2, <3>1, <3>2 DEF Ahead
    <3>4. QED
      BY <3>1, <3>3
  <2> HIDE DEF f, L
  <2>4. f \in Bijection(L, Ahead(t))
    BY <2>1, <2>2, <2>3 DEF Bijection, Injection, Surjection, IsInjective
  <2>5. QED
    BY <1>4, <2>4, FS_Bijection DEF ExistsBijection
<1>6. Place(s, i) = Cardinality(L) + 1
  <2>1. {j \in K : Precedes(s, j, i)} = L \cup {i}
    BY <1>2, <1>3
  <2>2. i \notin L
    BY <1>1, <1>2, RowsType DEF Newer
  <2> HIDE DEF L
  <2>3. Cardinality(L \cup {i}) = Cardinality(L) + 1
    BY <1>4, <2>2, FS_AddElement
  <2>4. QED
    BY <2>1, <2>3 DEF Place
<1>7. QED
  BY <1>1, <1>2, <1>5, <1>6, SortedPlaces

-----------------------------------------------------------------------------
(* The pages. *)

\* What a page adds to the first pages of the same sequence.
LEMMA PagesAddUp ==
  ASSUME NEW T \in Seq(Trades), NEW k \in Nat, query.perPage \in Nat \ {0}
  PROVE  LET end == (k + 1) * query.perPage
         IN  /\ PaginateTrades(T, k + 1) \in Seq(Trades)
             /\ \A r \in 1..Len(T) : k * query.perPage < r /\ r <= end =>
                   \E i \in DOMAIN PaginateTrades(T, k + 1) :
                      PaginateTrades(T, k + 1)[i] = T[r]
             /\ k * query.perPage <= Len(T) =>
                   SubSeq(T, 1, k * query.perPage) \o PaginateTrades(T, k + 1)
                      = SubSeq(T, 1, IF end < Len(T) THEN end ELSE Len(T))
<1> DEFINE P == query.perPage
           a == k * P
           end == (k + 1) * P
           b == IF end < Len(T) THEN end ELSE Len(T)
<1>1. a \in Nat /\ end = a + P /\ P \in Nat \ {0} /\ Len(T) \in Nat
  <2>1. Len(T) \in Nat
    OBVIOUS
  <2>2. QED
    BY <2>1, PageEnds
<1>2. b \in Nat /\ b <= Len(T) /\ b <= a + P
  BY <1>1
<1>3. PaginateTrades(T, k + 1) = SubSeq(T, a + 1, b)
  <2>1. (k + 1) - 1 = k
    OBVIOUS
  <2>2. QED
    BY <2>1 DEF PaginateTrades
<1>4. \A i \in (a + 1)..b : T[i] \in Trades
  BY <1>1, <1>2
<1> HIDE DEF a, b
<1>5. /\ SubSeq(T, a + 1, b) \in Seq(Trades)
      /\ Len(SubSeq(T, a + 1, b)) = IF a + 1 <= b THEN b - a ELSE 0
      /\ \A i \in 1..(b - a) : SubSeq(T, a + 1, b)[i] = T[a + i]
  BY <1>1, <1>2, <1>4, SubSeqProperties
<1>6. ASSUME NEW r \in 1..Len(T), a < r, r <= end
      PROVE  \E i \in DOMAIN SubSeq(T, a + 1, b) : SubSeq(T, a + 1, b)[i] = T[r]
  <2>1. r <= b /\ r - a \in 1..(b - a)
    BY <1>1, <1>2, <1>6 DEF b
  <2>2. a + (r - a) = r
    BY <1>1
  <2>3. DOMAIN SubSeq(T, a + 1, b) = 1..(b - a)
    BY <1>1, <1>2, <1>5, <2>1
  <2>4. QED
    BY <1>5, <2>1, <2>2, <2>3
<1>7. ASSUME a <= Len(T) PROVE SubSeq(T, 1, a) \o SubSeq(T, a + 1, b) = SubSeq(T, 1, b)
  <2>1. 1 \in 1..(Len(T) + 1) /\ a \in (1 - 1)..Len(T) /\ b \in a..Len(T)
    BY <1>1, <1>2, <1>7 DEF b
  <2>2. QED
    BY <2>1, ConcatAdjacentSubSeq
<1>8. QED
  BY <1>3, <1>5, <1>6, <1>7 DEF a, b

-----------------------------------------------------------------------------
(* Types. *)

LEMMA InitHasType == Init => TypeOK
<1> SUFFICES ASSUME Init PROVE TypeOK
  OBVIOUS
<1>1. got \in Seq(Trades) /\ page \in Nat /\ pages \in Nat
  BY EmptySeq DEF Init
<1>2. writes \in 0..MaxWrites /\ steady \subseteq Trades /\ quiet \in BOOLEAN
  BY BoundsAssumption DEF Init
<1>3. QED
  BY <1>1, <1>2 DEF Init, TypeOK

LEMMA WriteKeepsType ==
  ASSUME TypeOK, NEW t \in Trades, NEW row \in Row, Write(t, row)
  PROVE  TypeOK'
<1>1. table' \in [Trades -> Row \cup {NoRow}]
  BY DEF TypeOK, Write
<1>2. now' \in Times /\ writes' \in 0..MaxWrites
  BY BoundsAssumption DEF TypeOK, Write
<1>3. /\ phase' \in {"idle", "walking", "done", "failed"} /\ query' \in Query
      /\ page' \in Nat /\ pages' \in Nat /\ got' \in Seq(Trades)
  BY DEF TypeOK, Write, Meanwhile, client
<1>4. steady' \subseteq Trades /\ quiet' \in BOOLEAN
  BY DEF TypeOK, Write, Meanwhile
<1>5. QED
  BY <1>1, <1>2, <1>3, <1>4 DEF TypeOK

\* A row that loop D adds or dates anew is a row.
LEMMA WritesAreRows ==
  ASSUME TypeOK
  PROVE  /\ \A t \in Trades, time \in Times, pnl \in Profits :
               [time |-> time, pnl |-> pnl] \in Row
         /\ \A t \in Undated \cap Rows :
               /\ t \in Trades
               /\ [table[t] EXCEPT !.time = now] \in Row
               /\ [table[t] EXCEPT !.time = now].time = now
               /\ [table[t] EXCEPT !.time = now].pnl = table[t].pnl
<1>1. \A t \in Rows : t \in Trades /\ table[t] \in Row
  BY RowsType
<1>2. now \in Times
  BY DEF TypeOK
<1>3. QED
  BY <1>1, <1>2 DEF Row

LEMMA NextKeepsType == TypeOK /\ [Next]_vars => TypeOK'
<1> SUFFICES ASSUME TypeOK, [Next]_vars PROVE TypeOK'
  OBVIOUS
<1>1. CASE GetTrades
  <2>1. PICK s \in Selected :
           /\ got' = got \o PaginateTrades(Sorted(s), page + 1)
           /\ pages' = TotalPages(Len(Sorted(s)))
           /\ phase' \in {"walking", "done"}
    BY <1>1 DEF GetTrades
  <2>2. Sorted(s) \in Seq(Trades) /\ Len(Sorted(s)) \in Nat
    BY SortedPlaces
  <2>3. query \in Query /\ query.perPage \in Nat \ {0} /\ page \in Nat
    BY QueryType DEF TypeOK
  <2>4. PaginateTrades(Sorted(s), page + 1) \in Seq(Trades)
    BY <2>2, <2>3, PagesAddUp
  <2>5. pages' \in Nat
    BY <2>1, <2>2, <2>3, TotalPagesCovers
  <2>6. got' \in Seq(Trades)
    BY <2>1, <2>4 DEF TypeOK
  <2>7. QED
    BY <1>1, <2>1, <2>5, <2>6 DEF GetTrades, TypeOK
<1>2. CASE GetTradesFails
  BY <1>2 DEF GetTradesFails, TypeOK
<1>3. ASSUME NEW t \in Trades, NEW time \in Times, NEW pnl \in Profits,
             Insert(t, time, pnl)
      PROVE  TypeOK'
  BY <1>3, WritesAreRows, WriteKeepsType DEF Insert
<1>4. ASSUME NEW t \in Trades, Redate(t) PROVE TypeOK'
  BY <1>4, WritesAreRows, WriteKeepsType DEF Redate
<1>5. CASE Tick
  BY <1>5, BoundsAssumption DEF Tick, Meanwhile, client, TypeOK, Times
<1>6. CASE UNCHANGED vars
  BY <1>6 DEF vars, client, TypeOK
<1>7. QED
  BY <1>1, <1>2, <1>3, <1>4, <1>5, <1>6 DEF Next

\* Each variable keeps its type: a page is a sequence of trades, and a number
\* of pages a natural number, whatever is selected and however it is sorted.
THEOREM PagesTypeCorrect == Spec => []TypeOK
BY InitHasType, NextKeepsType, PTL DEF Spec

\* In every reachable state the SELECT has an answer, so the order by time and
\* the limit contradict each other for no table, and GetTrades is never blocked.
THEOREM PagesAnswered == Spec => [](Selected # {})
<1>1. TypeOK => Selected # {}
  BY SelectionExists
<1>2. QED
  BY <1>1, PagesTypeCorrect, PTL

-----------------------------------------------------------------------------
(* Nothing steady is missed. *)

Walking == phase \in {"idle", "walking"}
NewestFirst == query.key = "date" /\ query.dir = "desc"

\* What the client has not got yet of the trades that were there all along is
\* still behind the pages it got: at least as many trades are ahead of it as
\* those pages could hold.
SteadyAhead ==
    \A t \in steady : t \in Received \/ page * query.perPage <= Cardinality(Ahead(t))

SteadyInv ==
    /\ TypeOK
    /\ \A t \in Rows : table[t].time <= now
    /\ Walking => \A t \in steady : HasPlace(t) /\ Matches(t)
    /\ Walking /\ NewestFirst => SteadyAhead
    /\ NothingSteadyMissed

LEMMA SteadyInit == Init => SteadyInv
<1> SUFFICES ASSUME Init PROVE SteadyInv
  OBVIOUS
<1>1. TypeOK
  BY InitHasType
<1>2. \A t \in steady : HasPlace(t) /\ Matches(t)
  BY DEF Init
<1>3. \A t : Cardinality(Ahead(t)) \in Nat
  BY <1>1, AheadIsFinite
<1>4. page * query.perPage = 0
  BY <1>1, QueryType DEF Init, TypeOK
<1>5. SteadyAhead
  BY <1>3, <1>4 DEF SteadyAhead
<1>6. (\A t \in Rows : table[t].time <= now) /\ phase = "idle"
  BY DEF Init
<1>7. QED
  BY <1>1, <1>2, <1>5, <1>6 DEF SteadyInv, NothingSteadyMissed

\* The next page holds the trades that are as far back as it reaches.
LEMMA SteadyPage == SteadyInv /\ GetTrades => SteadyInv'
<1> SUFFICES ASSUME SteadyInv, GetTrades PROVE SteadyInv'
  OBVIOUS
<1>1. TypeOK /\ TypeOK' /\ Walking
  BY NextKeepsType DEF SteadyInv, Next, GetTrades, Walking
<1>2. UNCHANGED <<table, now, query, steady>> /\ page' = page + 1
  BY DEF GetTrades
<1>3. PICK s \in Selected :
         /\ got' = got \o PaginateTrades(Sorted(s), page + 1)
         /\ phase' = IF page + 1 < TotalPages(Len(Sorted(s))) THEN "walking" ELSE "done"
  BY DEF GetTrades
<1> DEFINE T == Sorted(s)
           cut == PaginateTrades(T, page + 1)
           P == query.perPage
<1>4. /\ P \in Nat \ {0} /\ page \in Nat /\ got \in Seq(Trades)
      /\ T \in Seq(Trades) /\ Len(T) \in Nat
  BY <1>1, QueryType, SortedPlaces DEF TypeOK
<1>5. \A t \in steady : t \in Trades /\ HasPlace(t) /\ Matches(t)
  BY <1>1 DEF SteadyInv, TypeOK
<1>6. /\ \A t \in Received : t \in Received'
      /\ \A i \in DOMAIN cut : cut[i] \in Received'
  <2>1. cut \in Seq(Trades)
    BY <1>4, PagesAddUp
  <2> HIDE DEF cut
  <2>2. got' = got \o cut
    BY <1>3 DEF cut
  <2>3. /\ Len(got') = Len(got) + Len(cut)
        /\ Len(got) \in Nat /\ Len(cut) \in Nat
        /\ DOMAIN got' = 1..(Len(got) + Len(cut))
        /\ DOMAIN got = 1..Len(got) /\ DOMAIN cut = 1..Len(cut)
        /\ \A i \in 1..(Len(got) + Len(cut)) :
              got'[i] = IF i <= Len(got) THEN got[i] ELSE cut[i - Len(got)]
    BY <1>4, <2>1, <2>2
  <2>4. \A i \in DOMAIN got : i \in DOMAIN got' /\ got'[i] = got[i]
    BY <2>3
  <2>5. \A i \in DOMAIN cut : i + Len(got) \in DOMAIN got' /\ got'[i + Len(got)] = cut[i]
    BY <2>3
  <2>6. QED
    BY <2>4, <2>5 DEF Received
<1>7. ASSUME NewestFirst, NEW t \in steady
      PROVE  \/ t \in Received'
             \/ /\ (page + 1) * P <= Cardinality(Ahead(t))
                /\ phase' = "walking"
  <2> DEFINE r == Cardinality(Ahead(t)) + 1
             end == (page + 1) * P
  <2>1. r \in 1..Len(T) /\ T[r] = t
    BY <1>1, <1>5, <1>7, NewestFirstPlace DEF NewestFirst
  <2>2. t \in Received \/ page * P < r
    <3>1. Cardinality(Ahead(t)) \in Nat /\ page * P \in Nat
      BY <1>1, <1>4, AheadIsFinite, PageEnds
    <3>2. t \in Received \/ page * P <= Cardinality(Ahead(t))
      BY <1>1, <1>7 DEF SteadyInv, SteadyAhead
    <3>3. QED
      BY <3>1, <3>2
  <2>3. end \in Nat
    <3>1. page + 1 \in Nat
      BY <1>4
    <3>2. QED
      BY <1>4, <3>1, PageEnds
  <2>4. page * P < r /\ r <= end => t \in Received'
    <3>1. page * P < r /\ r <= end => \E i \in DOMAIN cut : cut[i] = T[r]
      BY <1>4, <2>1, PagesAddUp
    <3>2. QED
      BY <1>6, <2>1, <3>1
  <2>5. ASSUME end < r PROVE end <= Cardinality(Ahead(t)) /\ phase' = "walking"
    <3>1. Cardinality(Ahead(t)) \in Nat
      BY <1>1, AheadIsFinite
    <3>2. ~(Len(T) <= end)
      BY <1>4, <2>1, <2>3, <2>5
    <3>3. TotalPages(Len(T)) \in Nat /\ ~(TotalPages(Len(T)) <= page + 1)
      BY <1>4, <3>2, TotalPagesCovers
    <3>4. end <= Cardinality(Ahead(t))
      BY <2>3, <2>5, <3>1
    <3>5. QED
      BY <1>3, <1>4, <3>3, <3>4
  <2>6. r \in Nat
    BY <1>4, <2>1
  <2>7. QED
    BY <1>6, <2>2, <2>3, <2>4, <2>5, <2>6
<1>8. /\ Rows' = Rows /\ \A t : Ahead(t)' = Ahead(t)
      /\ \A t : HasPlace(t)' = HasPlace(t) /\ Matches(t)' = Matches(t)
  BY <1>2 DEF Rows, Ahead, Matches, Newer, HasPlace
<1>9. NewestFirst' = NewestFirst
  BY <1>2 DEF NewestFirst
<1>10. NewestFirst => SteadyAhead'
  BY <1>2, <1>7, <1>8 DEF SteadyAhead
<1>11. NothingSteadyMissed'
  BY <1>2, <1>7 DEF NothingSteadyMissed, NewestFirst
<1>12. QED
  BY <1>1, <1>2, <1>5, <1>8, <1>9, <1>10, <1>11 DEF SteadyInv

\* What loop D and the clock do to the rows: each of them stays what it was, or
\* is dated now, and none is ever ahead of the clock.
Aged ==
    /\ Meanwhile
    /\ \A u \in Rows :
          /\ u \in Rows'
          /\ table'[u].pnl = table[u].pnl
          /\ table'[u] = table[u] \/ (table'[u].time = now' /\ now' = now)
    /\ \A u \in Rows' : table'[u].time <= now'

LEMMA WriteAges ==
  ASSUME SteadyInv, NEW t \in Trades, NEW row \in Row, Write(t, row),
         row.time <= now,
         t \in Rows => row.time = now /\ row.pnl = table[t].pnl
  PROVE  Aged
<1>1. /\ Meanwhile /\ now' = now /\ table' = [table EXCEPT ![t] = row]
      /\ table \in [Trades -> Row \cup {NoRow}]
      /\ \A u \in Rows : table[u].time <= now
  BY DEF Write, SteadyInv, TypeOK
<1>2. table'[t] = row /\ \A u \in Trades : u # t => table'[u] = table[u]
  BY <1>1
<1>3. row # NoRow
  BY NoRowAssumption
<1>4. Rows' = Rows \cup {t}
  BY <1>2, <1>3 DEF Rows
<1>5. Rows \subseteq Trades
  BY DEF Rows
<1>6. QED
  BY <1>1, <1>2, <1>4, <1>5 DEF Aged

LEMMA StepsAge ==
  ASSUME SteadyInv
  PROVE  /\ \A t \in Trades, time \in Times, pnl \in Profits : Insert(t, time, pnl) => Aged
         /\ \A t \in Trades : Redate(t) => Aged
         /\ Tick => Aged
<1> USE DEF SteadyInv
<1>1. ASSUME NEW t \in Trades, NEW time \in Times, NEW pnl \in Profits,
             Insert(t, time, pnl)
      PROVE  Aged
  <2>1. t \notin Rows /\ time <= now /\ Write(t, [time |-> time, pnl |-> pnl])
    BY <1>1 DEF Insert, Rows
  <2>2. [time |-> time, pnl |-> pnl] \in Row
    BY WritesAreRows
  <2>3. QED
    BY <2>1, <2>2, WriteAges
<1>2. ASSUME NEW t \in Trades, Redate(t) PROVE Aged
  <2>1. t \in Undated \cap Rows /\ Write(t, [table[t] EXCEPT !.time = now])
    BY <1>2 DEF Redate
  <2>2. /\ [table[t] EXCEPT !.time = now] \in Row
        /\ [table[t] EXCEPT !.time = now].time = now
        /\ [table[t] EXCEPT !.time = now].pnl = table[t].pnl
    BY <2>1, WritesAreRows
  <2>3. now <= now
    BY BoundsAssumption DEF TypeOK, Times
  <2>4. QED
    BY <2>1, <2>2, <2>3, WriteAges
<1>3. ASSUME Tick PROVE Aged
  <2>1. now' = now + 1 /\ table' = table /\ Meanwhile
    BY <1>3 DEF Tick
  <2>2. Rows' = Rows
    BY <2>1 DEF Rows
  <2>3. now \in Nat /\ \A u \in Rows : table[u].time \in Nat
    BY RowsType, BoundsAssumption DEF TypeOK, Times
  <2>4. QED
    BY <2>1, <2>2, <2>3 DEF Aged
<1>4. QED
  BY <1>1, <1>2, <1>3

\* Whatever is added, dated anew or leaves the period, a steady trade only gets
\* further back.
LEMMA AheadGrows ==
  ASSUME SteadyInv, TypeOK', Aged, NEW t \in steady'
  PROVE  Ahead(t) \subseteq Ahead(t)'
<1>1. t \in steady /\ HasPlace(t)' /\ Matches(t)' /\ table'[t] = table[t]
  BY DEF Aged, Meanwhile
<1>2. query' = query /\ phase = "walking"
  BY DEF Aged, Meanwhile, client
<1>3. HasPlace(t)
  BY <1>1, <1>2 DEF SteadyInv, Walking
<1>4. t \in Rows /\ t \in Rows'
  BY <1>1, <1>3 DEF SteadyInv, TypeOK, Rows, HasPlace
<1> SUFFICES ASSUME NEW u \in Rows, Matches(u), Newer(u, t)
             PROVE  u \in Rows' /\ Matches(u)' /\ Newer(u, t)'
  BY DEF Ahead
<1>5. u \in Rows' /\ table'[u].pnl = table[u].pnl
  BY DEF Aged
<1>6. /\ table[u].time \in Nat /\ table[t].time \in Nat
      /\ table'[u].time \in Nat /\ table'[t].time \in Nat
      /\ now \in Int /\ now' \in Int
  <2>1. \A x \in Rows : table[x].time \in Nat
    BY RowsType DEF SteadyInv
  <2>2. \A x \in Rows' : table'[x].time \in Nat
    <3>1. \A x \in Rows' : table'[x] \in Row
      BY DEF TypeOK, Rows
    <3>2. QED
      BY <3>1, BoundsAssumption DEF Row, Times
  <2>3. now \in Times /\ now' \in Times
    BY DEF SteadyInv, TypeOK
  <2>4. QED
    BY <1>4, <1>5, <2>1, <2>2, <2>3, BoundsAssumption DEF Times
<1>7. table[u].time > table[t].time
  BY DEF Newer
<1>8. table'[u].time > table'[t].time
  <2>1. CASE table'[u] = table[u]
    BY <1>1, <1>7, <2>1
  <2>2. CASE table'[u].time = now' /\ now' = now
    <3>1. table[u].time <= now
      BY DEF SteadyInv
    <3>2. QED
      BY <1>1, <1>6, <1>7, <2>2, <3>1
  <2>3. QED
    BY <2>1, <2>2 DEF Aged
<1>9. query.period = "window" => table'[u].time >= now' - Window
  BY <1>1, <1>2, <1>6, <1>8, BoundsAssumption DEF Matches
<1>10. Matches(u)'
  BY <1>2, <1>5, <1>9 DEF Matches
<1>11. QED
  BY <1>5, <1>8, <1>10 DEF Newer

LEMMA SteadyAges == SteadyInv /\ TypeOK' /\ Aged => SteadyInv'
<1> SUFFICES ASSUME SteadyInv, TypeOK', Aged PROVE SteadyInv'
  OBVIOUS
<1>1. phase = "walking" /\ UNCHANGED <<phase, query, page, got>>
  BY DEF Aged, Meanwhile, client
<1>2. \A t \in steady' : t \in steady /\ HasPlace(t)' /\ Matches(t)'
  BY DEF Aged, Meanwhile
<1>3. ASSUME NewestFirst PROVE SteadyAhead'
  <2> SUFFICES ASSUME NEW t \in steady'
               PROVE  t \in Received' \/ page' * query'.perPage <= Cardinality(Ahead(t)')
    BY DEF SteadyAhead
  <2>1. t \in Received \/ page * query.perPage <= Cardinality(Ahead(t))
    BY <1>1, <1>2, <1>3 DEF SteadyInv, SteadyAhead, Walking
  <2>2. Ahead(t) \subseteq Ahead(t)'
    BY AheadGrows
  <2>3. IsFiniteSet(Ahead(t)') /\ Cardinality(Ahead(t)') \in Nat
    <3>1. Ahead(t)' \in SUBSET Trades
      BY DEF Ahead, Rows
    <3>2. QED
      BY <3>1, TradesAssumption, FS_Subset, FS_CardinalityType
  <2>4. Cardinality(Ahead(t)) <= Cardinality(Ahead(t)') /\ Cardinality(Ahead(t)) \in Nat
    BY <2>2, <2>3, FS_Subset, FS_CardinalityType
  <2>5. page * query.perPage \in Nat
    BY QueryType, PageEnds DEF SteadyInv, TypeOK
  <2>6. Received' = Received
    BY <1>1 DEF Received
  <2>7. QED
    BY <1>1, <2>1, <2>3, <2>4, <2>5, <2>6
<1>4. NewestFirst' = NewestFirst
  BY <1>1 DEF NewestFirst
<1>5. QED
  BY <1>1, <1>2, <1>3, <1>4 DEF SteadyInv, Aged, NothingSteadyMissed

\* Newest first, a client that reads to the last page has got every trade that
\* matched in one and the same place all along: for any number of trades, any
\* limit, period and page size, whatever loop D adds or dates anew between two
\* pages, and whichever rows the database selects among equals.
THEOREM SteadyCorrect == Spec => []NothingSteadyMissed
<1>1. SteadyInv /\ [Next]_vars => SteadyInv'
  <2> SUFFICES ASSUME SteadyInv, [Next]_vars PROVE SteadyInv'
    OBVIOUS
  <2>1. TypeOK'
    BY NextKeepsType DEF SteadyInv
  <2>2. CASE GetTrades
    BY <2>2, SteadyPage
  <2>3. CASE GetTradesFails
    <3>1. phase' = "failed" /\ UNCHANGED <<table, now>>
      BY <2>3 DEF GetTradesFails
    <3>2. QED
      BY <2>1, <3>1 DEF SteadyInv, Walking, NothingSteadyMissed, Rows
  <2>4. CASE \/ \E t \in Trades, time \in Times, pnl \in Profits : Insert(t, time, pnl)
             \/ \E t \in Trades : Redate(t)
             \/ Tick
    BY <2>1, <2>4, StepsAge, SteadyAges
  <2>5. CASE UNCHANGED vars
    BY <2>1, <2>5 DEF vars, client, SteadyInv, Walking, NewestFirst, SteadyAhead,
       NothingSteadyMissed, Received, Ahead, Rows, Matches, Newer, HasPlace
  <2>6. QED
    BY <2>2, <2>3, <2>4, <2>5 DEF Next
<1>2. SteadyInv => NothingSteadyMissed
  BY DEF SteadyInv
<1>3. QED
  BY SteadyInit, <1>1, <1>2, PTL DEF Spec

-----------------------------------------------------------------------------
(* Quiet pages. *)

\* The order asked for, the newest first among equals.
Goes(t, u) ==
    \/ Before(t, u)
    \/ ~Before(u, t) /\ Newer(t, u)

IsAnswer(T) ==
    /\ T \in Seq(Trades)
    /\ {T[i] : i \in DOMAIN T} = Findable
    /\ Len(T) = Cardinality(Findable)
    /\ \A i, j \in DOMAIN T : i < j => Goes(T[i], T[j])

LEMMA GoesIsStrict ==
  ASSUME TypeOK
  PROVE  \A t, u \in Rows : ~(Goes(t, u) /\ Goes(u, t))
<1>1. \A t \in Rows : SortValue(t) \in Int /\ table[t].time \in Int
  BY RowsType DEF SortValue
<1>2. QED
  BY <1>1 DEF Goes, Before, Newer

\* If no two rows share their time, whatever the database selects is sorted
\* into the answer.
LEMMA SortedIsAnswer ==
  ASSUME TypeOK, Unambiguous, NEW s \in Selected
  PROVE  IsAnswer(Sorted(s))
<1> DEFINE T == Sorted(s)
           N == Len(T)
<1>1. /\ T \in Seq(Trades) /\ N \in Nat /\ DOMAIN T = 1..N
      /\ \A i \in Kept(s) : Place(s, i) \in 1..N /\ T[Place(s, i)] = s[i]
      /\ \A r \in 1..N : \E i \in Kept(s) : Place(s, i) = r
      /\ \A i, j \in Kept(s) : Precedes(s, i, j) <=> Place(s, i) <= Place(s, j)
  <2>1. T \in Seq(Trades)
    BY SortedPlaces
  <2>2. QED
    BY <2>1, SortedPlaces
<1>2. /\ \A i \in Kept(s) : i \in 1..Len(s) /\ s[i] \in Rows /\ Matches(s[i])
      /\ \A i \in 1..Len(s) : Matches(s[i]) => i \in Kept(s)
  BY SelectedType DEF Kept
<1> HIDE DEF T
<1>3. \A r \in 1..N : T[r] \in Findable
  <2> SUFFICES ASSUME NEW r \in 1..N PROVE T[r] \in Findable
    OBVIOUS
  <2>1. PICK i \in Kept(s) : Place(s, i) = r
    BY <1>1
  <2>2. HasPlace(s[i])
    BY <1>2, SelectedHavePlace
  <2>3. QED
    BY <1>1, <1>2, <2>1, <2>2 DEF Findable
<1>4. \A t \in Findable : \E r \in 1..N : T[r] = t
  <2> SUFFICES ASSUME NEW t \in Findable PROVE \E r \in 1..N : T[r] = t
    OBVIOUS
  <2>1. t \in Trades /\ HasPlace(t) /\ Matches(t)
    BY RowsType DEF Findable
  <2>2. PICK i \in 1..Len(s) : s[i] = t
    BY <2>1, PlaceInSelection
  <2>3. QED
    BY <1>1, <1>2, <2>1, <2>2
<1>5. ASSUME NEW q \in 1..N, NEW r \in 1..N, q < r PROVE Goes(T[q], T[r])
  <2>1. PICK i \in Kept(s) : Place(s, i) = q
    BY <1>1
  <2>2. PICK j \in Kept(s) : Place(s, j) = r
    BY <1>1
  <2>3. Precedes(s, i, j) /\ ~Precedes(s, j, i)
    BY <1>1, <1>5, <2>1, <2>2
  <2>4. T[q] = s[i] /\ T[r] = s[j] /\ i \in 1..Len(s) /\ j \in 1..Len(s)
    BY <1>1, <1>2, <2>1, <2>2
  <2>5. ASSUME i <= j PROVE Newer(s[i], s[j])
    <3>1. i < j
      <4>1. i # j
        BY <2>3
      <4>2. i \in Int /\ j \in Int
        BY <2>4, SelectedType
      <4>3. QED
        BY <2>5, <4>1, <4>2
    <3>2. s[i] # s[j] /\ ~Newer(s[j], s[i])
      BY <2>4, <3>1, SelectedType
    <3>3. s[i] \in Rows /\ s[j] \in Rows
      BY <1>2, <2>1, <2>2
    <3>4. table[s[i]].time # table[s[j]].time
      BY <3>2, <3>3 DEF Unambiguous
    <3>5. table[s[i]].time \in Int /\ table[s[j]].time \in Int
      BY <3>3, RowsType
    <3>6. QED
      BY <3>2, <3>4, <3>5 DEF Newer
  <2>6. QED
    BY <2>3, <2>4, <2>5 DEF Precedes, Goes
<1>6. N = Cardinality(Findable)
  <2>1. \A q, r \in 1..N : T[q] = T[r] => q = r
    <3>1. \A q, r \in 1..N : T[q] \in Rows /\ (q < r => Goes(T[q], T[r]))
      BY <1>3, <1>5 DEF Findable
    <3>2. \A q, r \in 1..N : q # r => q < r \/ r < q
      BY <1>1
    <3>3. QED
      BY <3>1, <3>2, GoesIsStrict
  <2>2. T \in [1..N -> Findable]
    BY <1>1, <1>3
  <2>3. T \in Bijection(1..N, Findable)
    BY <1>4, <2>1, <2>2 DEF Bijection, Injection, Surjection, IsInjective
  <2>4. ExistsBijection(1..N, Findable)
    BY <2>3 DEF ExistsBijection
  <2>5. IsFiniteSet(1..N) /\ Cardinality(1..N) = N
    BY <1>1, Count
  <2>6. QED
    BY <2>4, <2>5, FS_Bijection
<1>7. {T[i] : i \in DOMAIN T} = Findable
  BY <1>1, <1>3, <1>4
<1>8. IsAnswer(T)
  BY <1>1, <1>5, <1>6, <1>7 DEF IsAnswer
<1>9. QED
  BY <1>8 DEF T

\* There is only one answer: the place of a trade in it is the number of those
\* that do not go behind it.
LEMMA AnswerPlace ==
  ASSUME TypeOK, NEW T, IsAnswer(T), NEW r \in 1..Len(T)
  PROVE  r = Cardinality({u \in Findable : u = T[r] \/ Goes(u, T[r])})
<1> DEFINE U == {u \in Findable : u = T[r] \/ Goes(u, T[r])}
           f == [q \in 1..r |-> T[q]]
<1>1. Len(T) \in Nat /\ DOMAIN T = 1..Len(T) /\ r \in Nat
  BY DEF IsAnswer
<1>2. /\ \A q \in 1..Len(T) : T[q] \in Findable /\ T[q] \in Rows
      /\ \A u \in Findable : \E q \in 1..Len(T) : T[q] = u
  BY <1>1 DEF IsAnswer, Findable
<1>3. \A p, q \in 1..Len(T) : p < q => Goes(T[p], T[q])
  BY <1>1 DEF IsAnswer
<1>4. \A p, q \in 1..Len(T) : T[p] = T[q] => p = q
  <2>1. \A p, q \in 1..Len(T) : p # q => p < q \/ q < p
    BY <1>1
  <2>2. QED
    BY <1>2, <1>3, <2>1, GoesIsStrict
<1>5. \A q \in 1..r : q \in 1..Len(T) /\ (q = r \/ q < r)
  BY <1>1
<1>6. f \in [1..r -> U]
  BY <1>2, <1>3, <1>5
<1>7. \A p, q \in 1..r : f[p] = f[q] => p = q
  BY <1>4, <1>5
<1>8. \A u \in U : \E q \in 1..r : f[q] = u
  <2> SUFFICES ASSUME NEW u \in U PROVE \E q \in 1..r : f[q] = u
    OBVIOUS
  <2>1. PICK q \in 1..Len(T) : T[q] = u
    BY <1>2
  <2>2. ~(r < q)
    BY <1>2, <1>3, <2>1, GoesIsStrict
  <2>3. q \in 1..r
    BY <1>1, <2>1, <2>2
  <2>4. QED
    BY <2>1, <2>3
<1> HIDE DEF f, U
<1>9. f \in Bijection(1..r, U)
  BY <1>6, <1>7, <1>8 DEF Bijection, Injection, Surjection, IsInjective
<1>10. ExistsBijection(1..r, U)
  BY <1>9 DEF ExistsBijection
<1>11. IsFiniteSet(1..r) /\ Cardinality(1..r) = r
  BY <1>1, Count
<1>12. r = Cardinality(U)
  BY <1>10, <1>11, FS_Bijection
<1>13. QED
  BY <1>12 DEF U

LEMMA AnswerIsUnique ==
  ASSUME TypeOK, NEW S, NEW T, IsAnswer(S), IsAnswer(T)
  PROVE  S = T
<1>1. S \in Seq(Trades) /\ T \in Seq(Trades) /\ Len(S) = Len(T)
  BY DEF IsAnswer
<1>2. \A r \in 1..Len(S) : S[r] = T[r]
  <2> SUFFICES ASSUME NEW r \in 1..Len(S) PROVE S[r] = T[r]
    OBVIOUS
  <2>0. DOMAIN S = 1..Len(S) /\ DOMAIN T = 1..Len(T)
    BY <1>1
  <2>1. PICK q \in 1..Len(T) : T[q] = S[r]
    BY <2>0 DEF IsAnswer
  <2>2. q = Cardinality({u \in Findable : u = T[q] \/ Goes(u, T[q])})
    BY AnswerPlace
  <2>3. r = Cardinality({u \in Findable : u = S[r] \/ Goes(u, S[r])})
    BY AnswerPlace
  <2>4. QED
    BY <2>1, <2>2, <2>3
<1>3. QED
  BY <1>1, <1>2, SeqEqual

\* While it is quiet the pages so far are the first ones of the answer, and the
\* last of them is not behind its end.
QuietInv ==
    /\ TypeOK
    /\ phase = "idle" => got = <<>> /\ page = 0
    /\ quiet /\ Unambiguous /\ phase = "walking" =>
          \E T : /\ IsAnswer(T)
                 /\ page >= 1 /\ page * query.perPage < Len(T)
                 /\ got = SubSeq(T, 1, page * query.perPage)
    /\ quiet /\ Unambiguous /\ phase = "done" =>
          /\ IsAnswer(got)
          /\ page = 1 \/ (page - 1) * query.perPage < Len(got)

LEMMA SameAnswer ==
  ASSUME table' = table, query' = query,
         {t \in Rows : Matches(t)}' = {t \in Rows : Matches(t)}
  PROVE  /\ Unambiguous' = Unambiguous
         /\ \A T : IsAnswer(T)' = IsAnswer(T)
<1>1. Rows' = Rows
  BY DEF Rows
<1>2. \A t, u : Newer(t, u)' = Newer(t, u) /\ Before(t, u)' = Before(t, u)
  BY DEF Newer, Before, SortValue
<1>3. \A t : HasPlace(t)' = HasPlace(t)
  BY <1>1 DEF HasPlace, Newer
<1>4. \A t \in Rows : Matches(t)' <=> Matches(t)
  BY <1>1
<1>5. Findable' = Findable
  BY <1>1, <1>3, <1>4 DEF Findable
<1>6. QED
  BY <1>1, <1>2, <1>5 DEF Unambiguous, IsAnswer, Goes

LEMMA QuietPage == QuietInv /\ GetTrades => QuietInv'
<1> SUFFICES ASSUME QuietInv, GetTrades PROVE QuietInv'
  OBVIOUS
<1>1. TypeOK /\ TypeOK'
  BY NextKeepsType DEF QuietInv, Next
<1>2. /\ phase \in {"idle", "walking"} /\ page' = page + 1
      /\ UNCHANGED <<table, now, query, quiet>>
  BY DEF GetTrades
<1>3. PICK s \in Selected :
         /\ got' = got \o PaginateTrades(Sorted(s), page + 1)
         /\ phase' = IF page + 1 < TotalPages(Len(Sorted(s))) THEN "walking" ELSE "done"
  BY DEF GetTrades
<1>4. Unambiguous' = Unambiguous /\ \A T : IsAnswer(T)' = IsAnswer(T)
  <2>1. {t \in Rows : Matches(t)}' = {t \in Rows : Matches(t)}
    BY <1>2 DEF Rows, Matches
  <2>2. QED
    BY <1>2, <2>1, SameAnswer
<1> SUFFICES ASSUME quiet, Unambiguous
             PROVE  /\ phase' = "walking" =>
                          \E T : /\ IsAnswer(T)
                                 /\ page' >= 1 /\ page' * query.perPage < Len(T)
                                 /\ got' = SubSeq(T, 1, page' * query.perPage)
                    /\ phase' = "done" =>
                          /\ IsAnswer(got')
                          /\ page' = 1 \/ (page' - 1) * query.perPage < Len(got')
  <2>1. phase' # "idle"
    BY <1>3
  <2>2. QED
    BY <1>1, <1>2, <1>4, <2>1 DEF QuietInv
<1> DEFINE T == Sorted(s)
           P == query.perPage
           end == (page + 1) * P
<1>5. IsAnswer(T)
  BY <1>1, SortedIsAnswer
<1>6. /\ P \in Nat \ {0} /\ page \in Nat /\ T \in Seq(Trades) /\ Len(T) \in Nat
  BY <1>1, <1>5, QueryType DEF TypeOK, IsAnswer
<1>7. page * P \in Nat /\ end \in Nat
  <2>1. page + 1 \in Nat
    BY <1>6
  <2>2. QED
    BY <1>6, <2>1, PageEnds
<1>8. /\ page * P <= Len(T) /\ got = SubSeq(T, 1, page * P)
      /\ page + 1 = 1 \/ page * P < Len(T)
  <2>1. CASE phase = "idle"
    <3>1. page = 0 /\ got = <<>>
      BY <2>1 DEF QuietInv
    <3>2. page * P = 0
      BY <1>6, <3>1
    <3>3. SubSeq(T, 1, 0) = <<>>
      BY SubSeqEmpty
    <3>4. QED
      BY <1>6, <3>1, <3>2, <3>3
  <2>2. CASE phase = "walking"
    <3>1. PICK S : /\ IsAnswer(S) /\ page * P < Len(S)
                   /\ got = SubSeq(S, 1, page * P)
      BY <2>2 DEF QuietInv
    <3>2. S = T
      BY <1>1, <1>5, <3>1, AnswerIsUnique
    <3>3. QED
      BY <1>6, <1>7, <3>1, <3>2
  <2>3. QED
    BY <1>2, <2>1, <2>2
<1>9. got' = SubSeq(T, 1, IF end < Len(T) THEN end ELSE Len(T))
  <2>1. SubSeq(T, 1, page * P) \o PaginateTrades(T, page + 1)
           = SubSeq(T, 1, IF end < Len(T) THEN end ELSE Len(T))
    BY <1>6, <1>8, PagesAddUp
  <2>2. QED
    BY <1>3, <1>8, <2>1
<1>10. /\ TotalPages(Len(T)) \in Nat
       /\ TotalPages(Len(T)) <= page + 1 <=> Len(T) <= end
  <2>1. page + 1 \in Nat
    BY <1>6
  <2>2. QED
    BY <1>6, <2>1, TotalPagesCovers
<1> HIDE DEF T, P, end
<1>11. ASSUME phase' = "walking"
       PROVE  page' >= 1 /\ end < Len(T) /\ got' = SubSeq(T, 1, end)
  BY <1>2, <1>3, <1>6, <1>7, <1>9, <1>10, <1>11 DEF T
<1>12. ASSUME phase' = "done"
       PROVE  got' = T
  <2>1. ~(end < Len(T))
    BY <1>3, <1>6, <1>7, <1>10, <1>12 DEF T
  <2>2. SubSeq(T, 1, Len(T)) = T
    BY <1>6, SubSeqFull
  <2>3. QED
    BY <1>9, <2>1, <2>2
<1>13. page' - 1 = page /\ page' * P = end
  BY <1>2, <1>6 DEF end
<1>14. QED
  BY <1>2, <1>5, <1>8, <1>11, <1>12, <1>13 DEF P

LEMMA QuietAges ==
  ASSUME QuietInv, TypeOK', Meanwhile
  PROVE  QuietInv'
<1>1. phase = "walking" /\ UNCHANGED <<phase, query, page, got>>
  BY DEF Meanwhile, client
<1>2. CASE ~quiet'
  BY <1>1, <1>2 DEF QuietInv
<1>3. CASE quiet'
  <2>1. /\ quiet /\ table' = table
        /\ {t \in Rows : Matches(t)}' = {t \in Rows : Matches(t)}
    BY <1>3 DEF Meanwhile
  <2>2. Unambiguous' = Unambiguous /\ \A T : IsAnswer(T)' = IsAnswer(T)
    BY <1>1, <2>1, SameAnswer
  <2>3. QED
    BY <1>1, <1>3, <2>1, <2>2 DEF QuietInv
<1>4. QED
  BY <1>2, <1>3 DEF QuietInv

\* If nothing changes meanwhile and no two trades share their time, the pages
\* put together are the answer, each match once and in order, and no page is
\* asked for in vain: for any number of trades, any limit and any page size.
THEOREM QuietCorrect == Spec => []QuietPagesAreTheAnswer
<1>1. Init => QuietInv
  BY InitHasType DEF Init, QuietInv
<1>2. QuietInv /\ [Next]_vars => QuietInv'
  <2> SUFFICES ASSUME QuietInv, [Next]_vars PROVE QuietInv'
    OBVIOUS
  <2>1. TypeOK'
    BY NextKeepsType DEF QuietInv
  <2>2. CASE GetTrades
    BY <2>2, QuietPage
  <2>3. CASE GetTradesFails
    BY <2>1, <2>3 DEF GetTradesFails, QuietInv
  <2>4. CASE \/ \E t \in Trades, time \in Times, pnl \in Profits : Insert(t, time, pnl)
             \/ \E t \in Trades : Redate(t)
             \/ Tick
    <3>1. Meanwhile
      BY <2>4 DEF Insert, Redate, Tick, Write
    <3>2. QED
      BY <2>1, <3>1, QuietAges
  <2>5. CASE UNCHANGED vars
    <3>1. UNCHANGED <<table, now, query, phase, page, got, quiet>>
      BY <2>5 DEF vars, client
    <3>2. {t \in Rows : Matches(t)}' = {t \in Rows : Matches(t)}
      BY <3>1 DEF Rows, Matches
    <3>3. Unambiguous' = Unambiguous /\ \A T : IsAnswer(T)' = IsAnswer(T)
      BY <3>1, <3>2, SameAnswer
    <3>4. QED
      BY <2>1, <3>1, <3>3 DEF QuietInv
  <2>6. QED
    BY <2>2, <2>3, <2>4, <2>5 DEF Next
<1>3. QuietInv => QuietPagesAreTheAnswer
  BY DEF QuietInv, QuietPagesAreTheAnswer, IsAnswer, Goes, Received
<1>4. QED
  BY <1>1, <1>2, <1>3, PTL DEF Spec
=============================================================================
