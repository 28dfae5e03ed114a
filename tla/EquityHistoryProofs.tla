------------------------ MODULE EquityHistoryProofs ------------------------
(***************************************************************************)
(* Proofs about EquityHistory, for any days, balances and periods.         *)
(***************************************************************************)
EXTENDS EquityHistory, FiniteSetTheorems, SequenceTheorems, TLAPS

-----------------------------------------------------------------------------
(* A finite set of integers in ascending order. *)

LEMMA Count ==
  ASSUME NEW n \in Nat PROVE IsFiniteSet(1..n) /\ Cardinality(1..n) = n
BY FS_Interval

Upto(D, x) == {y \in D : y <= x}

\* How many elements an element has up to itself is its place.
LEMMA UptoOrders ==
  ASSUME NEW D \in SUBSET Int, IsFiniteSet(D)
  PROVE  \A d, e \in D :
            /\ Cardinality(Upto(D, d)) \in 1..Cardinality(D)
            /\ d < e => Cardinality(Upto(D, d)) < Cardinality(Upto(D, e))
<1>1. \A d \in D : Upto(D, d) \in SUBSET D /\ d \in Upto(D, d)
  BY DEF Upto
<1>2. \A d \in D : /\ IsFiniteSet(Upto(D, d)) /\ Cardinality(Upto(D, d)) \in Nat
                   /\ Cardinality(Upto(D, d)) <= Cardinality(D)
                   /\ Cardinality(Upto(D, d)) # 0
  BY <1>1, FS_Subset, FS_CardinalityType, FS_EmptySet
<1>3. Cardinality(D) \in Nat
  BY FS_CardinalityType
<1>4. ASSUME NEW d \in D, NEW e \in D, d < e
      PROVE  Cardinality(Upto(D, d)) < Cardinality(Upto(D, e))
  <2>1. Upto(D, d) \in SUBSET Upto(D, e) /\ e \notin Upto(D, d)
    <3>1. \A x \in D : x \in Int
      OBVIOUS
    <3>2. \A x \in D : x <= d => x <= e
      BY <1>4, <3>1
    <3>3. ~(e <= d)
      BY <1>4, <3>1
    <3>4. QED
      BY <3>2, <3>3 DEF Upto
  <2>2. Upto(D, d) # Upto(D, e)
    BY <1>1, <2>1
  <2>3. QED
    BY <1>2, <2>1, <2>2, FS_Subset
<1>5. QED
  BY <1>2, <1>3, <1>4

LEMMA AscendingSorts ==
  ASSUME NEW D \in SUBSET Int, IsFiniteSet(D)
  PROVE  /\ Cardinality(D) \in Nat
         /\ Ascending(D) \in [1..Cardinality(D) -> D]
         /\ \A i, j \in 1..Cardinality(D) : i < j => Ascending(D)[i] < Ascending(D)[j]
         /\ \A d \in D : \E i \in 1..Cardinality(D) : Ascending(D)[i] = d
<1> DEFINE N == Cardinality(D)
           place == [d \in D |-> Cardinality(Upto(D, d))]
<1>1. N \in Nat /\ IsFiniteSet(1..N) /\ Cardinality(1..N) = N
  BY FS_CardinalityType, Count
<1>2. \A d, e \in D : place[d] \in 1..N /\ (d < e => place[d] < place[e])
  BY UptoOrders
<1>3. place \in [D -> 1..N]
  BY <1>2
<1>4. \A d, e \in D : place[d] = place[e] => d = e
  <2>1. \A d, e \in D : d # e => d < e \/ e < d
    OBVIOUS
  <2>2. \A d \in D : place[d] \in Int
    BY <1>2
  <2> HIDE DEF place
  <2>3. QED
    BY <1>2, <2>1, <2>2
<1> HIDE DEF place
<1>5. place \in Injection(D, 1..N)
  BY <1>3, <1>4 DEF Injection, IsInjective
<1>6. place \in Surjection(D, 1..N)
  BY <1>1, <1>5, FS_Injection
<1>7. \A r \in 1..N : \E d \in D : place[d] = r
  BY <1>6 DEF Surjection
<1> DEFINE s == [r \in 1..N |-> CHOOSE d \in D : place[d] = r]
<1>8. \A r \in 1..N : s[r] \in D /\ place[s[r]] = r
  BY <1>7
<1>9. s \in [1..N -> D]
  BY <1>8
<1> HIDE DEF s
<1>10. ASSUME NEW i \in 1..N, NEW j \in 1..N, i < j PROVE s[i] < s[j]
  <2>1. s[i] \in D /\ s[j] \in D /\ place[s[i]] = i /\ place[s[j]] = j
    BY <1>8
  <2>2. i \in Int /\ j \in Int /\ s[i] \in Int /\ s[j] \in Int
    <3>1. \A x \in D : x \in Int
      OBVIOUS
    <3>2. s[i] \in Int /\ s[j] \in Int
      BY <2>1, <3>1
    <3>3. \A x \in 1..N : x \in Int
      BY <1>1
    <3>4. QED
      BY <3>2, <3>3
  <2>3. ~(s[j] < s[i])
    <3>1. s[j] < s[i] => j < i
      BY <1>2, <2>1
    <3>2. QED
      BY <1>10, <2>2, <3>1
  <2>4. s[i] # s[j]
    BY <1>10, <2>1, <2>2
  <2>5. QED
    BY <2>2, <2>3, <2>4
<1> DEFINE t == Ascending(D)
<1>11. /\ t \in [1..N -> D]
       /\ \A i, j \in 1..N : i < j => t[i] < t[j]
  BY <1>9, <1>10 DEF Ascending
<1> HIDE DEF t
<1>12. \A i, j \in 1..N : t[i] = t[j] => i = j
  <2>1. \A i, j \in 1..N : i # j => i < j \/ j < i
    BY <1>1
  <2>2. \A i \in 1..N : t[i] \in Int
    BY <1>11
  <2>3. QED
    BY <1>11, <2>1, <2>2
<1>13. t \in Injection(1..N, D)
  BY <1>11, <1>12 DEF Injection, IsInjective
<1>14. t \in Surjection(1..N, D)
  BY <1>1, <1>13, FS_Injection
<1>15. \A d \in D : \E i \in 1..N : t[i] = d
  BY <1>14 DEF Surjection
<1>16. QED
  BY <1>1, <1>11, <1>15 DEF t

\* A set that is not empty has a first and a last element.
LEMMA FirstAndLast ==
  ASSUME NEW D \in SUBSET Int, IsFiniteSet(D), D # {}
  PROVE  /\ \E d \in D : \A e \in D : d <= e
         /\ \E d \in D : \A e \in D : e <= d
<1> DEFINE N == Cardinality(D)
           s == Ascending(D)
<1>1. /\ N \in Nat /\ s \in [1..N -> D]
      /\ \A i, j \in 1..N : i < j => s[i] < s[j]
      /\ \A d \in D : \E i \in 1..N : s[i] = d
  BY AscendingSorts
<1> HIDE DEF N, s
<1>2. 1 \in 1..N /\ N \in 1..N
  <2>1. PICK d \in D : TRUE
    OBVIOUS
  <2>2. PICK i \in 1..N : s[i] = d
    BY <1>1
  <2>3. QED
    BY <1>1
<1>3. ASSUME NEW e \in D PROVE s[1] <= e /\ e <= s[N]
  <2>1. PICK i \in 1..N : s[i] = e
    BY <1>1
  <2>2. i = 1 \/ 1 < i
    BY <1>1
  <2>3. i = N \/ i < N
    BY <1>1
  <2>4. s[1] \in Int /\ s[N] \in Int /\ s[i] \in Int
    BY <1>1, <1>2
  <2>5. QED
    BY <1>1, <1>2, <2>1, <2>2, <2>3, <2>4
<1>4. s[1] \in D /\ s[N] \in D
  BY <1>1, <1>2
<1>5. QED
  BY <1>3, <1>4

-----------------------------------------------------------------------------
(* The query. *)

TableOK == table \in [Days -> Values \cup {Null, NoRow}]

LEMMA DaysType ==
  /\ Days \in SUBSET Int /\ IsFiniteSet(Days) /\ Cardinality(Days) = MaxDay
  /\ \A d \in Days : d \in Int
  /\ Raw \in SUBSET Days /\ Series \in SUBSET Days /\ Dated \in SUBSET Series
<1>1. IsFiniteSet(Days) /\ Cardinality(Days) = MaxDay
  BY DaysAssumption, Count DEF Days
<1>2. \A d \in Days : d \in Int
  BY DaysAssumption DEF Days
<1>3. QED
  BY <1>1, <1>2 DEF Raw, Series, Dated

\* r is the day of the last row on or before d.
LastRow(d, r) ==
    /\ r \in Raw
    /\ r <= d
    /\ \A q \in Raw : q <= d => q <= r

LEMMA LastRowExists ==
  ASSUME NEW d \in Days, NEW p \in Raw, p <= d
  PROVE  \E r : LastRow(d, r)
<1> DEFINE before == {q \in Raw : q <= d}
<1>1. before \in SUBSET Int /\ IsFiniteSet(before) /\ before # {}
  <2>1. before \in SUBSET Days /\ before # {}
    BY DaysType
  <2> HIDE DEF before
  <2>2. QED
    BY <2>1, DaysType, FS_Subset
<1>2. \E r \in before : \A q \in before : q <= r
  BY <1>1, FirstAndLast
<1>3. QED
  BY <1>2 DEF LastRow

LEMMA LastRowIsUnique ==
  ASSUME NEW d \in Days, NEW r, NEW q, LastRow(d, r), LastRow(d, q)
  PROVE  r = q
<1>1. r \in Int /\ q \in Int /\ r <= q /\ q <= r
  BY DaysType DEF LastRow
<1>2. QED
  BY <1>1

LEMMA CarriedIsLast ==
  ASSUME NEW d \in Days, NEW r, LastRow(d, r)
  PROVE  Carried(d) = table[r]
<1> DEFINE c == CHOOSE x \in Raw : x <= d /\ \A q \in Raw : q <= d => q <= x
<1>1. r \in Raw /\ r <= d /\ \A q \in Raw : q <= d => q <= r
  BY DEF LastRow
<1>2. c \in Raw /\ c <= d /\ \A q \in Raw : q <= d => q <= c
  BY <1>1
<1>3. c = r
  <2>1. r \in Int /\ c \in Int /\ r <= c /\ c <= r
    BY <1>1, <1>2, DaysType
  <2>2. QED
    BY <2>1
<1>4. Carried(d) = table[c]
  BY DEF Carried
<1>5. QED
  BY <1>3, <1>4

LEMMA SeriesAreCarried ==
  ASSUME TableOK, NEW d \in Series
  PROVE  /\ d \in Days
         /\ \E r : LastRow(d, r) /\ Carried(d) = table[r]
         /\ Carried(d) \in Values \cup {Null}
<1>1. d \in Days /\ \E p \in Raw : p <= d
  BY DEF Series
<1>2. PICK r : LastRow(d, r)
  BY <1>1, LastRowExists
<1>3. Carried(d) = table[r]
  BY <1>1, <1>2, CarriedIsLast
<1>4. table[r] \in Values \cup {Null}
  BY <1>2 DEF LastRow, Raw, TableOK
<1>5. QED
  BY <1>1, <1>2, <1>3, <1>4

\* Two ways to say that no row lies behind r up to d.
LEMMA LastRowIsBare ==
  ASSUME NEW d \in Days, NEW r \in Raw
  PROVE  LastRow(d, r) <=> r <= d /\ \A q \in (r + 1)..d : q \notin Raw
<1>1. \A q \in Raw : q \in Int
  BY DaysType
<1>2. d \in Int
  BY DaysType
<1>3. \A q \in (r + 1)..d : q \in Int /\ r < q /\ q <= d
  BY <1>1, <1>2
<1>4. \A q \in Raw : r < q /\ q <= d => q \in (r + 1)..d
  BY <1>1, <1>2
<1>5. QED
  BY <1>1, <1>2, <1>3, <1>4 DEF LastRow

\* The days of the history are those that are known.
LEMMA DatedIsKnown == ASSUME TableOK PROVE Dated = Known
<1>1. ASSUME NEW d \in Dated PROVE d \in Known
  <2>1. d \in Series /\ Carried(d) # Null
    BY DEF Dated
  <2>2. PICK r : LastRow(d, r) /\ Carried(d) = table[r]
    BY <2>1, SeriesAreCarried
  <2>3. d \in Days /\ \E q \in Raw : d <= q
    BY <2>1 DEF Series
  <2>4. r \in Raw
    BY <2>2 DEF LastRow
  <2>5. r <= d /\ \A q \in (r + 1)..d : q \notin Raw
    BY <2>2, <2>3, <2>4, LastRowIsBare
  <2>6. QED
    BY <2>1, <2>2, <2>3, <2>4, <2>5 DEF Known
<1>2. ASSUME NEW d \in Known PROVE d \in Dated
  <2>1. d \in Days /\ \E q \in Raw : d <= q
    BY DEF Known
  <2>2. PICK r \in Raw : /\ r <= d /\ table[r] # Null
                         /\ \A q \in (r + 1)..d : q \notin Raw
    BY DEF Known
  <2>3. LastRow(d, r)
    BY <2>1, <2>2, LastRowIsBare
  <2>4. Carried(d) = table[r]
    BY <2>1, <2>3, CarriedIsLast
  <2>5. d \in Series
    BY <2>1, <2>2 DEF Series
  <2>6. QED
    BY <2>2, <2>4, <2>5 DEF Dated
<1>3. QED
  BY <1>1, <1>2

Snapshot == [date : Days, balanceValue : Values]

\* The history is the known days in order, each with what was carried to it.
LEMMA HistoryShape ==
  ASSUME TableOK
  PROVE  /\ FindByUserId \in Seq(Snapshot)
         /\ Len(FindByUserId) = Cardinality(Dated)
         /\ Len(FindByUserId) \in 0..MaxDay
         /\ \A i \in 1..Len(FindByUserId) :
               /\ FindByUserId[i].date \in Dated
               /\ FindByUserId[i].date \in Int
               /\ FindByUserId[i].balanceValue = Carried(FindByUserId[i].date)
         /\ \A i, j \in 1..Len(FindByUserId) :
               i < j => FindByUserId[i].date < FindByUserId[j].date
         /\ \A d \in Dated : \E i \in 1..Len(FindByUserId) : FindByUserId[i].date = d
<1> DEFINE s == Ascending(Dated)
           N == Cardinality(Dated)
           F == [i \in 1..N |-> [date |-> s[i], balanceValue |-> Carried(s[i])]]
<1>1. Dated \in SUBSET Days /\ Dated \in SUBSET Int /\ IsFiniteSet(Dated)
  BY DaysType, FS_Subset
<1>2. N \in Nat /\ N <= MaxDay
  BY <1>1, DaysType, FS_Subset, FS_CardinalityType
<1>3. /\ s \in [1..N -> Dated]
      /\ \A i, j \in 1..N : i < j => s[i] < s[j]
      /\ \A d \in Dated : \E i \in 1..N : s[i] = d
  BY <1>1, AscendingSorts
<1>4. \A d \in Dated : d \in Days /\ d \in Int /\ Carried(d) \in Values
  BY <1>1, SeriesAreCarried, DaysType DEF Dated
<1>5. FindByUserId = F
  BY <1>3 DEF FindByUserId
<1>6. \A i \in 1..N : s[i] \in Dated
  BY <1>3
<1> HIDE DEF s, N
<1>7. F \in [1..N -> Snapshot]
  BY <1>4, <1>6 DEF Snapshot
<1>8. \A i \in 1..N : F[i].date = s[i] /\ F[i].balanceValue = Carried(s[i])
  OBVIOUS
<1> HIDE DEF F
<1>9. F \in Seq(Snapshot) /\ Len(F) = N
  BY <1>2, <1>7
<1>10. N \in 0..MaxDay
  BY <1>2, DaysAssumption
<1>11. QED
  BY <1>3, <1>4, <1>5, <1>6, <1>8, <1>9, <1>10 DEF N

-----------------------------------------------------------------------------
(* The answer. *)

\* How many points of a history of n a window shows.
Fits(n, w) == IF w = All \/ n < w THEN n ELSE w

LEMMA FitsType ==
  ASSUME NEW n \in Nat, NEW p \in Periods
  PROVE  /\ Fits(n, WindowOf[p]) \in 0..n
         /\ n > 0 => Fits(n, WindowOf[p]) \in 1..n
BY WindowsAssumption DEF Fits

LEMMA RangeShape ==
  ASSUME NEW F \in Seq(Snapshot), Len(F) \in 0..MaxDay, NEW p \in Periods
  PROVE  LET n == Len(F)
             w == WindowOf[p]
             c == Fits(n, w)
             r == BuildRange(F, w)
         IN  /\ r \in Range_
             /\ r.pointsCount = c
             /\ n > 0 => /\ r.startIndex = n - c /\ r.endIndex = n - 1
                         /\ r.startValue = F[n - c + 1].balanceValue
                         /\ r.endValue = F[n].balanceValue
                         /\ r.insufficientHistory <=> (w # All /\ n < w)
<1> DEFINE n == Len(F)
           w == WindowOf[p]
           c == Fits(n, w)
           r == BuildRange(F, w)
<1>1. n \in Nat /\ n <= MaxDay /\ MaxDay \in Nat
  BY DaysAssumption
<1>2. c \in 0..n /\ (n > 0 => c \in 1..n)
  BY <1>1, FitsType
<1>3. \A i \in 1..n : F[i].balanceValue \in Values
  <2>1. \A i \in 1..n : F[i] \in Snapshot
    OBVIOUS
  <2>2. QED
    BY <2>1 DEF Snapshot
<1>4. CASE n = 0
  <2>1. r = EmptyRange
    BY <1>4 DEF BuildRange
  <2>2. EmptyRange \in Range_
    BY <1>1 DEF EmptyRange, Range_
  <2>3. c = 0 /\ EmptyRange.pointsCount = 0
    BY <1>2, <1>4 DEF EmptyRange
  <2>4. QED
    BY <1>4, <2>1, <2>2, <2>3
<1>5. CASE n > 0
  <2> DEFINE e == [startIndex |-> n - c, endIndex |-> n - 1, pointsCount |-> c,
                   insufficientHistory |-> w # All /\ n < w,
                   startValue |-> F[n - c + 1].balanceValue,
                   endValue |-> F[n].balanceValue]
  <2>1. r = e
    BY <1>5 DEF BuildRange, Fits
  <2>2. n - c + 1 \in 1..n /\ n \in 1..n
    BY <1>1, <1>2, <1>5
  <2>3. F[n - c + 1].balanceValue \in Values /\ F[n].balanceValue \in Values
    BY <1>3, <2>2
  <2>4. n - c \in -1..(MaxDay - 1) /\ n - 1 \in -1..(MaxDay - 1) /\ c \in 0..MaxDay
    BY <1>1, <1>2, <1>5
  <2>5. /\ e.pointsCount = c /\ e.startIndex = n - c /\ e.endIndex = n - 1
        /\ e.startValue = F[n - c + 1].balanceValue
        /\ e.endValue = F[n].balanceValue
        /\ e.insufficientHistory <=> (w # All /\ n < w)
    OBVIOUS
  <2> HIDE DEF n, c, w
  <2>6. e \in Range_
    BY <2>3, <2>4 DEF Range_
  <2> HIDE DEF e, r
  <2>7. QED
    BY <2>1, <2>5, <2>6 DEF n, c, w, r
<1>6. QED
  BY <1>1, <1>4, <1>5

Point == [date : Days, balanceValue : Values, dailyChange : Differences]

\* The points P are the last c days of the history F.
LastOf(P, F, c) ==
    \A i \in 1..c :
       LET k == Len(F) - c + i
       IN  /\ k \in 1..Len(F)
           /\ P[i].date = F[k].date
           /\ P[i].balanceValue = F[k].balanceValue
           /\ P[i].dailyChange = IF i = 1 THEN 0
                                 ELSE F[k].balanceValue - F[k - 1].balanceValue

\* The points are the end of the history, as long as the window.
LEMMA AnswerShape ==
  ASSUME NEW F \in Seq(Snapshot), Len(F) \in 0..MaxDay, NEW p \in Periods
  PROVE  LET a == Answer(p, F)
             n == Len(F)
             c == Fits(n, WindowOf[p])
         IN  /\ a.period = p
             /\ a.ranges = BuildRanges(F)
             /\ a.asOfDate \in Days \cup {Null}
             /\ a.points \in Seq(Point) /\ Len(a.points) = c /\ c \in 0..n
             /\ n > 0 => c > 0
             /\ LastOf(a.points, F, c)
<1> DEFINE n == Len(F)
           c == Fits(n, WindowOf[p])
           range == BuildRanges(F)[p]
           S == SliceByPeriod(F, range)
           P == ToHistoryPoints(S)
<1>1. n \in Nat /\ n <= MaxDay /\ MaxDay \in Nat
  BY DaysAssumption
<1>2. c \in 0..n /\ (n > 0 => c \in 1..n)
  BY <1>1, FitsType
<1>3. /\ range.pointsCount = c
      /\ n > 0 => range.startIndex = n - c /\ range.endIndex = n - 1
  <2>1. range = BuildRange(F, WindowOf[p])
    BY DEF BuildRanges
  <2>2. QED
    BY <2>1, RangeShape
<1>4. S \in Seq(Snapshot) /\ Len(S) = c /\ \A i \in 1..c : S[i] = F[n - c + i]
  <2>1. CASE n = 0
    <3>1. S = <<>> /\ c = 0
      BY <1>2, <1>3, <2>1 DEF SliceByPeriod
    <3>2. QED
      BY <3>1, EmptySeq
  <2>2. CASE n > 0
    <3>1. c > 0 /\ c \in 1..n
      BY <1>1, <1>2, <2>2
    <3>2. S = SubSeq(F, n - c + 1, n)
      <4>1. n - 1 < n /\ n - 1 + 1 = n
        BY <1>1
      <4>2. c \in Int /\ ~(c <= 0)
        BY <1>2, <3>1
      <4> HIDE DEF n, c, range
      <4>3. QED
        BY <1>3, <2>2, <4>1, <4>2 DEF SliceByPeriod, n
    <3>3. \A i \in (n - c + 1)..n : F[i] \in Snapshot
      BY <1>1, <3>1
    <3> HIDE DEF S, n, c
    <3>4. /\ SubSeq(F, n - c + 1, n) \in Seq(Snapshot)
          /\ Len(SubSeq(F, n - c + 1, n)) = c
          /\ \A i \in 1..c : SubSeq(F, n - c + 1, n)[i] = F[n - c + i]
      <4>1. n - c + 1 \in Int /\ n \in Int /\ n - c + 1 <= n
            /\ n - (n - c + 1) + 1 = c
        BY <1>1, <3>1
      <4>2. \A i \in 1..c : (n - c + 1) + i - 1 = n - c + i
        BY <1>1, <3>1
      <4>3. QED
        BY <3>3, <4>1, <4>2, SubSeqProperties
    <3>5. QED
      BY <3>2, <3>4
  <2>3. QED
    BY <1>1, <2>1, <2>2
<1> HIDE DEF S
<1>5. \A i \in 1..c : n - c + i \in 1..n
  BY <1>1, <1>2
<1>6. \A i \in 1..c : S[i] \in Snapshot
  BY <1>4
<1>7. \A i \in 1..c : S[i].date \in Days /\ S[i].balanceValue \in Values
  BY <1>6 DEF Snapshot
<1> HIDE DEF n, c
<1> DEFINE change(i) == IF i = 1 THEN 0
                        ELSE S[i].balanceValue - S[i - 1].balanceValue
           Q == [i \in 1..c |-> [date |-> S[i].date, balanceValue |-> S[i].balanceValue,
                                 dailyChange |-> change(i)]]
<1>8. P = Q
  BY <1>4 DEF ToHistoryPoints
<1>9. c \in Nat /\ \A i \in 1..c : i = 1 \/ i - 1 \in 1..c
  BY <1>1, <1>2
<1>10. \A i \in 1..c : change(i) \in Differences
  BY <1>7, <1>9 DEF Differences
<1> HIDE DEF change
<1>11. Q \in [1..c -> Point]
  BY <1>7, <1>10 DEF Point
<1>12. \A i \in 1..c : /\ Q[i].date = S[i].date
                       /\ Q[i].balanceValue = S[i].balanceValue
                       /\ Q[i].dailyChange = change(i)
  OBVIOUS
<1> HIDE DEF Q, P
<1>13. P \in Seq(Point) /\ Len(P) = c
  BY <1>8, <1>9, <1>11
<1>14. ASSUME NEW i \in 1..c
       PROVE  change(i) = IF i = 1 THEN 0
                 ELSE F[n - c + i].balanceValue - F[(n - c + i) - 1].balanceValue
  <2>1. i # 1 => n - c + (i - 1) = (n - c + i) - 1
    BY <1>1, <1>9
  <2>2. QED
    BY <1>4, <1>9, <2>1 DEF change
<1>15. AsOfDate(P) \in Days \cup {Null}
  <2>1. P # <<>> => c \in 1..c
    BY <1>9, <1>13
  <2>2. QED
    BY <1>7, <1>8, <1>12, <1>13, <2>1 DEF AsOfDate
<1>16. /\ Answer(p, F).period = p /\ Answer(p, F).ranges = BuildRanges(F)
       /\ Answer(p, F).points = P /\ Answer(p, F).asOfDate = AsOfDate(P)
  BY DEF Answer, P, S
<1>17. n > 0 => c > 0
  BY <1>1, <1>2
<1>18. LastOf(P, F, c)
  <2>1. \A i \in 1..c : /\ P[i].date = F[n - c + i].date
                         /\ P[i].balanceValue = F[n - c + i].balanceValue
                         /\ P[i].dailyChange = change(i)
    BY <1>4, <1>8, <1>12
  <2>2. ASSUME NEW i \in 1..c
        PROVE  /\ n - c + i \in 1..n
               /\ P[i].date = F[n - c + i].date
               /\ P[i].balanceValue = F[n - c + i].balanceValue
               /\ P[i].dailyChange =
                     IF i = 1 THEN 0
                     ELSE F[n - c + i].balanceValue - F[(n - c + i) - 1].balanceValue
    BY <1>5, <1>14, <2>1
  <2>3. QED
    BY <2>2 DEF LastOf, n
<1>19. QED
  BY <1>2, <1>13, <1>15, <1>16, <1>17, <1>18 DEF n, c

\* The daily changes add up to the difference of the last and the first point.
\* The sum is recursive: that it is what a closed form says follows from there
\* being no first place where the two part.
LEMMA ChangeTelescopes ==
  ASSUME NEW P \in Seq(Point),
         \A i \in 1..Len(P) : P[i].dailyChange =
            IF i = 1 THEN 0 ELSE P[i].balanceValue - P[i - 1].balanceValue
  PROVE  Change(P) = IF Len(P) = 0 THEN 0
                     ELSE P[Len(P)].balanceValue - P[1].balanceValue
<1> DEFINE n == Len(P)
           v(i) == P[i].balanceValue
           Sum(f) == [i \in 0..n |-> IF i = 0 THEN 0 ELSE f[i - 1] + P[i].dailyChange]
           g == [i \in 0..n |-> IF i = 0 THEN 0 ELSE v(i) - v(1)]
           h == CHOOSE f : f = Sum(f)
<1>1. n \in Nat
  OBVIOUS
<1>2. \A i \in 1..n : v(i) \in Int
  <2>1. \A i \in 1..n : P[i] \in Point
    OBVIOUS
  <2>2. QED
    BY <2>1, ValuesAssumption DEF Point
<1>3. \A i \in 1..n : P[i].dailyChange = IF i = 1 THEN 0 ELSE v(i) - v(i - 1)
  OBVIOUS
<1>4. Change(P) = h[n]
  BY DEF Change
<1> HIDE DEF n, v
<1>5. \A i \in 0..n : g[i] = IF i = 0 THEN 0 ELSE g[i - 1] + P[i].dailyChange
  <2> SUFFICES ASSUME NEW i \in 1..n
               PROVE  g[i] = g[i - 1] + P[i].dailyChange
    <3>1. \A i \in 0..n : i = 0 \/ i \in 1..n
      BY <1>1
    <3>2. g[0] = 0 /\ \A i \in 1..n : i # 0
      BY <1>1
    <3> HIDE DEF g
    <3>3. QED
      BY <3>1, <3>2
  <2>1. CASE i = 1
    <3>1. g[1] = v(1) - v(1) /\ g[0] = 0
      BY <1>1, <2>1
    <3>2. v(1) \in Int
      BY <1>2, <2>1
    <3>3. QED
      BY <1>3, <2>1, <3>1, <3>2
  <2>2. CASE i # 1
    <3>1. i - 1 \in 1..n /\ i \in 0..n /\ i - 1 \in 0..n /\ i # 0 /\ i - 1 # 0 /\ 1 \in 1..n
      BY <1>1, <2>2
    <3>2. g[i] = v(i) - v(1) /\ g[i - 1] = v(i - 1) - v(1)
      BY <3>1
    <3>3. P[i].dailyChange = v(i) - v(i - 1)
      BY <1>3, <2>2
    <3>4. v(i) \in Int /\ v(i - 1) \in Int /\ v(1) \in Int
      BY <1>2, <3>1
    <3> HIDE DEF g
    <3>5. QED
      BY <3>2, <3>3, <3>4
  <2>3. QED
    BY <2>1, <2>2
<1>6. g = Sum(g)
  BY <1>5
<1>7. h = Sum(h)
  BY <1>6
<1> HIDE DEF h
<1>8. \A i \in 0..n : h[i] = IF i = 0 THEN 0 ELSE h[i - 1] + P[i].dailyChange
  BY <1>7
<1> HIDE DEF g
<1>9. \A i \in 0..n : h[i] = g[i]
  <2> DEFINE apart == {i \in 0..n : h[i] # g[i]}
  <2> SUFFICES ASSUME apart # {} PROVE FALSE
    OBVIOUS
  <2>1. apart \in SUBSET Int /\ IsFiniteSet(apart)
    <3>1. apart \in SUBSET (0..n) /\ IsFiniteSet(0..n)
      BY <1>1, FS_Interval
    <3>2. 0..n \in SUBSET Int
      BY <1>1
    <3> HIDE DEF apart
    <3>3. apart \in SUBSET Int
      BY <3>1, <3>2
    <3>4. IsFiniteSet(apart)
      BY <3>1, FS_Subset
    <3>5. QED
      BY <3>3, <3>4
  <2>2. PICK i \in apart : \A j \in apart : i <= j
    BY <2>1, FirstAndLast
  <2>3. i \in 0..n /\ h[i] # g[i] /\ i \in Int
    BY <2>1, <2>2
  <2>4. i # 0
    BY <1>5, <1>8, <2>3
  <2>5. i - 1 \in 0..n /\ ~(i <= i - 1)
    BY <1>1, <2>3, <2>4
  <2>6. h[i - 1] = g[i - 1]
    BY <2>2, <2>5
  <2>7. QED
    BY <1>5, <1>8, <2>3, <2>4, <2>6
<1>10. h[n] = IF n = 0 THEN 0 ELSE v(n) - v(1)
  <2>1. n \in 0..n
    BY <1>1
  <2>2. QED
    BY <1>9, <2>1 DEF g
<1>11. QED
  BY <1>4, <1>10 DEF n, v

-----------------------------------------------------------------------------
(* Types. *)

LEMMA AnswerType ==
  ASSUME NEW F \in Seq(Snapshot), Len(F) \in 0..MaxDay, NEW p \in Periods
  PROVE  LET a == Answer(p, F)
         IN  /\ a.period \in Periods
             /\ a.asOfDate \in Days \cup {Null}
             /\ a.points \in Seq(Point)
             /\ a.ranges \in [Periods -> Range_]
<1>1. \A q \in Periods : BuildRange(F, WindowOf[q]) \in Range_
  BY RangeShape
<1>2. BuildRanges(F) \in [Periods -> Range_]
  BY <1>1 DEF BuildRanges
<1>3. QED
  BY <1>2, AnswerShape

LEMMA NextKeepsType == TypeOK /\ [Next]_vars => TypeOK'
<1> SUFFICES ASSUME TypeOK, [Next]_vars PROVE TypeOK'
  OBVIOUS
<1> USE DEF TypeOK
<1>1. ASSUME NEW d \in Days, NEW value \in Values \cup {Null}, Record(d, value)
      PROVE  TypeOK'
  BY <1>1 DEF Record
<1>2. ASSUME NEW p \in Periods, NEW F \in Seq(Snapshot), Len(F) \in 0..MaxDay,
             answer' = Answer(p, F), UNCHANGED table,
             recorded' \in {"nothing", "other"}
      PROVE  TypeOK'
  BY <1>2, AnswerType DEF Point
<1>3. ASSUME NEW p \in Periods, GetHistory(p) PROVE TypeOK'
  <2>1. FindByUserId \in Seq(Snapshot) /\ Len(FindByUserId) \in 0..MaxDay
    BY HistoryShape DEF TableOK
  <2>2. QED
    BY <1>2, <1>3, <2>1 DEF GetHistory
<1>4. ASSUME NEW p \in Periods, GetHistoryFails(p) PROVE TypeOK'
  <2>1. <<>> \in Seq(Snapshot) /\ Len(<<>>) \in 0..MaxDay
    BY EmptySeq, DaysAssumption
  <2>2. QED
    BY <1>2, <1>4, <2>1 DEF GetHistoryFails
<1>5. CASE UNCHANGED vars
  BY <1>5 DEF vars
<1>6. QED
  BY <1>1, <1>3, <1>4, <1>5 DEF Next

\* Every answer has its type: no index, count or value of a range is outside
\* the history, and no point is without a balance.
THEOREM HistoryTypeCorrect == Spec => []TypeOK
<1>1. Init => TypeOK
  BY DEF Init, TypeOK
<1>2. QED
  BY <1>1, NextKeepsType, PTL DEF Spec

-----------------------------------------------------------------------------
(* The answer is the history. *)

LEMMA AnswerOfHistory ==
  ASSUME TypeOK, NEW p \in Periods, NEW a, a = Answer(p, FindByUserId)
  PROVE  IsTheHistory(a)
<1> DEFINE F == FindByUserId
           n == Len(F)
           c == Fits(n, WindowOf[p])
           P == a.points
           start == n - c
<1>1. TableOK
  BY DEF TypeOK, TableOK
<1>2. /\ F \in Seq(Snapshot) /\ n = Cardinality(Known) /\ n \in 0..MaxDay
      /\ \A i \in 1..n : /\ F[i].date \in Known /\ F[i].date \in Int
                         /\ F[i].balanceValue = Carried(F[i].date)
      /\ \A i, j \in 1..n : i < j => F[i].date < F[j].date
      /\ \A d \in Known : \E i \in 1..n : F[i].date = d
  BY <1>1, HistoryShape, DatedIsKnown
<1>3. /\ a.period = p /\ a.ranges = BuildRanges(F)
      /\ P \in Seq(Point) /\ Len(P) = c /\ c \in 0..n
      /\ n > 0 => c > 0
      /\ \A i \in 1..c :
            /\ start + i \in 1..n
            /\ P[i].date = F[start + i].date
            /\ P[i].balanceValue = F[start + i].balanceValue
            /\ P[i].dailyChange =
                  IF i = 1 THEN 0
                  ELSE F[start + i].balanceValue - F[(start + i) - 1].balanceValue
  <2>1. a = Answer(p, F) /\ F \in Seq(Snapshot) /\ n \in 0..MaxDay
    BY <1>2
  <2> HIDE DEF F
  <2>2. /\ a.period = p /\ a.ranges = BuildRanges(F)
        /\ P \in Seq(Point) /\ Len(P) = c
        /\ c \in 0..n /\ n > 0 => c > 0
        /\ LastOf(P, F, c)
    BY <2>1, AnswerShape
  <2> HIDE DEF c, P
  <2>3. QED
    BY <2>2 DEF LastOf
<1>4. \A q \in Periods :
         LET r == a.ranges[q]
             k == Fits(n, WindowOf[q])
         IN  /\ r.pointsCount = k
             /\ n = 0 => r.startValue = 0 /\ r.endValue = 0
             /\ n > 0 => /\ r.startValue = F[n - k + 1].balanceValue
                         /\ r.endValue = F[n].balanceValue
                         /\ r.insufficientHistory <=>
                               (WindowOf[q] # All /\ n < WindowOf[q])
  <2> SUFFICES ASSUME NEW q \in Periods
               PROVE  LET r == a.ranges[q]
                          k == Fits(n, WindowOf[q])
                      IN  /\ r.pointsCount = k
                          /\ n = 0 => r.startValue = 0 /\ r.endValue = 0
                          /\ n > 0 => /\ r.startValue = F[n - k + 1].balanceValue
                                      /\ r.endValue = F[n].balanceValue
                                      /\ r.insufficientHistory <=>
                                            (WindowOf[q] # All /\ n < WindowOf[q])
    OBVIOUS
  <2>1. a.ranges[q] = BuildRange(F, WindowOf[q])
    BY <1>3 DEF BuildRanges
  <2>2. n = 0 => BuildRange(F, WindowOf[q]) = EmptyRange
    BY DEF BuildRange
  <2>3. EmptyRange.startValue = 0 /\ EmptyRange.endValue = 0
    BY DEF EmptyRange
  <2>4. F \in Seq(Snapshot) /\ n \in 0..MaxDay
    BY <1>2
  <2> HIDE DEF F
  <2>5. QED
    BY <2>1, <2>2, <2>3, <2>4, RangeShape
<1>5. n \in Nat /\ c \in Nat /\ c <= n /\ start \in Nat /\ DOMAIN P = 1..c
  BY <1>2, <1>3
<1> HIDE DEF F, n, c, P, start
<1>6. start = n - c
  BY DEF start
<1>7. ASSUME NEW i \in 1..c, NEW j \in 1..c, i < j PROVE P[i].date < P[j].date
  <2>1. start + i < start + j
    BY <1>5, <1>7
  <2>2. /\ start + i \in 1..n /\ P[i].date = F[start + i].date
        /\ start + j \in 1..n /\ P[j].date = F[start + j].date
    BY <1>3
  <2>3. QED
    BY <1>2, <2>1, <2>2
<1> DEFINE dates == {P[i].date : i \in 1..c}
<1>8. dates \subseteq Known
  <2>1. \A i \in 1..c : start + i \in 1..n /\ P[i].date = F[start + i].date
    BY <1>3
  <2>2. \A i \in 1..c : P[i].date \in Known
    BY <1>2, <2>1
  <2>3. QED
    BY <2>2
<1>9. ASSUME NEW d \in Known \ dates, NEW i \in 1..c PROVE d < P[i].date
  <2>1. PICK k \in 1..n : F[k].date = d
    BY <1>2
  <2>2. k <= start
    <3> SUFFICES ASSUME start < k PROVE FALSE
      BY <1>5, <2>1
    <3>1. k - start \in 1..c /\ start + (k - start) = k
      BY <1>5, <1>6, <2>1
    <3>2. P[k - start].date = d
      BY <1>3, <2>1, <3>1
    <3>3. QED
      BY <3>1, <3>2
  <2>3. k < start + i /\ start + i \in 1..n /\ k \in 1..n
    BY <1>3, <1>5, <2>1, <2>2
  <2>4. F[k].date < F[start + i].date
    BY <1>2, <2>3
  <2>5. P[i].date = F[start + i].date
    BY <1>3, <1>9
  <2>6. QED
    BY <2>1, <2>4, <2>5
<1>10. c = Cardinality(Known) \/ (c < Cardinality(Known) /\ c = WindowOf[p])
  <2>1. c = n \/ c = WindowOf[p]
    BY DEF c, Fits
  <2>2. QED
    BY <1>2, <1>5, <2>1
<1>11. ASSUME NEW i \in 1..c
       PROVE  \E r \in Raw : /\ r <= P[i].date /\ P[i].balanceValue = table[r]
                             /\ \A q \in (r + 1)..P[i].date : q \notin Raw
  <2> DEFINE d == P[i].date
  <2>1. d = F[start + i].date /\ P[i].balanceValue = Carried(d) /\ d \in Known
    BY <1>2, <1>3
  <2>2. d \in Series /\ d \in Days
    BY <1>1, <2>1, DatedIsKnown, DaysType
  <2>3. PICK r : LastRow(d, r) /\ Carried(d) = table[r]
    BY <1>1, <2>2, SeriesAreCarried
  <2>4. r \in Raw
    BY <2>3 DEF LastRow
  <2> HIDE DEF d
  <2>5. r <= d /\ \A q \in (r + 1)..d : q \notin Raw
    BY <2>2, <2>3, <2>4, LastRowIsBare
  <2>6. QED
    BY <2>1, <2>3, <2>4, <2>5 DEF d
<1>12. Change(P) = a.ranges[p].endValue - a.ranges[p].startValue
  <2>1. ASSUME NEW i \in 1..c
        PROVE  P[i].dailyChange =
                  IF i = 1 THEN 0 ELSE P[i].balanceValue - P[i - 1].balanceValue
    <3>1. i # 1 => i - 1 \in 1..c /\ start + (i - 1) = (start + i) - 1
      BY <1>5
    <3>2. /\ P[i].balanceValue = F[start + i].balanceValue
          /\ P[i].dailyChange =
                IF i = 1 THEN 0
                ELSE F[start + i].balanceValue - F[(start + i) - 1].balanceValue
      BY <1>3
    <3>3. i # 1 => P[i - 1].balanceValue = F[(start + i) - 1].balanceValue
      BY <1>3, <3>1
    <3>4. QED
      BY <3>2, <3>3
  <2>2. Change(P) = IF c = 0 THEN 0 ELSE P[c].balanceValue - P[1].balanceValue
    BY <1>3, <2>1, ChangeTelescopes
  <2>3. CASE n = 0
    <3>1. c = 0
      BY <1>5, <2>3
    <3>2. a.ranges[p].endValue = 0 /\ a.ranges[p].startValue = 0
      BY <1>4, <2>3
    <3>3. QED
      BY <2>2, <3>1, <3>2
  <2>4. CASE n # 0
    <3>1. c # 0 /\ c \in 1..c /\ 1 \in 1..c /\ start + c = n /\ start + 1 = n - c + 1
      BY <1>3, <1>5, <1>6, <2>4
    <3>2. P[c].balanceValue = F[n].balanceValue
      BY <1>3, <3>1
    <3>3. P[1].balanceValue = F[n - c + 1].balanceValue
      BY <1>3, <3>1
    <3>4. /\ a.ranges[p].startValue = F[n - c + 1].balanceValue
          /\ a.ranges[p].endValue = F[n].balanceValue
      BY <1>4, <1>5, <2>4 DEF c
    <3>5. QED
      BY <2>2, <3>1, <3>2, <3>3, <3>4
  <2>5. QED
    BY <2>3, <2>4
<1>13. ASSUME NEW q \in Periods
       PROVE  LET k == a.ranges[q].pointsCount
              IN  0 < k /\ k <= c =>
                     /\ P[c - k + 1].balanceValue = a.ranges[q].startValue
                     /\ ~a.ranges[q].insufficientHistory
                           => k = WindowOf[q] \/ WindowOf[q] = All
  <2> DEFINE k == a.ranges[q].pointsCount
  <2> SUFFICES ASSUME 0 < k, k <= c
               PROVE  /\ P[c - k + 1].balanceValue = a.ranges[q].startValue
                      /\ ~a.ranges[q].insufficientHistory
                            => k = WindowOf[q] \/ WindowOf[q] = All
    OBVIOUS
  <2>1. k = Fits(n, WindowOf[q]) /\ k \in 0..n
    BY <1>4, <1>5, FitsType
  <2> HIDE DEF k
  <2>2. k \in Nat /\ n > 0
    BY <1>5, <2>1
  <2>3. c - k + 1 \in 1..c /\ start + (c - k + 1) = n - k + 1
    BY <1>5, <1>6, <2>2
  <2>4. P[c - k + 1].balanceValue = F[n - k + 1].balanceValue
    BY <1>3, <2>3
  <2>5. /\ a.ranges[q].startValue = F[n - k + 1].balanceValue
        /\ a.ranges[q].insufficientHistory <=>
              (WindowOf[q] # All /\ n < WindowOf[q])
    BY <1>4, <2>1, <2>2
  <2>6. WindowOf[q] # All /\ ~(n < WindowOf[q]) => k = WindowOf[q]
    BY <2>1 DEF Fits
  <2>7. QED
    BY <2>4, <2>5, <2>6
<1>14. Len(P) = c /\ DOMAIN P = 1..c /\ a.period = p
  BY <1>3, <1>5
<1>15. \A e \in dates : \E i \in 1..c : e = P[i].date
  OBVIOUS
<1>16. \A d \in Known \ dates : \A e \in dates : d < e
  BY <1>9, <1>15
<1>17. QED
  BY <1>7, <1>8, <1>10, <1>11, <1>12, <1>13, <1>14, <1>16
  DEF IsTheHistory, P

\* Known and Raw, which IsTheHistory speaks of, depend on the table alone.
LEMMA SameTable ==
  ASSUME table' = table
  PROVE  /\ Raw' = Raw /\ Known' = Known
         /\ \A a : IsTheHistory(a)' <=> IsTheHistory(a)
<1>1. Raw' = Raw
  BY DEF Raw
<1>2. Known' = Known
  BY <1>1 DEF Known
<1>3. QED
  BY <1>1, <1>2 DEF IsTheHistory

\* What a client is answered is the history, and stays it until a snapshot is
\* written: for any number of days, any balances, with or without rows that
\* have none, and periods of any length.
THEOREM HistoryCorrect == Spec => []AnswerIsTheHistory
<1>1. Init => TypeOK /\ AnswerIsTheHistory
  BY DEF Init, TypeOK, AnswerIsTheHistory
<1>2. TypeOK /\ AnswerIsTheHistory /\ [Next]_vars => AnswerIsTheHistory'
  <2> SUFFICES ASSUME TypeOK, AnswerIsTheHistory, [Next]_vars
               PROVE  AnswerIsTheHistory'
    OBVIOUS
  <2>1. ASSUME NEW d \in Days, NEW value \in Values \cup {Null}, Record(d, value)
        PROVE  AnswerIsTheHistory'
    BY <2>1 DEF Record, AnswerIsTheHistory
  <2>2. ASSUME NEW p \in Periods, GetHistory(p) PROVE AnswerIsTheHistory'
    <3>1. IsTheHistory(answer')
      BY <2>2, AnswerOfHistory DEF GetHistory
    <3>2. table' = table
      BY <2>2 DEF GetHistory
    <3>3. QED
      BY <3>1, <3>2, SameTable DEF AnswerIsTheHistory
  <2>3. ASSUME NEW p \in Periods, GetHistoryFails(p) PROVE AnswerIsTheHistory'
    BY <2>3 DEF GetHistoryFails, AnswerIsTheHistory
  <2>4. CASE UNCHANGED vars
    BY <2>4, SameTable DEF vars, AnswerIsTheHistory
  <2>5. QED
    BY <2>1, <2>2, <2>3, <2>4 DEF Next
<1>3. QED
  BY <1>1, <1>2, NextKeepsType, PTL DEF Spec

-----------------------------------------------------------------------------
(* Later days keep the past. *)

\* Each point shows a known day, with its balance and the change since the known
\* day before it.
ShowsPast(P) ==
    \A i \in 1..Len(P) :
       /\ P[i].date \in Known
       /\ \E r : LastRow(P[i].date, r) /\ P[i].balanceValue = table[r]
       /\ i # 1 =>
             /\ P[i].dailyChange = P[i].balanceValue - P[i - 1].balanceValue
             /\ P[i - 1].date < P[i].date
             /\ \A e \in Known : e < P[i].date => e <= P[i - 1].date

\* F is the history that the points P are the end of.
EndOf(F, P) ==
    LET n == Len(F)
        c == Len(P)
    IN  /\ n \in Nat /\ c \in 0..n /\ (n > 0 => c > 0)
        /\ \A i \in 1..n :
              /\ F[i].date \in Known /\ F[i].date \in Int
              /\ \E r : LastRow(F[i].date, r) /\ F[i].balanceValue = table[r]
        /\ \A i, j \in 1..n : i < j => F[i].date < F[j].date
        /\ \A d \in Known : \E i \in 1..n : F[i].date = d
        /\ \A i \in 1..c :
              /\ n - c + i \in 1..n
              /\ P[i].date = F[n - c + i].date
              /\ P[i].balanceValue = F[n - c + i].balanceValue
              /\ i # 1 => P[i].dailyChange =
                             F[n - c + i].balanceValue - F[(n - c + i) - 1].balanceValue

LEMMA AnswerIsEnd ==
  ASSUME TypeOK, NEW p \in Periods
  PROVE  \E F : EndOf(F, Answer(p, FindByUserId).points)
<1> DEFINE F == FindByUserId
           n == Len(F)
<1>1. TableOK
  BY DEF TypeOK, TableOK
<1>2. /\ F \in Seq(Snapshot) /\ n \in 0..MaxDay
      /\ \A i \in 1..n : /\ F[i].date \in Known /\ F[i].date \in Int
                         /\ F[i].date \in Series
                         /\ F[i].balanceValue = Carried(F[i].date)
      /\ \A i, j \in 1..n : i < j => F[i].date < F[j].date
      /\ \A d \in Known : \E i \in 1..n : F[i].date = d
  BY <1>1, HistoryShape, DatedIsKnown, DaysType
<1> HIDE DEF F
<1>3. ASSUME NEW i \in 1..n
      PROVE  \E r : LastRow(F[i].date, r) /\ F[i].balanceValue = table[r]
  BY <1>1, <1>2, SeriesAreCarried
<1> DEFINE P == Answer(p, F).points
           c == Fits(n, WindowOf[p])
<1>4. /\ Len(P) = c /\ c \in 0..n
      /\ n > 0 => c > 0
      /\ \A i \in 1..c :
            /\ n - c + i \in 1..n
            /\ P[i].date = F[n - c + i].date
            /\ P[i].balanceValue = F[n - c + i].balanceValue
            /\ P[i].dailyChange =
                  IF i = 1 THEN 0
                  ELSE F[n - c + i].balanceValue - F[(n - c + i) - 1].balanceValue
  <2>1. Len(P) = c /\ c \in 0..n /\ (n > 0 => c > 0) /\ LastOf(P, F, c)
    BY <1>2, AnswerShape
  <2> HIDE DEF c, P
  <2>2. QED
    BY <2>1 DEF LastOf
<1>5. n \in Nat
  BY <1>2
<1> HIDE DEF P, c, n
<1>6. EndOf(F, P)
  BY <1>2, <1>3, <1>4, <1>5 DEF EndOf, n
<1>7. QED
  BY <1>6 DEF F, P

LEMMA EndOrder ==
  ASSUME NEW F, NEW P, EndOf(F, P), NEW i \in 1..Len(F), NEW j \in 1..Len(F)
  PROVE  F[i].date <= F[j].date <=> i <= j
<1>1. /\ F[i].date \in Int /\ F[j].date \in Int
      /\ i < j => F[i].date < F[j].date
      /\ j < i => F[j].date < F[i].date
  BY DEF EndOf
<1>2. i \in Int /\ j \in Int
  BY DEF EndOf
<1>3. QED
  BY <1>1, <1>2

LEMMA EndShowsPast ==
  ASSUME NEW F, NEW P, EndOf(F, P)
  PROVE  ShowsPast(P)
<1> DEFINE n == Len(F)
           c == Len(P)
           at(i) == n - c + i
<1>1. n \in Nat /\ c \in Nat /\ c <= n
  BY DEF EndOf
<1>2. \A i \in 1..c :
         /\ at(i) \in 1..n
         /\ P[i].date = F[at(i)].date /\ P[i].balanceValue = F[at(i)].balanceValue
         /\ i # 1 => P[i].dailyChange = F[at(i)].balanceValue - F[at(i) - 1].balanceValue
  BY DEF EndOf
<1>3. \A i \in 1..n : /\ F[i].date \in Known /\ F[i].date \in Int
                      /\ \E r : LastRow(F[i].date, r) /\ F[i].balanceValue = table[r]
  BY DEF EndOf
<1>4. \A i \in 1..c : i # 1 => /\ i - 1 \in 1..c /\ at(i - 1) = at(i) - 1
                               /\ at(i) - 1 \in Int /\ at(i) \in Int
  BY <1>1
<1> HIDE DEF at
<1>5. ASSUME NEW i \in 1..c, i # 1
      PROVE  /\ P[i].dailyChange = P[i].balanceValue - P[i - 1].balanceValue
             /\ P[i - 1].date < P[i].date
             /\ \A e \in Known : e < P[i].date => e <= P[i - 1].date
  <2>1. /\ i - 1 \in 1..c /\ at(i - 1) = at(i) - 1
        /\ at(i) \in 1..n /\ at(i - 1) \in 1..n
        /\ at(i) \in Int
    BY <1>2, <1>4, <1>5
  <2>2. P[i].dailyChange = P[i].balanceValue - P[i - 1].balanceValue
    BY <1>2, <1>5, <2>1
  <2>3. P[i - 1].date < P[i].date
    <3>1. at(i - 1) < at(i)
      BY <2>1
    <3>2. F[at(i - 1)].date < F[at(i)].date
      BY <2>1, <3>1 DEF EndOf
    <3>3. QED
      BY <1>2, <2>1, <3>2
  <2>4. ASSUME NEW e \in Known, e < P[i].date PROVE e <= P[i - 1].date
    <3>1. PICK k \in 1..n : F[k].date = e
      BY DEF EndOf
    <3>2. k \in Int /\ e \in Int /\ P[i].date \in Int /\ ~(P[i].date <= e)
      BY <1>1, <1>2, <1>3, <2>4, <3>1
    <3>3. /\ F[at(i)].date <= F[k].date <=> at(i) <= k
          /\ F[k].date <= F[at(i - 1)].date <=> k <= at(i - 1)
      BY <2>1, EndOrder
    <3>4. F[at(i)].date = P[i].date /\ F[at(i - 1)].date = P[i - 1].date
      BY <1>2, <2>1
    <3>5. ~(at(i) <= k)
      BY <3>1, <3>2, <3>3, <3>4
    <3>6. k <= at(i - 1)
      BY <2>1, <3>2, <3>5
    <3>7. QED
      BY <3>1, <3>3, <3>4, <3>6
  <2>5. QED
    BY <2>2, <2>3, <2>4
<1>6. ASSUME NEW i \in 1..c
      PROVE  /\ P[i].date \in Known
             /\ \E r : LastRow(P[i].date, r) /\ P[i].balanceValue = table[r]
  <2>1. P[i].date = F[at(i)].date /\ P[i].balanceValue = F[at(i)].balanceValue
    BY <1>2
  <2>2. /\ F[at(i)].date \in Known
        /\ \E r : LastRow(F[at(i)].date, r) /\ F[at(i)].balanceValue = table[r]
    BY <1>2, <1>3
  <2>3. QED
    BY <2>1, <2>2
<1> HIDE DEF n
<1>7. QED
  BY <1>5, <1>6 DEF ShowsPast

\* The end of the history agrees with whatever shows the past.
LEMMA EndAgreesWithPast ==
  ASSUME NEW F, NEW P \in Seq(Point), EndOf(F, P),
         NEW Q \in Seq(Point), ShowsPast(Q), NEW i \in 1..Len(Q)
  PROVE  /\ P # <<>>
         /\ Q[i].date >= P[1].date =>
               \E j \in 1..Len(P) :
                  /\ P[j].date = Q[i].date
                  /\ P[j].balanceValue = Q[i].balanceValue
                  /\ 1 \in {i, j} \/ P[j].dailyChange = Q[i].dailyChange
<1> DEFINE n == Len(F)
           c == Len(P)
           start == n - c
<1>1. /\ n \in Nat /\ c \in Nat /\ c <= n /\ (n > 0 => c > 0)
      /\ Len(Q) \in Nat
  BY DEF EndOf
<1>2. /\ \A k \in 1..n : /\ F[k].date \in Known /\ F[k].date \in Int
                         /\ \E r : LastRow(F[k].date, r) /\ F[k].balanceValue = table[r]
      /\ \A d \in Known : \E k \in 1..n : F[k].date = d
      /\ \A k \in 1..c :
            /\ start + k \in 1..n
            /\ P[k].date = F[start + k].date
            /\ P[k].balanceValue = F[start + k].balanceValue
            /\ k # 1 => P[k].dailyChange =
                           F[start + k].balanceValue - F[start + k - 1].balanceValue
  BY DEF EndOf
\* What a known day shows is what the history has for it.
<1>3. ASSUME NEW k \in 1..Len(Q)
      PROVE  \E l \in 1..n : /\ F[l].date = Q[k].date
                             /\ F[l].balanceValue = Q[k].balanceValue
  <2>1. Q[k].date \in Known
    BY DEF ShowsPast
  <2>2. PICK l \in 1..n : F[l].date = Q[k].date
    BY <1>2, <2>1
  <2>3. PICK r : LastRow(Q[k].date, r) /\ Q[k].balanceValue = table[r]
    BY DEF ShowsPast
  <2>4. PICK s : LastRow(F[l].date, s) /\ F[l].balanceValue = table[s]
    BY <1>2
  <2>5. Q[k].date \in Days
    BY <2>1 DEF Known
  <2>6. r = s
    BY <2>2, <2>3, <2>4, <2>5, LastRowIsUnique
  <2>7. QED
    BY <2>2, <2>3, <2>4, <2>6
<1>4. PICK q \in 1..n : F[q].date = Q[i].date /\ F[q].balanceValue = Q[i].balanceValue
  BY <1>3
<1>5. P # <<>> /\ c > 0
  BY <1>1, <1>4
<1>6. ASSUME Q[i].date >= P[1].date
      PROVE  \E j \in 1..c :
                  /\ P[j].date = Q[i].date
                  /\ P[j].balanceValue = Q[i].balanceValue
                  /\ 1 \in {i, j} \/ P[j].dailyChange = Q[i].dailyChange
  <2> DEFINE j == q - start
  <2>1. 1 \in 1..c /\ start + 1 \in 1..n /\ P[1].date = F[start + 1].date
    BY <1>1, <1>2, <1>5
  <2>2. F[start + 1].date <= F[q].date
    BY <1>2, <1>4, <1>6, <2>1
  <2>3. start + 1 <= q
    BY <2>1, <2>2, EndOrder
  <2>4. j \in 1..c /\ start + j = q /\ start + j - 1 = q - 1
    BY <1>1, <2>3
  <2> HIDE DEF j
  <2>5. P[j].date = Q[i].date /\ P[j].balanceValue = Q[i].balanceValue
    BY <1>2, <1>4, <2>4
  <2>6. ASSUME i # 1, j # 1 PROVE P[j].dailyChange = Q[i].dailyChange
    <3>1. i - 1 \in 1..Len(Q) /\ q - 1 \in 1..n /\ q \in Int /\ q - 1 < q
      BY <1>1, <2>3, <2>4, <2>6
    <3>2. /\ Q[i].dailyChange = Q[i].balanceValue - Q[i - 1].balanceValue
          /\ Q[i - 1].date < Q[i].date
          /\ \A e \in Known : e < Q[i].date => e <= Q[i - 1].date
      BY <2>6 DEF ShowsPast
    <3>3. P[j].dailyChange = F[q].balanceValue - F[q - 1].balanceValue
      BY <1>2, <2>4, <2>6
    <3>4. PICK l \in 1..n : /\ F[l].date = Q[i - 1].date
                            /\ F[l].balanceValue = Q[i - 1].balanceValue
      BY <1>3, <3>1
    <3>5. F[q - 1].date < F[q].date /\ F[q - 1].date \in Known
      BY <1>2, <3>1 DEF EndOf
    <3>6. F[q - 1].date <= F[l].date
      BY <1>4, <3>2, <3>4, <3>5
    <3>7. q - 1 <= l
      BY <3>1, <3>6, EndOrder
    <3>8. ~(F[q].date <= F[l].date)
      BY <1>2, <1>4, <3>2, <3>4
    <3>9. ~(q <= l)
      BY <3>8, EndOrder
    <3>10. l = q - 1
      BY <1>1, <3>1, <3>7, <3>9
    <3>11. QED
      BY <1>4, <3>2, <3>3, <3>4, <3>10
  <2>7. QED
    BY <2>4, <2>5, <2>6
<1>7. QED
  BY <1>5, <1>6

\* A row of a later day changes no known day and adds none before the last.
LEMMA LaterRowKeepsPast ==
  ASSUME TypeOK, NEW d \in Days, NEW value \in Values \cup {Null},
         table' = [table EXCEPT ![d] = value], \A r \in Raw : r < d,
         NEW P, ShowsPast(P)
  PROVE  ShowsPast(P)'
<1>1. /\ value # NoRow /\ table'[d] = value
      /\ \A r \in Days : r # d => table'[r] = table[r]
  BY NullAssumption DEF TypeOK
<1>2. Raw' = Raw \cup {d}
  BY <1>1 DEF Raw
<1>3. /\ \A x \in Days : x \in Int
      /\ \A r \in Raw : r \in Days /\ r # d /\ table'[r] = table[r]
      /\ Raw \subseteq Raw'
  BY <1>1, <1>2, DaysType
<1>4. \A x \in Known : x \in Days /\ x < d /\ \E r \in Raw : x <= r
  BY <1>3 DEF Known
<1>5. ASSUME NEW x \in Days, x < d
      PROVE  \A r : LastRow(x, r) <=> LastRow(x, r)'
  BY <1>2, <1>3, <1>5 DEF LastRow
<1>6. ASSUME NEW x \in Known PROVE x \in Known'
  <2>1. PICK r \in Raw : /\ r <= x /\ table[r] # Null
                         /\ \A q \in (r + 1)..x : q \notin Raw
    BY DEF Known
  <2>2. r \in Int /\ x \in Int /\ d \in Int /\ x < d /\ x \in Days
    BY <1>3, <1>4
  <2>3. \A q \in (r + 1)..x : q \notin Raw'
    BY <1>2, <2>1, <2>2
  <2>4. \E q \in Raw' : x <= q
    BY <1>3, <1>4
  <2>5. r \in Raw' /\ table'[r] # Null
    BY <1>3, <2>1
  <2>6. QED
    BY <2>1, <2>2, <2>3, <2>4, <2>5 DEF Known
<1>7. ASSUME NEW x \in Known, NEW e \in Known', e < x PROVE e \in Known
  <2>1. PICK p \in Raw : x <= p
    BY <1>4
  <2>2. e \in Days
    BY DEF Known
  <2>3. e \in Int /\ x \in Int /\ p \in Int /\ d \in Int /\ x < d
    BY <1>3, <1>4, <2>2
  <2>4. PICK r \in Raw' : /\ r <= e /\ table'[r] # Null
                          /\ \A q \in (r + 1)..e : q \notin Raw'
    BY DEF Known
  <2>5. r # d
    BY <1>7, <2>3, <2>4
  <2>6. r \in Raw /\ table[r] # Null
    BY <1>2, <1>3, <2>4, <2>5
  <2>7. \A q \in (r + 1)..e : q \notin Raw
    BY <1>3, <2>4
  <2>8. \E q \in Raw : e <= q
    BY <1>7, <2>1, <2>3
  <2>9. QED
    BY <2>2, <2>4, <2>6, <2>7, <2>8 DEF Known
<1>8. SUFFICES ASSUME NEW i \in 1..Len(P)
               PROVE  /\ P[i].date \in Known'
                      /\ \E r : LastRow(P[i].date, r)' /\ P[i].balanceValue = table'[r]
                      /\ i # 1 =>
                            /\ P[i].dailyChange = P[i].balanceValue - P[i - 1].balanceValue
                            /\ P[i - 1].date < P[i].date
                            /\ \A e \in Known' : e < P[i].date => e <= P[i - 1].date
  BY DEF ShowsPast
<1>9. /\ P[i].date \in Known
      /\ i # 1 =>
            /\ P[i].dailyChange = P[i].balanceValue - P[i - 1].balanceValue
            /\ P[i - 1].date < P[i].date
            /\ \A e \in Known : e < P[i].date => e <= P[i - 1].date
  BY DEF ShowsPast
<1>10. PICK r : LastRow(P[i].date, r) /\ P[i].balanceValue = table[r]
  BY DEF ShowsPast
<1>11. LastRow(P[i].date, r)' /\ P[i].balanceValue = table'[r]
  <2>1. P[i].date \in Days /\ P[i].date < d /\ r \in Raw
    BY <1>4, <1>9, <1>10 DEF LastRow
  <2>2. QED
    BY <1>3, <1>5, <1>10, <2>1
<1>12. QED
  BY <1>6, <1>7, <1>9, <1>11

PastInv ==
    answer # <<>> /\ recorded # "other" => ShowsPast(answer.points)

LEMMA SamePast ==
  ASSUME table' = table PROVE \A P : ShowsPast(P)' <=> ShowsPast(P)
<1>1. Raw' = Raw /\ Known' = Known
  BY SameTable
<1>2. \A x, r : LastRow(x, r)' <=> LastRow(x, r)
  BY <1>1 DEF LastRow
<1>3. QED
  BY <1>1, <1>2 DEF ShowsPast

LEMMA PastStep == TypeOK /\ PastInv /\ [Next]_vars => PastInv'
<1> SUFFICES ASSUME TypeOK, PastInv, [Next]_vars PROVE PastInv'
  OBVIOUS
<1>1. ASSUME NEW d \in Days, NEW value \in Values \cup {Null}, Record(d, value)
      PROVE  PastInv'
  <2> SUFFICES ASSUME answer' # <<>>, recorded' # "other"
               PROVE  ShowsPast(answer.points)'
    BY <1>1 DEF PastInv, Record
  <2>1. /\ table' = [table EXCEPT ![d] = value] /\ answer' = answer
        /\ recorded # "other" /\ \A r \in Raw : r < d
    BY <1>1 DEF Record
  <2>2. ShowsPast(answer.points)
    BY <2>1 DEF PastInv
  <2> DEFINE P == answer.points
  <2>3. \A Q : ShowsPast(Q) => ShowsPast(Q)'
    BY <2>1, LaterRowKeepsPast
  <2>4. QED
    BY <2>1, <2>2, <2>3
<1>2. ASSUME NEW p \in Periods, GetHistory(p) PROVE PastInv'
  <2>1. ShowsPast(answer'.points)
    BY <1>2, AnswerIsEnd, EndShowsPast DEF GetHistory
  <2>2. table' = table
    BY <1>2 DEF GetHistory
  <2>3. QED
    BY <2>1, <2>2, SamePast DEF PastInv
<1>3. ASSUME NEW p \in Periods, GetHistoryFails(p) PROVE PastInv'
  BY <1>3 DEF GetHistoryFails, PastInv
<1>4. CASE UNCHANGED vars
  BY <1>4, SamePast DEF vars, PastInv
<1>5. QED
  BY <1>1, <1>2, <1>3, <1>4 DEF Next

\* Two answers between which only later days were written show the same past:
\* of whatever periods they are and however many of the days had no row.
THEOREM LaterDaysCorrect == Spec => LaterDaysKeepThePast
<1> DEFINE Kept ==
       answer # <<>> /\ recorded # "other" /\ recorded' = "nothing" =>
          \A i \in DOMAIN answer.points :
             /\ answer'.points # <<>>
             /\ answer.points[i].date >= answer'.points[1].date
                => \E j \in DOMAIN answer'.points :
                      LET old == answer.points[i]
                          new == answer'.points[j]
                      IN  /\ new.date = old.date
                          /\ new.balanceValue = old.balanceValue
                          /\ \/ 1 \in {i, j}
                             \/ new.dailyChange = old.dailyChange
<1>1. Init => TypeOK /\ PastInv
  BY DEF Init, TypeOK, PastInv
<1>2. TypeOK /\ PastInv /\ [Next]_vars => [Kept]_answer
  <2> SUFFICES ASSUME TypeOK, TypeOK', PastInv, Next, answer' # answer,
                      answer # <<>>, recorded # "other", recorded' = "nothing",
                      NEW i \in DOMAIN answer.points
               PROVE  /\ answer'.points # <<>>
                      /\ answer.points[i].date >= answer'.points[1].date
                         => \E j \in DOMAIN answer'.points :
                               LET old == answer.points[i]
                                   new == answer'.points[j]
                               IN  /\ new.date = old.date
                                   /\ new.balanceValue = old.balanceValue
                                   /\ \/ 1 \in {i, j}
                                      \/ new.dailyChange = old.dailyChange
    BY NextKeepsType DEF vars
  <2>1. PICK p \in Periods : answer' = Answer(p, FindByUserId)
    BY DEF Next, Record, GetHistory, GetHistoryFails
  <2>2. PICK F : EndOf(F, answer'.points)
    BY <2>1, AnswerIsEnd
  <2>3. answer.points \in Seq(Point) /\ ShowsPast(answer.points)
    BY DEF TypeOK, PastInv, Point
  <2>4. answer'.points \in Seq(Point)
    <3>1. FindByUserId \in Seq(Snapshot) /\ Len(FindByUserId) \in 0..MaxDay
      BY HistoryShape DEF TableOK, TypeOK
    <3>2. QED
      BY <2>1, <3>1, AnswerShape
  <2> DEFINE Q == answer.points
             P == answer'.points
  <2>5. /\ i \in 1..Len(Q) /\ DOMAIN P = 1..Len(P)
        /\ P \in Seq(Point) /\ EndOf(F, P)
        /\ Q \in Seq(Point) /\ ShowsPast(Q)
    BY <2>2, <2>3, <2>4
  <2> HIDE DEF P, Q
  <2>6. /\ P # <<>>
        /\ Q[i].date >= P[1].date =>
              \E j \in 1..Len(P) :
                 /\ P[j].date = Q[i].date
                 /\ P[j].balanceValue = Q[i].balanceValue
                 /\ 1 \in {i, j} \/ P[j].dailyChange = Q[i].dailyChange
    BY <2>5, EndAgreesWithPast
  <2>7. ASSUME Q[i].date >= P[1].date
        PROVE  \E j \in DOMAIN P :
                  /\ P[j].date = Q[i].date
                  /\ P[j].balanceValue = Q[i].balanceValue
                  /\ 1 \in {i, j} \/ P[j].dailyChange = Q[i].dailyChange
    BY <2>5, <2>6, <2>7
  <2>8. QED
    BY <2>6, <2>7 DEF P, Q
<1>3. QED
  BY <1>1, <1>2, NextKeepsType, PastStep, PTL DEF Spec, LaterDaysKeepThePast
=============================================================================
