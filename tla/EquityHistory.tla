---------------------------- MODULE EquityHistory ----------------------------
(***************************************************************************)
(* The balance history of a user, GET api/portfolio/history: the snapshots *)
(* of equity_snapshots_user, which another program writes, are carried     *)
(* forward over the days between the first and the last of them, the days  *)
(* without a value are dropped, and the points of the period are cut off   *)
(* the end.  The chart of a client is redrawn from answer to answer while  *)
(* snapshots are added and corrected.                                      *)
(*                                                                         *)
(* Amounts are whole cents.  changePct, a quotient of the two values kept  *)
(* here, is left out.  The table is not defined in the repository; that it *)
(* has at most one row for a day is an assumption.                         *)
(***************************************************************************)
EXTENDS Integers, Sequences, FiniteSets

CONSTANTS
    MaxDay,     \* bound: days
    Values,     \* balances
    WindowOf,   \* [periods -> number of points, or All]
    All,
    Null,       \* a row without a balance
    NoRow

Days == 1..MaxDay
Periods == DOMAIN WindowOf

ASSUME DaysAssumption == MaxDay \in Nat
ASSUME ValuesAssumption == Values \subseteq Int
ASSUME WindowsAssumption ==
    /\ All \notin Nat
    /\ \A p \in Periods : WindowOf[p] = All \/ WindowOf[p] \in Nat \ {0}
ASSUME NullAssumption == Null \notin Values /\ NoRow \notin Values \cup {Null}

VARIABLES
    table,     \* [Days -> Values, Null or NoRow]: the rows of the user
    answer,    \* what the client was answered last, <<>> before
    recorded   \* auxiliary: what was written since: "nothing", only "later"
               \* days than those that had a row, or "other" days as well

vars == <<table, answer, recorded>>

Raw == {d \in Days : table[d] # NoRow}

-----------------------------------------------------------------------------
(* The query. *)

\* Mutant: carries the first value on or after a day backward.
Carried_Backward(d) ==
    table[CHOOSE r \in Raw : r >= d /\ \A q \in Raw : q >= d => r <= q]
\* The balance of the last row on or before a day, which may be Null.
Carried(d) ==
    table[CHOOSE r \in Raw : r <= d /\ \A q \in Raw : q <= d => q <= r]

Series == {d \in Days : \E first, last \in Raw : first <= d /\ d <= last}

Dated == {d \in Series : Carried(d) # Null}
Ascending(D) ==
    CHOOSE s \in [1..Cardinality(D) -> D] :
        \A i, j \in 1..Cardinality(D) : i < j => s[i] < s[j]

FindByUserId ==
    LET days == Ascending(Dated)
    IN  [i \in DOMAIN days |->
            [date |-> days[i], balanceValue |-> Carried(days[i])]]

-----------------------------------------------------------------------------
(* The answer.  Indices count from 0, as in the code and the answer. *)

EmptyRange ==
    [startIndex |-> -1, endIndex |-> -1, pointsCount |-> 0,
     insufficientHistory |-> TRUE, startValue |-> 0, endValue |-> 0]

\* Mutant: endIndex is one past the end.
BuildRange_PastEnd(snapshots, window) ==
    LET total == Len(snapshots)
        count == IF window = All \/ total < window THEN total ELSE window
    IN  IF total = 0 THEN EmptyRange
        ELSE [startIndex |-> total - count, endIndex |-> total,
              pointsCount |-> count,
              insufficientHistory |-> window # All /\ total < window,
              startValue |-> snapshots[total - count + 1].balanceValue,
              endValue |-> snapshots[total].balanceValue]
BuildRange(snapshots, window) ==
    LET total == Len(snapshots)
        count == IF window = All \/ total < window THEN total ELSE window
    IN  IF total = 0 THEN EmptyRange
        ELSE [startIndex |-> total - count, endIndex |-> total - 1,
              pointsCount |-> count,
              insufficientHistory |-> window # All /\ total < window,
              startValue |-> snapshots[total - count + 1].balanceValue,
              endValue |-> snapshots[total].balanceValue]

BuildRanges(snapshots) ==
    [p \in Periods |-> BuildRange(snapshots, WindowOf[p])]

SliceByPeriod(snapshots, range) ==
    IF range.pointsCount <= 0 THEN <<>>
    ELSE LET end == IF range.endIndex < Len(snapshots) THEN range.endIndex + 1
                    ELSE Len(snapshots)
         IN  SubSeq(snapshots, range.startIndex + 1, end)

\* Mutant: the change since the first point.
ToHistoryPoints_SinceFirst(s) ==
    [i \in DOMAIN s |->
        [date |-> s[i].date, balanceValue |-> s[i].balanceValue,
         dailyChange |-> s[i].balanceValue - s[1].balanceValue]]
ToHistoryPoints(s) ==
    [i \in DOMAIN s |->
        [date |-> s[i].date, balanceValue |-> s[i].balanceValue,
         dailyChange |-> IF i = 1 THEN 0
                         ELSE s[i].balanceValue - s[i - 1].balanceValue]]

AsOfDate(points) == IF points = <<>> THEN Null ELSE points[Len(points)].date

Answer(period, snapshots) ==
    LET ranges == BuildRanges(snapshots)
        points == ToHistoryPoints(SliceByPeriod(snapshots, ranges[period]))
    IN  [period |-> period, asOfDate |-> AsOfDate(points), points |-> points,
         ranges |-> ranges]

-----------------------------------------------------------------------------
Init ==
    /\ table = [d \in Days |-> NoRow]
    /\ answer = <<>>
    /\ recorded = "nothing"

\* The other program writes or corrects a snapshot.
Record(d, value) ==
    /\ table[d] # value
    /\ table' = [table EXCEPT ![d] = value]
    /\ recorded' = IF recorded # "other" /\ \A r \in Raw : r < d THEN "later"
                   ELSE "other"
    /\ UNCHANGED answer

GetHistory(period) ==
    /\ answer' = Answer(period, FindByUserId)
    /\ recorded' = "nothing"
    /\ UNCHANGED table

\* The query fails: answered like a user without snapshots.
GetHistoryFails(period) ==
    /\ answer' = Answer(period, <<>>)
    /\ recorded' = "other"
    /\ UNCHANGED table

Next ==
    \/ \E d \in Days, value \in Values \cup {Null} : Record(d, value)
    \/ \E period \in Periods : GetHistory(period) \/ GetHistoryFails(period)

Spec == Init /\ [][Next]_vars

-----------------------------------------------------------------------------
(* Properties. *)

Differences == {v - w : v, w \in Values} \cup {0}
Range_ == [startIndex : -1..(MaxDay - 1), endIndex : -1..(MaxDay - 1),
           pointsCount : 0..MaxDay, insufficientHistory : BOOLEAN,
           startValue : Values \cup {0}, endValue : Values \cup {0}]

TypeOK ==
    /\ table \in [Days -> Values \cup {Null, NoRow}]
    /\ recorded \in {"nothing", "later", "other"}
    /\ answer # <<>> =>
          /\ answer.period \in Periods
          /\ answer.asOfDate \in Days \cup {Null}
          /\ answer.points \in Seq([date : Days, balanceValue : Values,
                                    dailyChange : Differences])
          /\ answer.ranges \in [Periods -> Range_]

\* The days that have a balance: the last row on or before them has one.
Known == {d \in Days :
            /\ \E r \in Raw : d <= r
            /\ \E r \in Raw : /\ r <= d /\ table[r] # Null
                              /\ \A q \in (r + 1)..d : q \notin Raw}

Change(points) ==
    LET sum[i \in 0..Len(points)] ==
            IF i = 0 THEN 0 ELSE sum[i - 1] + points[i].dailyChange
    IN  sum[Len(points)]

\* The points are the last days of the period that have a balance, each once
\* and in order, with the balance of the last snapshot; the daily changes add
\* up to the change of the period; and the range of every period that fits into
\* the answer starts at the balance that is as many points from the end,
\* although its indices are those of the whole history.
IsTheHistory(a) ==
    LET points == a.points
        n == Len(points)
        dates == {points[i].date : i \in DOMAIN points}
    IN  /\ \A i, j \in DOMAIN points : i < j => points[i].date < points[j].date
        /\ dates \subseteq Known
        /\ \A d \in Known \ dates : \A e \in dates : d < e
        /\ \/ n = Cardinality(Known)
           \/ n < Cardinality(Known) /\ n = WindowOf[a.period]
        /\ \A i \in DOMAIN points : \E r \in Raw :
              /\ r <= points[i].date /\ points[i].balanceValue = table[r]
              /\ \A q \in (r + 1)..points[i].date : q \notin Raw
        /\ Change(points) = a.ranges[a.period].endValue
                               - a.ranges[a.period].startValue
        /\ \A p \in Periods :
              LET k == a.ranges[p].pointsCount
              IN  0 < k /\ k <= n =>
                    /\ points[n - k + 1].balanceValue
                          = a.ranges[p].startValue
                    /\ ~a.ranges[p].insufficientHistory
                          => k = WindowOf[p] \/ WindowOf[p] = All

\* Until a snapshot is written, the answer that was given is the history.
AnswerIsTheHistory ==
    answer # <<>> /\ recorded = "nothing" => IsTheHistory(answer)

\* Snapshots of later days leave the past of a chart as it was: of whatever
\* periods two answers are, from the first day of the new one on every day of
\* the old one is there with its balance, and with its change unless it is the
\* first of either, whose change is not known to the client.
LaterDaysKeepThePast ==
    [][answer # <<>> /\ recorded # "other" /\ recorded' = "nothing" =>
          \A i \in DOMAIN answer.points :
             /\ answer'.points # <<>>
             /\ answer.points[i].date >= answer'.points[1].date
                => \E j \in DOMAIN answer'.points :
                      LET old == answer.points[i]
                          new == answer'.points[j]
                      IN  /\ new.date = old.date
                          /\ new.balanceValue = old.balanceValue
                          /\ \/ 1 \in {i, j}
                             \/ new.dailyChange = old.dailyChange
      ]_answer
=============================================================================
