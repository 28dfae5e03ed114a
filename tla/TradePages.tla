----------------------------- MODULE TradePages -----------------------------
(***************************************************************************)
(* A client that pages through the trades of a wallet, GET                 *)
(* api/portfolio/trades, while loop D of the worker goes on writing        *)
(* trade_history and time passes.  Every page is a request of its own: the *)
(* backend selects the newest rows of the wallet, keeps those that match   *)
(* the query, sorts them and cuts the page out of the result, so what a    *)
(* page holds depends on what happened since the page before.              *)
(*                                                                         *)
(* A row is its time and its profit; all sort keys but those two, and the  *)
(* other fields of a trade, are alike for paging and left out.  The writer *)
(* is what WorkerLoops shows of loop D: rows are added, with any time up   *)
(* to now, none is removed, and only a trade without a timestamp changes   *)
(* its time.  That a closed position keeps its profit is an assumption     *)
(* about the venue.                                                        *)
(***************************************************************************)
EXTENDS Integers, Sequences, FiniteSets

CONSTANTS
    Trades,
    Undated,     \* trades that loop D dates anew whenever it lists them
    Profits,
    Limit,       \* rows selected at most (500 in the code)
    PerPages,    \* the values of per_page
    Window,      \* the period of a query that is not 'all'
    MaxTime,     \* bound: time that passes
    MaxWrites,   \* bound: writes of loop D
    NoRow

ASSUME TradesAssumption == IsFiniteSet(Trades) /\ Undated \subseteq Trades
ASSUME ProfitsAssumption == Profits \subseteq Int
ASSUME BoundsAssumption ==
    /\ Limit \in Nat \ {0} /\ PerPages \subseteq Nat \ {0} /\ Window \in Nat \ {0}
    /\ MaxTime \in Nat \ {0} /\ MaxWrites \in Nat

Times == 1..MaxTime
Row == [time : Times, pnl : Profits]
ASSUME NoRowAssumption == NoRow \notin Row

Query == [period : {"all", "window"}, outcome : {"any", "WON", "LOST"},
          key : {"date", "pnl"}, dir : {"asc", "desc"}, perPage : PerPages]

VARIABLES
    table,    \* [Trades -> Row or NoRow]: trade_history of the wallet
    now,
    writes,   \* how often loop D wrote
    phase,    \* of the client: "idle", "walking", "done" or "failed"
    query,
    page,     \* the page it got last
    pages,    \* total_pages of that answer
    got,      \* the trades of its pages, one page after the other
    steady,   \* auxiliary: what matched in one and the same place all along
    quiet     \* auxiliary: no answer can have changed since the first page

client == <<phase, query, page, pages, got>>
vars == <<table, now, writes, client, steady, quiet>>

TypeOK ==
    /\ table \in [Trades -> Row \cup {NoRow}]
    /\ now \in Times
    /\ writes \in 0..MaxWrites
    /\ phase \in {"idle", "walking", "done", "failed"}
    /\ query \in Query
    /\ page \in Nat
    /\ pages \in Nat
    /\ got \in Seq(Trades)
    /\ steady \subseteq Trades
    /\ quiet \in BOOLEAN

-----------------------------------------------------------------------------
(* What the backend answers. *)

Rows == {t \in Trades : table[t] # NoRow}
Newer(t, u) == table[t].time > table[u].time

\* The sequences that the SELECT may return: the newest rows first, those of
\* the same time in any order, which is not even that of the query before.
Selected ==
    LET n == IF Cardinality(Rows) < Limit THEN Cardinality(Rows) ELSE Limit
    IN  {s \in [1..n -> Rows] :
            /\ \A i, j \in 1..n : i < j => s[i] # s[j] /\ ~Newer(s[j], s[i])
            /\ \A t \in Rows : (\A i \in 1..n : s[i] # t)
                                  => \A i \in 1..n : ~Newer(t, s[i])}

PnlToOutcome(pnl) == IF pnl > 0 THEN "WON" ELSE IF pnl < 0 THEN "LOST"
                     ELSE "PUSHED"

\* filterByPeriod and filterByOutcome.
Matches(t) ==
    /\ query.period = "window" => table[t].time >= now - Window
    /\ query.outcome # "any" => PnlToOutcome(table[t].pnl) = query.outcome

SortValue(t) == IF query.key = "date" THEN table[t].time ELSE table[t].pnl

\* Mutant: the direction defaults to ascending.
Before_Ascending(t, u) == SortValue(t) < SortValue(u)
\* The comparison of sortTrades.
Before(t, u) == IF query.dir = "asc" THEN SortValue(t) < SortValue(u)
                ELSE SortValue(t) > SortValue(u)

\* What the filters leave of a selection, as places in it.
Kept(s) == {i \in DOMAIN s : Matches(s[i])}

\* Array.prototype.sort is stable: what is equal stays as it was selected.
Precedes(s, i, j) ==
    \/ Before(s[i], s[j])
    \/ ~Before(s[j], s[i]) /\ i <= j

Sorted(s) ==
    LET kept == Kept(s)
        Rank(i) == Cardinality({j \in kept : Precedes(s, j, i)})
    IN  [r \in 1..Cardinality(kept) |-> s[CHOOSE i \in kept : Rank(i) = r]]

\* Mutant: the number of the last page, counted from 0.
TotalPages_LastIndex(n) == (n - 1) \div query.perPage
\* Mutant: rounds down.
TotalPages_Floor(n) == n \div query.perPage
TotalPages(n) == (n + query.perPage - 1) \div query.perPage

PaginateTrades(s, p) ==
    LET end == p * query.perPage
    IN  SubSeq(s, (p - 1) * query.perPage + 1, IF end < Len(s) THEN end ELSE Len(s))

-----------------------------------------------------------------------------
(* The client. *)

\* Nothing but t itself decides its place among what the SELECT may return.
HasPlace(t) ==
    /\ table[t] # NoRow
    /\ \A u \in Rows \ {t} : table[u].time # table[t].time
    /\ Cardinality({u \in Rows : Newer(u, t)}) < Limit

Init ==
    /\ table \in [Trades -> Row \cup {NoRow}]
    /\ now \in Times
    /\ \A t \in Rows : table[t].time <= now
    /\ writes = 0
    /\ phase = "idle"
    /\ query \in Query
    /\ page = 0 /\ pages = 0
    /\ got = <<>>
    /\ steady = {t \in Trades : HasPlace(t) /\ Matches(t)}
    /\ quiet = TRUE

\* getTrades for the next page; the first answer is the first page.
GetTrades ==
    /\ phase \in {"idle", "walking"}
    /\ \E s \in Selected :
          LET trades == Sorted(s)
          IN  /\ got' = got \o PaginateTrades(trades, page + 1)
              /\ pages' = TotalPages(Len(trades))
              /\ phase' = IF page + 1 < TotalPages(Len(trades)) THEN "walking"
                          ELSE "done"
    /\ page' = page + 1
    /\ UNCHANGED <<table, now, writes, query, steady, quiet>>

\* The database fails: the answer has no trades and no pages, like that of a
\* wallet without trades, so the client stops.
GetTradesFails ==
    /\ phase \in {"idle", "walking"}
    /\ page' = page + 1
    /\ pages' = 0
    /\ phase' = "failed"
    /\ UNCHANGED <<table, now, writes, query, got, steady, quiet>>

-----------------------------------------------------------------------------
(* Loop D and the clock. *)

\* What has happened before the first page is in Init, and what happens after
\* the last is of no interest.  The auxiliary variables keep what is still so.
Meanwhile ==
    /\ phase = "walking"
    /\ UNCHANGED client
    /\ steady' = {t \in steady : (HasPlace(t) /\ Matches(t))'
                                    /\ table'[t] = table[t]}
    /\ quiet' = (quiet /\ table' = table
                      /\ {t \in Rows : Matches(t)}' = {t \in Rows : Matches(t)})

Write(t, row) ==
    /\ writes < MaxWrites
    /\ writes' = writes + 1
    /\ table' = [table EXCEPT ![t] = row]
    /\ UNCHANGED now
    /\ Meanwhile

\* Loop D lists a trade for the first time.
Insert(t, time, pnl) ==
    /\ table[t] = NoRow
    /\ time <= now
    /\ t \in Undated => time = now
    /\ Write(t, [time |-> time, pnl |-> pnl])

\* It lists a trade without a timestamp again.
Redate(t) ==
    /\ t \in Undated \cap Rows
    /\ table[t].time # now
    /\ Write(t, [table[t] EXCEPT !.time = now])

Tick ==
    /\ now < MaxTime
    /\ now' = now + 1
    /\ UNCHANGED <<table, writes>>
    /\ Meanwhile

Next ==
    \/ GetTrades \/ GetTradesFails
    \/ \E t \in Trades, time \in Times, pnl \in Profits : Insert(t, time, pnl)
    \/ \E t \in Trades : Redate(t)
    \/ Tick

Spec == Init /\ [][Next]_vars

-----------------------------------------------------------------------------
(* Properties. *)

Received == {got[i] : i \in DOMAIN got}

\* Newest first, which is the default, a client that reads to the last page
\* has got every trade that was there to be found all along, whatever loop D
\* added or dated anew meanwhile and whatever left the period.
NothingSteadyMissed ==
    phase = "done" /\ query.key = "date" /\ query.dir = "desc"
        => steady \subseteq Received

Unambiguous == \A t, u \in Rows : t # u => table[t].time # table[u].time
Findable == {t \in Rows : Matches(t) /\ HasPlace(t)}

\* If nothing changes meanwhile and no two trades share their time, the pages
\* hold each trade that matches once, in the order asked for and the newest
\* first among equals, and the last of them is the first one not followed by
\* another: in whatever order the pages were put together, no page was asked
\* for in vain.
QuietPagesAreTheAnswer ==
    phase = "done" /\ quiet /\ Unambiguous =>
        /\ Received = Findable
        /\ Len(got) = Cardinality(Findable)
        /\ \A i, j \in DOMAIN got : i < j =>
              \/ Before(got[i], got[j])
              \/ ~Before(got[j], got[i]) /\ Newer(got[i], got[j])
        /\ page = 1 \/ (page - 1) * query.perPage < Len(got)
=============================================================================
