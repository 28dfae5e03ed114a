----------------------------- MODULE WorkerLoops -----------------------------
(***************************************************************************)
(* Loops A, C and D of the worker, which run beside loop B (WorkerSync)    *)
(* and have the same shape: wallet after wallet, one request, then the     *)
(* statements that write its answer, a failure caught for that wallet.     *)
(* Loop A keeps the balance, loop C the rewards of the last 30 days, loop  *)
(* D the trade history and the profit realised in the last 30 days.  They  *)
(* write columns of one row of portfolio_summary.                          *)
(*                                                                         *)
(* A sum of money is kept as the set of what was summed, so two sums agree *)
(* exactly when their parts do.  Trades are numbered by profit, the        *)
(* greatest first, which is the order loop D asks for them in.  Loop C     *)
(* asks for activity of every type, in no order of its own choice, and the *)
(* data API is taken to answer the latest; only then it picks the rewards, *)
(* so that trades may crowd them out of a full answer.  Days stand for     *)
(* points in time; only "how long ago" matters.  Activity without a time,  *)
(* which loop C skips, columns that no other part reads, and the stored    *)
(* percentages, which the backend computes anew, are left out.  Each       *)
(* wallet belongs to one user.                                             *)
(*                                                                         *)
(* No loop reads what another writes: together they do what each does, in  *)
(* any order.  The constant Followed says which of them a behaviour is     *)
(* about.  A deadlock over the summary row rolls a statement back, and     *)
(* withDeadlockRetry runs it again with the same arguments: until it is    *)
(* through, or fails for good, nothing has changed, and it reads anew.     *)
(***************************************************************************)
EXTENDS Integers, FiniteSets

CONSTANTS
    NumWallets,   \* wallets of users, in the order the loops take them
    NumTrades,    \* closed positions that a wallet may come to have
    Undated,      \* the trades that the data API lists without a timestamp
    Activities,   \* what a wallet may come to do or be paid at the venue
    Rewards,      \* the activities that are reward payments
    Balances,
    Window,       \* the 30 days
    Limit,        \* rows that an answer may have (500 in the code)
    MaxDay,       \* bound: days that pass
    MaxEvents,    \* bound: what happens to the wallets at the venue
    MaxOutages,   \* bound: answers of the data API with an error status
    Followed,     \* sets of loops, of which a behaviour follows one
    Served,       \* assumption: wallets that the data API and the database
                  \* do not fail forever
    Never,        \* has not happened
    Zero          \* the balance that an error status is answered with

Wallets == 1..NumWallets
Trades == 1..NumTrades
Days == 0..MaxDay
Loops == {"A", "C", "D"}

ASSUME FollowedAssumption == Followed \subseteq SUBSET Loops
ASSUME WalletsAssumption == NumWallets \in Nat \ {0} /\ NumTrades \in Nat
ASSUME ServedAssumption == Served \subseteq Wallets
ASSUME UndatedAssumption == Undated \subseteq Trades
ASSUME RewardsAssumption == Rewards \subseteq Activities
ASSUME BoundsAssumption ==
    /\ Window \in Nat \ {0} /\ Limit \in Nat \ {0}
    /\ MaxDay \in Nat /\ MaxEvents \in Nat /\ MaxOutages \in Nat
ASSUME NeverAssumption == Never \notin Nat

VARIABLES
    running,     \* the loops followed
    today,
    events,      \* how much has happened at the venue
    outages,     \* how many answers had an error status
    funds,       \* [Wallets -> Balances]: what the venue knows
    closedOn,    \* [Wallets -> [Trades -> Days or Never]]: what it knows
    doneOn,      \* [Wallets -> [Activities -> Days or Never]]: what it knows
    history,     \* [Wallets -> [Trades -> Days or Never]]: trade_time of
                 \* the rows of trade_history
    balance,     \* columns of portfolio_summary; NULL and 0 are read alike
    rewards,
    realized,
    at,          \* [Loops -> the wallet a loop is at, 0 between cycles]
    step,        \* what it does next for that wallet
    snapshot,    \* the balance loop A got
    earned,      \* the rewards loop C summed
    mapped,      \* the trades loop D got
    summedOn     \* [Wallets -> day of the last sum after an upsert, or Never]

venueVars == <<today, events, outages, funds, closedOn, doneOn>>
tables == <<history, balance, rewards, realized, summedOn>>
vars == <<running, venueVars, tables, at, step, snapshot, earned, mapped>>

Moments == [Trades -> Days \cup {Never}]
NoTrades == [t \in Trades |-> Never]

TypeOK ==
    /\ running \in Followed
    /\ today \in Days
    /\ events \in 0..MaxEvents
    /\ outages \in 0..MaxOutages
    /\ funds \in [Wallets -> Balances]
    /\ closedOn \in [Wallets -> Moments]
    /\ doneOn \in [Wallets -> [Activities -> Days \cup {Never}]]
    /\ history \in [Wallets -> Moments]
    /\ balance \in [Wallets -> Balances \cup {Zero}]
    /\ rewards \in [Wallets -> SUBSET Rewards]
    /\ realized \in [Wallets -> SUBSET Trades]
    /\ at \in [Loops -> 0..NumWallets]
    /\ step \in [Loops -> {"fetch", "upsert", "sum"}]
    /\ \A l \in Loops : step[l] = "sum" => l = "D"
    /\ snapshot \in Balances \cup {Zero}
    /\ earned \in SUBSET Rewards
    /\ mapped \in Moments
    /\ summedOn \in [Wallets -> Days \cup {Never}]

Init ==
    /\ running \in Followed
    /\ today = 0 /\ events = 0 /\ outages = 0
    /\ funds \in [Wallets -> Balances]
    /\ closedOn = [w \in Wallets |-> NoTrades]
    /\ doneOn = [w \in Wallets |-> [x \in Activities |-> Never]]
    /\ history = [w \in Wallets |-> NoTrades]
    /\ balance = [w \in Wallets |-> Zero]
    /\ rewards = [w \in Wallets |-> {}]
    /\ realized = [w \in Wallets |-> {}]
    /\ at = [l \in Loops |-> 0]
    /\ step = [l \in Loops |-> "fetch"]
    /\ snapshot = Zero
    /\ earned = {}
    /\ mapped = NoTrades
    /\ summedOn = [w \in Wallets |-> Never]

-----------------------------------------------------------------------------
(* What the three loops share. *)

\* What the variables of a loop's function hold is gone with its wallet.
Forget(l) ==
    /\ snapshot' = IF l = "A" THEN Zero ELSE snapshot
    /\ earned' = IF l = "C" THEN {} ELSE earned
    /\ mapped' = IF l = "D" THEN NoTrades ELSE mapped

\* Mutant: a failure ends the cycle, not only its wallet.
NextWallet_EndsCycle(l, ok) ==
    /\ at' = [at EXCEPT ![l] = IF ok /\ @ < NumWallets THEN @ + 1 ELSE 0]
    /\ step' = [step EXCEPT ![l] = "fetch"]
    /\ Forget(l)
\* The for statement goes on with the next wallet, whether this one went
\* through or was caught.
NextWallet(l, ok) ==
    /\ at' = [at EXCEPT ![l] = IF @ < NumWallets THEN @ + 1 ELSE 0]
    /\ step' = [step EXCEPT ![l] = "fetch"]
    /\ Forget(l)

\* A request or statement is through: on to the next one.
Goto(l, next) ==
    /\ step' = [step EXCEPT ![l] = next]
    /\ UNCHANGED at

\* The timer starts a cycle.
StartCycle(l) ==
    /\ l \in running
    /\ at[l] = 0
    /\ at' = [at EXCEPT ![l] = 1]
    /\ UNCHANGED <<running, venueVars, tables, step, snapshot, earned, mapped>>

Fetching(l, w) == at[l] = w /\ step[l] = "fetch"

\* Mutant: what happened exactly one window ago is counted as well.
InWindow_Inclusive(day, now) == day # Never /\ day >= now - Window
\* The 30 days of sumRewardsEarned30d and of the statement that sums profits.
InWindow(day, now) == day # Never /\ day > now - Window

-----------------------------------------------------------------------------
(* Loop A. *)

SnapshotAnswers(w) ==
    /\ Fetching("A", w)
    /\ snapshot' = funds[w]
    /\ Goto("A", "upsert")
    /\ UNCHANGED <<running, venueVars, tables, earned, mapped>>

UpsertBalance(w) ==
    /\ at["A"] = w /\ step["A"] = "upsert"
    /\ balance' = [balance EXCEPT ![w] = snapshot]
    /\ NextWallet("A", TRUE)
    /\ UNCHANGED <<running, venueVars, history, rewards, realized, summedOn>>

-----------------------------------------------------------------------------
(* Loop C. *)

\* The rows an answer may have, whatever their type: all of them, or as many
\* of the latest as it is limited to.
Latest(days) ==
    LET listed == {x \in DOMAIN days : days[x] # Never}
    IN  {S \in SUBSET listed :
            /\ \/ S = listed
               \/ Cardinality(S) = Limit
            /\ Cardinality(S) <= Limit
            /\ \A x \in S, y \in listed \ S : days[x] >= days[y]}

\* The rewards among the rows are summed at once, with the worker's clock.
ActivityAnswers(w) ==
    /\ Fetching("C", w)
    /\ \E rows \in Latest(doneOn[w]) :
          earned' = {r \in rows \cap Rewards : InWindow(doneOn[w][r], today)}
    /\ Goto("C", "upsert")
    /\ UNCHANGED <<running, venueVars, tables, snapshot, mapped>>

UpsertRewards(w) ==
    /\ at["C"] = w /\ step["C"] = "upsert"
    /\ rewards' = [rewards EXCEPT ![w] = earned]
    /\ NextWallet("C", TRUE)
    /\ UNCHANGED <<running, venueVars, history, balance, realized, summedOn>>

-----------------------------------------------------------------------------
(* Loop D. *)

\* The answer lists the trades of the greatest profit.
Listed(days) ==
    {t \in DOMAIN days :
        /\ days[t] # Never
        /\ Cardinality({u \in 1..t : days[u] # Never}) <= Limit}

\* mapClosedPositionToUpsert dates a row without a timestamp by the clock.
TradeTime(t, day) == IF t \in Undated THEN today ELSE day

ClosedPositionsAnswer(w) ==
    /\ Fetching("D", w)
    /\ LET rows == Listed(closedOn[w])
       IN  mapped' = [t \in Trades |-> IF t \in rows
                                       THEN TradeTime(t, closedOn[w][t])
                                       ELSE Never]
    /\ Goto("D", "upsert")
    /\ UNCHANGED <<running, venueVars, tables, snapshot, earned>>

\* Mutant: rows that the answer does not list are deleted, as in loop B.
Recorded_Replaces(old, new) == new
\* The transaction of upsertTradeHistory.
Recorded(old, new) == [t \in Trades |-> IF new[t] = Never THEN old[t]
                                        ELSE new[t]]

UpsertTradeHistory(w) ==
    /\ at["D"] = w /\ step["D"] = "upsert"
    /\ history' = [history EXCEPT ![w] = Recorded(@, mapped)]
    /\ summedOn' = [summedOn EXCEPT ![w] = Never]
    /\ Goto("D", "sum")
    /\ UNCHANGED <<running, venueVars, balance, rewards, realized, snapshot, earned,
                   mapped>>

\* One statement reads the rows and writes their sum.  No other loop writes
\* either, so it does not matter that it may wait for the summary row.
UpsertRealized30d(w) ==
    /\ at["D"] = w /\ step["D"] = "sum"
    /\ realized' = [realized EXCEPT ![w] =
                      {t \in Trades : InWindow(history[w][t], today)}]
    /\ summedOn' = [summedOn EXCEPT ![w] = today]
    /\ NextWallet("D", TRUE)
    /\ UNCHANGED <<running, venueVars, history, balance, rewards>>

-----------------------------------------------------------------------------
(* Failures. *)

\* An error status, or a body that is no list (no object, for the balance), is
\* taken for a balance of zero, no activity, no trades.
FetchNotOk(l) ==
    /\ at[l] # 0 /\ step[l] = "fetch"
    /\ outages < MaxOutages
    /\ outages' = outages + 1
    /\ Forget(l)
    /\ Goto(l, "upsert")
    /\ UNCHANGED <<running, today, events, funds, closedOn, doneOn, tables>>

\* The request times out or is refused, its body does not parse, a statement
\* fails for good: caught for this wallet.
WalletFails(l) ==
    /\ at[l] # 0
    /\ NextWallet(l, FALSE)
    /\ UNCHANGED <<running, venueVars, tables>>

-----------------------------------------------------------------------------
(* The venue. *)

Happens == events < MaxEvents /\ events' = events + 1
Elsewhere == UNCHANGED <<running, today, outages, tables, at, step, snapshot,
                         earned, mapped>>

Deposit(w, b) ==
    /\ "A" \in running
    /\ Happens
    /\ funds[w] # b
    /\ funds' = [funds EXCEPT ![w] = b]
    /\ UNCHANGED <<closedOn, doneOn>>
    /\ Elsewhere

\* A trade, a deposit, a reward payment: all of them are activity.
Act(w, x) ==
    /\ "C" \in running
    /\ Happens
    /\ doneOn[w][x] = Never
    /\ doneOn' = [doneOn EXCEPT ![w][x] = today]
    /\ UNCHANGED <<funds, closedOn>>
    /\ Elsewhere

Close(w, t) ==
    /\ "D" \in running
    /\ Happens
    /\ closedOn[w][t] = Never
    /\ closedOn' = [closedOn EXCEPT ![w][t] = today]
    /\ UNCHANGED <<funds, doneOn>>
    /\ Elsewhere

NextDay ==
    /\ today < MaxDay
    /\ today' = today + 1
    /\ UNCHANGED <<running, events, outages, funds, closedOn, doneOn, tables, at, step,
                   snapshot, earned, mapped>>

-----------------------------------------------------------------------------
Next ==
    \/ \E l \in Loops : \/ StartCycle(l) \/ FetchNotOk(l)
                        \/ WalletFails(l)
    \/ \E w \in Wallets :
          \/ SnapshotAnswers(w) \/ UpsertBalance(w)
          \/ ActivityAnswers(w) \/ UpsertRewards(w)
          \/ ClosedPositionsAnswer(w) \/ UpsertTradeHistory(w)
          \/ UpsertRealized30d(w)
          \/ \E b \in Balances : Deposit(w, b)
          \/ \E x \in Activities : Act(w, x)
          \/ \E t \in Trades : Close(w, t)
    \/ NextDay

Spec == Init /\ [][Next]_vars

\* Timers fire, requests time out and statements end, one way or the other.
\* The environment does not fail a served wallet forever; others it may.
Fairness ==
    /\ \A l \in Loops : WF_vars(StartCycle(l)) /\ WF_vars(WalletFails(l))
    /\ \A w \in Served :
          /\ SF_vars(SnapshotAnswers(w)) /\ SF_vars(UpsertBalance(w))
          /\ SF_vars(ActivityAnswers(w)) /\ SF_vars(UpsertRewards(w))
          /\ SF_vars(ClosedPositionsAnswer(w)) /\ SF_vars(UpsertTradeHistory(w))
          /\ SF_vars(UpsertRealized30d(w))

FairSpec == Spec /\ Fairness

-----------------------------------------------------------------------------
(* Properties. *)

Dated == Trades \ Undated
Since(days, now) == {x \in DOMAIN days : days[x] # Never /\ now - days[x] < Window}

\* From one sum of a wallet to the next upsert the realised profit is that of
\* the trades which the venue closed less than 30 days before the sum, as far
\* as they were ever listed: none is counted twice or after it has left the
\* window, and none is lost because the last answer was an error or full.
RealizedOfLastSum ==
    \A w \in Wallets : summedOn[w] # Never =>
        realized[w] \cap Dated =
            {t \in Dated : history[w][t] # Never}
               \cap Since(closedOn[w], summedOn[w])

\* The trade history is an archive: no step takes a row out of it, or moves a
\* trade whose time the venue told to another time.
HistoryIsKept ==
    [][\A w \in Wallets, t \in Trades : history[w][t] # Never =>
          \/ history'[w][t] = history[w][t]
          \/ t \in Undated /\ history'[w][t] \in Days]_history

\* What every answer lists: no more than the limit is as recent.
AmongLatest(days) ==
    {x \in DOMAIN days :
        /\ days[x] # Never
        /\ Cardinality({y \in DOMAIN days : days[y] # Never /\ days[y] >= days[x]})
             <= Limit}

\* Once nothing happens any more, the summary of a served wallet comes to be
\* what the venue says, for good: whatever failed, wallets before it that fail
\* for ever, and answers taken for zeros are made good by later cycles.  No
\* reward or profit older than the window counts.  Where a wallet has more
\* rows than an answer, those are counted that the answer has to list: of the
\* activity the latest, whatever its type, of the trades the most profitable;
\* other trades only if they were listed before, and other rewards not at all
\* once newer activity fills the answer.
ColumnsConverge ==
    <>[](\A w \in Served :
            /\ "A" \in running => balance[w] = funds[w]
            /\ "C" \in running =>
                  LET due == Since(doneOn[w], today) \cap Rewards
                  IN  /\ due \cap AmongLatest(doneOn[w]) \subseteq rewards[w]
                      /\ rewards[w] \subseteq due
            /\ "D" \in running =>
                  LET due == Since(closedOn[w], today) \cap Dated
                  IN  /\ due \cap Listed(closedOn[w]) \subseteq realized[w]
                      /\ realized[w] \cap Dated \subseteq due)
=============================================================================
