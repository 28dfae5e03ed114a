-------------------------- MODULE WorkerLoopsProofs --------------------------
(***************************************************************************)
(* Proofs about WorkerLoops, for any number of wallets and trades, any     *)
(* window and any limit.                                                   *)
(***************************************************************************)
EXTENDS WorkerLoops, TLAPS

-----------------------------------------------------------------------------
(* Types. *)

LEMMA InitType == Init => TypeOK
BY WalletsAssumption, BoundsAssumption
   DEF Init, TypeOK, Wallets, Days, Moments, NoTrades, Loops

\* Going on to the next wallet leaves a loop at a wallet or between cycles.
LEMMA NextWalletType ==
  ASSUME TypeOK, NEW l \in Loops, NEW ok, NextWallet(l, ok)
  PROVE  /\ at' \in [Loops -> 0..NumWallets]
         /\ step' \in [Loops -> {"fetch", "upsert", "sum"}]
         /\ \A k \in Loops : step'[k] = "sum" => k = "D"
         /\ snapshot' \in Balances \cup {Zero}
         /\ earned' \in SUBSET Rewards
         /\ mapped' \in Moments
<1>1. at[l] < NumWallets => at[l] + 1 \in 0..NumWallets
  BY WalletsAssumption DEF TypeOK
<1>2. 0 \in 0..NumWallets
  BY WalletsAssumption
<1>3. at' \in [Loops -> 0..NumWallets]
  BY <1>1, <1>2 DEF TypeOK, NextWallet
<1>4. /\ step' \in [Loops -> {"fetch", "upsert", "sum"}]
      /\ \A k \in Loops : step'[k] = "sum" => k = "D"
  BY DEF TypeOK, NextWallet
<1>5. NoTrades \in Moments
  BY DEF NoTrades, Moments
<1>6. QED
  BY <1>3, <1>4, <1>5 DEF TypeOK, NextWallet, Forget

\* So does going on to the next request or statement.
LEMMA GotoType ==
  ASSUME TypeOK, NEW l \in Loops, NEW s \in {"upsert", "sum"},
         s = "sum" => l = "D", Goto(l, s)
  PROVE  /\ at' \in [Loops -> 0..NumWallets]
         /\ step' \in [Loops -> {"fetch", "upsert", "sum"}]
         /\ \A k \in Loops : step'[k] = "sum" => k = "D"
BY DEF TypeOK, Goto

\* What loop D maps has the times of the venue or of the clock.
LEMMA MappedType ==
  ASSUME TypeOK, NEW w \in Wallets, ClosedPositionsAnswer(w)
  PROVE  mapped' \in Moments
<1>1. closedOn[w] \in [Trades -> Days \cup {Never}] /\ today \in Days
  BY DEF TypeOK, Moments
<1>2. \A t \in Trades : TradeTime(t, closedOn[w][t]) \in Days \cup {Never}
  BY <1>1 DEF TradeTime
<1>3. QED
  BY <1>2 DEF ClosedPositionsAnswer, Moments

\* The rows of two answers, laid over each other.
LEMMA RecordedType ==
  ASSUME NEW old \in Moments, NEW new \in Moments
  PROVE  Recorded(old, new) \in Moments
BY DEF Recorded, Moments

LEMMA VenueType ==
  ASSUME TypeOK,
         NextDay \/ \E w \in Wallets : \/ \E b \in Balances : Deposit(w, b)
                                       \/ \E x \in Activities : Act(w, x)
                                       \/ \E t \in Trades : Close(w, t)
  PROVE  TypeOK'
<1>1. CASE NextDay
  <2>1. today + 1 \in Days
    BY <1>1, BoundsAssumption DEF NextDay, TypeOK, Days
  <2>2. QED
    BY <1>1, <2>1 DEF NextDay, tables, TypeOK
<1>2. ASSUME NEW w \in Wallets, NEW b \in Balances, Deposit(w, b)
      PROVE  TypeOK'
  <2>1. events + 1 \in 0..MaxEvents
    BY <1>2, BoundsAssumption DEF Deposit, Happens, TypeOK
  <2>2. [funds EXCEPT ![w] = b] \in [Wallets -> Balances]
    BY <1>2 DEF TypeOK
  <2>3. QED
    BY <1>2, <2>1, <2>2 DEF Deposit, Happens, Elsewhere, tables, TypeOK
<1>3. ASSUME NEW w \in Wallets, NEW x \in Activities, Act(w, x)
      PROVE  TypeOK'
  <2>1. events + 1 \in 0..MaxEvents
    BY <1>3, BoundsAssumption DEF Act, Happens, TypeOK
  <2>2. [doneOn EXCEPT ![w][x] = today]
           \in [Wallets -> [Activities -> Days \cup {Never}]]
    BY <1>3 DEF TypeOK
  <2>3. QED
    BY <1>3, <2>1, <2>2 DEF Act, Happens, Elsewhere, tables, TypeOK
<1>4. ASSUME NEW w \in Wallets, NEW t \in Trades, Close(w, t)
      PROVE  TypeOK'
  <2>1. events + 1 \in 0..MaxEvents
    BY <1>4, BoundsAssumption DEF Close, Happens, TypeOK
  <2>2. [closedOn EXCEPT ![w][t] = today] \in [Wallets -> Moments]
    BY <1>4 DEF TypeOK, Moments
  <2>3. QED
    BY <1>4, <2>1, <2>2 DEF Close, Happens, Elsewhere, tables, TypeOK
<1>5. QED
  BY <1>1, <1>2, <1>3, <1>4

LEMMA LoopType ==
  ASSUME TypeOK, NEW l \in Loops, StartCycle(l) \/ FetchNotOk(l) \/ WalletFails(l)
  PROVE  TypeOK'
<1>1. CASE StartCycle(l)
  <2>1. 1 \in 0..NumWallets
    BY WalletsAssumption
  <2>2. at' \in [Loops -> 0..NumWallets]
    BY <1>1, <2>1 DEF StartCycle, TypeOK
  <2>3. QED
    BY <1>1, <2>2 DEF StartCycle, venueVars, tables, TypeOK
<1>2. CASE FetchNotOk(l)
  <2>1. outages + 1 \in 0..MaxOutages
    BY <1>2, BoundsAssumption DEF FetchNotOk, TypeOK
  <2>2. NoTrades \in Moments
    BY DEF NoTrades, Moments
  <2>3. /\ snapshot' \in Balances \cup {Zero}
        /\ earned' \in SUBSET Rewards
        /\ mapped' \in Moments
    BY <1>2, <2>2 DEF FetchNotOk, Forget, TypeOK
  <2>4. /\ at' \in [Loops -> 0..NumWallets]
        /\ step' \in [Loops -> {"fetch", "upsert", "sum"}]
        /\ \A k \in Loops : step'[k] = "sum" => k = "D"
    BY <1>2, GotoType DEF FetchNotOk
  <2>5. QED
    BY <1>2, <2>1, <2>3, <2>4 DEF FetchNotOk, tables, TypeOK
<1>3. CASE WalletFails(l)
  BY <1>3, NextWalletType DEF WalletFails, venueVars, tables, TypeOK
<1>4. QED
  BY <1>1, <1>2, <1>3

LEMMA AnswerType ==
  ASSUME TypeOK, NEW w \in Wallets,
         SnapshotAnswers(w) \/ ActivityAnswers(w) \/ ClosedPositionsAnswer(w)
  PROVE  TypeOK'
<1>1. CASE SnapshotAnswers(w)
  <2>1. funds[w] \in Balances
    BY DEF TypeOK
  <2>2. QED
    BY <1>1, <2>1, GotoType
       DEF SnapshotAnswers, venueVars, tables, TypeOK, Loops
<1>2. CASE ActivityAnswers(w)
  <2>1. doneOn[w] \in [Activities -> Days \cup {Never}]
    BY DEF TypeOK
  <2>2. earned' \in SUBSET Rewards
    BY <1>2, <2>1 DEF ActivityAnswers, Latest
  <2>3. QED
    BY <1>2, <2>2, GotoType
       DEF ActivityAnswers, venueVars, tables, TypeOK, Loops
<1>3. CASE ClosedPositionsAnswer(w)
  BY <1>3, MappedType, GotoType
     DEF ClosedPositionsAnswer, venueVars, tables, TypeOK, Loops
<1>4. QED
  BY <1>1, <1>2, <1>3

LEMMA StatementType ==
  ASSUME TypeOK, NEW w \in Wallets,
         \/ UpsertBalance(w) \/ UpsertRewards(w)
         \/ UpsertTradeHistory(w) \/ UpsertRealized30d(w)
  PROVE  TypeOK'
<1>1. CASE UpsertBalance(w)
  <2>1. balance' \in [Wallets -> Balances \cup {Zero}]
    BY <1>1 DEF UpsertBalance, TypeOK
  <2>2. QED
    BY <1>1, <2>1, NextWalletType
       DEF UpsertBalance, venueVars, TypeOK, Loops
<1>2. CASE UpsertRewards(w)
  <2>1. rewards' \in [Wallets -> SUBSET Rewards]
    BY <1>2 DEF UpsertRewards, TypeOK
  <2>2. QED
    BY <1>2, <2>1, NextWalletType
       DEF UpsertRewards, venueVars, TypeOK, Loops
<1>3. CASE UpsertTradeHistory(w)
  <2>1. history' \in [Wallets -> Moments]
    BY <1>3, RecordedType DEF UpsertTradeHistory, TypeOK
  <2>2. summedOn' \in [Wallets -> Days \cup {Never}]
    BY <1>3 DEF UpsertTradeHistory, TypeOK
  <2>3. QED
    BY <1>3, <2>1, <2>2, GotoType
       DEF UpsertTradeHistory, venueVars, TypeOK, Loops
<1>4. CASE UpsertRealized30d(w)
  <2>1. realized' \in [Wallets -> SUBSET Trades]
    BY <1>4 DEF UpsertRealized30d, TypeOK
  <2>2. summedOn' \in [Wallets -> Days \cup {Never}]
    BY <1>4 DEF UpsertRealized30d, TypeOK
  <2>3. QED
    BY <1>4, <2>1, <2>2, NextWalletType
       DEF UpsertRealized30d, venueVars, TypeOK, Loops
<1>5. QED
  BY <1>1, <1>2, <1>3, <1>4

LEMMA NextType == TypeOK /\ [Next]_vars => TypeOK'
<1> SUFFICES ASSUME TypeOK, [Next]_vars PROVE TypeOK'
  OBVIOUS
<1>1. CASE UNCHANGED vars
  BY <1>1 DEF TypeOK, vars, venueVars, tables
<1>2. CASE Next
  BY <1>2, VenueType, LoopType, AnswerType, StatementType DEF Next
<1>3. QED
  BY <1>1, <1>2

\* Every variable of the loops keeps its type, whatever fails.
THEOREM LoopsTypeCorrect == Spec => []TypeOK
BY InitType, NextType, PTL DEF Spec

-----------------------------------------------------------------------------
(* The archive and its sum. *)

\* The archive holds the times that the venue told.
HistoryIsTold ==
    \A w \in Wallets, t \in Dated :
        history[w][t] # Never => history[w][t] = closedOn[w][t]

\* So do the rows that loop D is about to write, for the wallet it is at.
MappedIsTold ==
    /\ at["D"] = 0 => mapped = NoTrades
    /\ \A w \in Wallets, t \in Dated :
          at["D"] = w /\ mapped[t] # Never => mapped[t] = closedOn[w][t]

Told == HistoryIsTold /\ MappedIsTold

LEMMA InitTold == Init => Told /\ RealizedOfLastSum
BY DEF Init, Told, HistoryIsTold, MappedIsTold, RealizedOfLastSum, NoTrades,
       Dated, Wallets, Loops

\* A trade closes once: what the archive and loop D know of it stays true.
LEMMA CloseKeeps ==
  ASSUME TypeOK, Told, RealizedOfLastSum,
         NEW w \in Wallets, NEW t \in Trades, Close(w, t)
  PROVE  Told' /\ RealizedOfLastSum'
<1>1. /\ closedOn[w][t] = Never
      /\ \A v \in Wallets, u \in Trades :
            <<v, u>> # <<w, t>> => closedOn'[v][u] = closedOn[v][u]
      /\ UNCHANGED <<history, realized, summedOn, at, mapped>>
  BY DEF Close, Elsewhere, tables, TypeOK, Moments
<1>2. \A v \in Wallets, u \in Dated :
         history[v][u] # Never => closedOn'[v][u] = closedOn[v][u]
  BY <1>1 DEF Told, HistoryIsTold, Dated
<1>3. HistoryIsTold'
  BY <1>1, <1>2 DEF Told, HistoryIsTold
<1>4. MappedIsTold'
  BY <1>1 DEF Told, MappedIsTold, Dated
<1>5. \A v \in Wallets : DOMAIN closedOn[v] = Trades /\ DOMAIN closedOn'[v] = Trades
  BY DEF Close, TypeOK, Moments
<1>6. ASSUME NEW v \in Wallets, summedOn[v] # Never
      PROVE  realized[v] \cap Dated = {u \in Dated : history[v][u] # Never}
                \cap Since(closedOn'[v], summedOn[v])
  <2>1. {u \in Dated : history[v][u] # Never} \cap Since(closedOn'[v], summedOn[v])
         = {u \in Dated : history[v][u] # Never} \cap Since(closedOn[v], summedOn[v])
    BY <1>2, <1>5 DEF Since, Dated
  <2>2. QED
    BY <1>6, <2>1 DEF RealizedOfLastSum
<1>7. RealizedOfLastSum'
  BY <1>1, <1>6 DEF RealizedOfLastSum
<1>8. QED
  BY <1>3, <1>4, <1>7 DEF Told

\* Loop D maps what the venue tells it.
LEMMA AnswerKeeps ==
  ASSUME TypeOK, Told, RealizedOfLastSum,
         NEW w \in Wallets, ClosedPositionsAnswer(w)
  PROVE  Told' /\ RealizedOfLastSum'
<1>1. UNCHANGED <<history, closedOn, realized, summedOn, at>> /\ at["D"] = w
  BY DEF ClosedPositionsAnswer, Fetching, Goto, venueVars, tables
<1>2. \A t \in Dated : mapped'[t] # Never => mapped'[t] = closedOn[w][t]
  BY DEF ClosedPositionsAnswer, TradeTime, Dated
<1>3. MappedIsTold'
  BY <1>1, <1>2 DEF MappedIsTold, Wallets
<1>4. QED
  BY <1>1, <1>3 DEF Told, HistoryIsTold, RealizedOfLastSum

LEMMA UpsertKeeps ==
  ASSUME TypeOK, Told, RealizedOfLastSum,
         NEW w \in Wallets, UpsertTradeHistory(w)
  PROVE  Told' /\ RealizedOfLastSum'
<1>1. /\ UNCHANGED <<closedOn, realized, at, mapped>>
      /\ at["D"] = w
      /\ history' = [history EXCEPT ![w] = Recorded(@, mapped)]
      /\ summedOn' = [summedOn EXCEPT ![w] = Never]
  BY DEF UpsertTradeHistory, Goto, venueVars
<1>2. \A t \in Dated : history'[w][t] # Never => history'[w][t] = closedOn[w][t]
  BY <1>1 DEF Told, HistoryIsTold, MappedIsTold, Recorded, Dated, TypeOK
<1>3. HistoryIsTold'
  BY <1>1, <1>2 DEF Told, HistoryIsTold, TypeOK
<1>4. MappedIsTold'
  BY <1>1 DEF Told, MappedIsTold
<1>5. RealizedOfLastSum'
  BY <1>1 DEF RealizedOfLastSum, TypeOK
<1>6. QED
  BY <1>3, <1>4, <1>5 DEF Told

\* The sum takes the trades of the archive that are less than a window old.
LEMMA SumKeeps ==
  ASSUME TypeOK, Told, RealizedOfLastSum,
         NEW w \in Wallets, UpsertRealized30d(w)
  PROVE  Told' /\ RealizedOfLastSum'
<1>1. /\ UNCHANGED <<closedOn, history, today>>
      /\ realized' = [realized EXCEPT ![w] =
                        {t \in Trades : InWindow(history[w][t], today)}]
      /\ summedOn' = [summedOn EXCEPT ![w] = today]
      /\ NextWallet("D", TRUE)
      /\ at["D"] = w
  BY DEF UpsertRealized30d, venueVars
<1>2. HistoryIsTold'
  BY <1>1 DEF Told, HistoryIsTold
<1>3. mapped' = NoTrades
  BY <1>1 DEF NextWallet, Forget
<1>4. MappedIsTold'
  BY <1>3 DEF MappedIsTold, NoTrades, Dated
<1>5. /\ today \in Days
      /\ \A t \in Dated : closedOn[w][t] \in Days \cup {Never}
      /\ DOMAIN closedOn[w] = Trades
      /\ Dated \subseteq Trades
  BY DEF TypeOK, Moments, Dated
<1>6. \A t \in Dated : history[w][t] # Never =>
         (InWindow(history[w][t], today) <=> t \in Since(closedOn[w], today))
  <2> SUFFICES ASSUME NEW t \in Dated, history[w][t] # Never
               PROVE  InWindow(history[w][t], today)
                        <=> t \in Since(closedOn[w], today)
    OBVIOUS
  <2>1. history[w][t] = closedOn[w][t] /\ closedOn[w][t] # Never
    BY DEF Told, HistoryIsTold
  <2>2. closedOn[w][t] \in Days
    BY <1>5, <2>1
  <2>3. closedOn[w][t] > today - Window <=> today - closedOn[w][t] < Window
    BY <1>5, <2>2, BoundsAssumption DEF Days
  <2>4. QED
    BY <1>5, <2>1, <2>3 DEF InWindow, Since
<1>7. {t \in Trades : InWindow(history[w][t], today)} \cap Dated
       = {t \in Dated : history[w][t] # Never} \cap Since(closedOn[w], today)
  BY <1>5, <1>6 DEF InWindow
<1>8. RealizedOfLastSum'
  BY <1>1, <1>7 DEF RealizedOfLastSum, TypeOK
<1>9. QED
  BY <1>2, <1>4, <1>8 DEF Told

\* Every other step leaves the archive, its sum and what the venue says of
\* trades alone, and loop D at its wallet with its rows, or with none.
LEMMA OtherKeeps ==
  ASSUME Told, RealizedOfLastSum,
         UNCHANGED <<history, closedOn, realized, summedOn>>,
         mapped' = NoTrades \/ UNCHANGED <<mapped, at["D"]>>
  PROVE  Told' /\ RealizedOfLastSum'
<1>1. HistoryIsTold' /\ RealizedOfLastSum'
  BY DEF Told, HistoryIsTold, RealizedOfLastSum
<1>2. MappedIsTold'
  BY DEF Told, MappedIsTold, NoTrades, Dated
<1>3. QED
  BY <1>1, <1>2 DEF Told

LEMMA NextTold ==
  TypeOK /\ Told /\ RealizedOfLastSum /\ [Next]_vars => Told' /\ RealizedOfLastSum'
<1> SUFFICES ASSUME TypeOK, Told, RealizedOfLastSum, [Next]_vars
             PROVE  Told' /\ RealizedOfLastSum'
  OBVIOUS
<1> USE DEF venueVars, tables
<1>1. CASE UNCHANGED vars
  BY <1>1, OtherKeeps DEF vars
<1>2. ASSUME NEW l \in Loops, StartCycle(l) PROVE Told' /\ RealizedOfLastSum'
  <2>1. l # "D" => at'["D"] = at["D"]
    BY <1>2 DEF StartCycle, TypeOK, Loops
  <2>2. l = "D" => mapped' = NoTrades
    BY <1>2 DEF StartCycle, Told, MappedIsTold
  <2>3. QED
    BY <1>2, <2>1, <2>2, OtherKeeps DEF StartCycle
<1>3. ASSUME NEW l \in Loops, FetchNotOk(l) \/ WalletFails(l)
      PROVE  Told' /\ RealizedOfLastSum'
  <2>1. l = "D" => mapped' = NoTrades
    BY <1>3 DEF FetchNotOk, WalletFails, NextWallet, Forget
  <2>2. l # "D" => UNCHANGED <<mapped, at["D"]>>
    BY <1>3 DEF FetchNotOk, WalletFails, NextWallet, Forget, Goto, TypeOK, Loops
  <2>3. QED
    BY <1>3, <2>1, <2>2, OtherKeeps DEF FetchNotOk, WalletFails
<1>4. ASSUME NEW w \in Wallets, SnapshotAnswers(w) \/ ActivityAnswers(w)
      PROVE  Told' /\ RealizedOfLastSum'
  BY <1>4, OtherKeeps DEF SnapshotAnswers, ActivityAnswers, Goto
<1>5. ASSUME NEW w \in Wallets, UpsertBalance(w) \/ UpsertRewards(w)
      PROVE  Told' /\ RealizedOfLastSum'
  <2>1. UNCHANGED <<mapped, at["D"]>>
    BY <1>5 DEF UpsertBalance, UpsertRewards, NextWallet, Forget, TypeOK, Loops
  <2>2. QED
    BY <1>5, <2>1, OtherKeeps DEF UpsertBalance, UpsertRewards
<1>6. ASSUME NEW w \in Wallets, \/ \E b \in Balances : Deposit(w, b)
                                \/ \E x \in Activities : Act(w, x)
      PROVE  Told' /\ RealizedOfLastSum'
  BY <1>6, OtherKeeps DEF Deposit, Act, Elsewhere
<1>7. CASE NextDay
  BY <1>7, OtherKeeps DEF NextDay
<1>8. QED
  BY <1>1, <1>2, <1>3, <1>4, <1>5, <1>6, <1>7, CloseKeeps, AnswerKeeps,
     UpsertKeeps, SumKeeps DEF Next

\* From one sum to the next upsert the realised profit of a wallet is that of
\* the trades of its archive that the venue closed within the window.
THEOREM RealizedCorrect == Spec => []RealizedOfLastSum
BY InitType, InitTold, NextType, NextTold, PTL DEF Spec

\* No step takes a row out of the archive or moves a dated trade.
THEOREM HistoryCorrect == Spec => HistoryIsKept
<1> DEFINE Kept == \A w \in Wallets, t \in Trades : history[w][t] # Never =>
                      \/ history'[w][t] = history[w][t]
                      \/ t \in Undated /\ history'[w][t] \in Days
<1>1. TypeOK /\ Told /\ [Next]_vars => [Kept]_history
  <2> SUFFICES ASSUME TypeOK, Told, [Next]_vars, history' # history PROVE Kept
    OBVIOUS
  <2>1. PICK w \in Wallets : UpsertTradeHistory(w)
    BY DEF Next, vars, venueVars, tables, StartCycle, FetchNotOk, WalletFails,
           SnapshotAnswers, UpsertBalance, ActivityAnswers, UpsertRewards,
           ClosedPositionsAnswer, UpsertRealized30d, Deposit, Act, Close,
           Elsewhere, NextDay
  <2>2. history' = [history EXCEPT ![w] = Recorded(@, mapped)] /\ at["D"] = w
    BY <2>1 DEF UpsertTradeHistory
  <2>3. ASSUME NEW t \in Trades, history[w][t] # Never
        PROVE  \/ history'[w][t] = history[w][t]
               \/ t \in Undated /\ history'[w][t] \in Days
    <3>1. history'[w][t] = IF mapped[t] = Never THEN history[w][t] ELSE mapped[t]
      BY <2>2 DEF Recorded, TypeOK
    <3>2. mapped[t] \in Days \cup {Never}
      BY DEF TypeOK, Moments
    <3>3. t \in Dated /\ mapped[t] # Never => mapped[t] = history[w][t]
      BY <2>2, <2>3 DEF Told, HistoryIsTold, MappedIsTold
    <3>4. QED
      BY <3>1, <3>2, <3>3 DEF Dated
  <2>4. QED
    BY <2>2, <2>3 DEF TypeOK
<1>2. QED
  BY <1>1, InitType, InitTold, NextType, NextTold, PTL
     DEF Spec, HistoryIsKept, Kept
=============================================================================
