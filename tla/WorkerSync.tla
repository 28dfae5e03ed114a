----------------------------- MODULE WorkerSync -----------------------------
(***************************************************************************)
(* The worker's positions table and its two writers.  Loop B takes the     *)
(* wallets one after the other: it fetches a wallet's open positions,      *)
(* upserts them, deletes the orphans and sums the wallet's exposure into   *)
(* portfolio_summary, with any of these failing.  The market socket's      *)
(* message handler selects the rows of an asset and patches price and      *)
(* profit row by row, several messages at a time.                          *)
(*                                                                         *)
(* A step is one database statement or transaction, or one HTTP answer.    *)
(* The statement that sums the exposure is two steps: under READ COMMITTED *)
(* it computes from the snapshot it started with and may then wait for the *)
(* summary row, which loops A, C and D lock as well.                       *)
(*                                                                         *)
(* Money is kept as what it is computed from: a profit as the shares and   *)
(* the price, a sum of cost bases as the shares of each row.  The columns  *)
(* of a summary row that nothing here reads, and the stored percentages,   *)
(* which the backend computes anew, are left out.  Each wallet belongs to  *)
(* one user, and a user's number is the wallet.                            *)
(***************************************************************************)
EXTENDS Integers, FiniteSets

CONSTANTS
    NumWallets,   \* wallets of users, in the order the loops take them
    Assets,
    Shares,       \* sizes a position may have
    Portfolios,   \* bound: [Wallets -> what it may hold]
    Threshold,    \* sizeThreshold of getOpenPositions, and its limit: what is
    Limit,        \* smaller, or beyond the limit, is not in the answer
    Prices,
    Handlers,     \* bound: message handlers that may be under way at once
    MaxRetries,   \* maxRetries of withDeadlockRetry
    MaxTrades,    \* bound: changes of the wallets' holdings
    MaxOutages,   \* bound: answers of the data API that are no list
    Served,       \* assumption: wallets that the data API and the database
                  \* do not fail forever
    NoRow,        \* no such row
    Partial       \* a sync that did not complete

ASSUME WalletsAssumption == NumWallets \in Nat \ {0}
ASSUME ServedAssumption == Served \subseteq 1..NumWallets
ASSUME SharesAssumption == Shares \subseteq Nat \ {0}
ASSUME ListingAssumption == Threshold \in Nat /\ Limit \in Nat \ {0}
ASSUME BoundsAssumption ==
    MaxRetries \in Nat /\ MaxTrades \in Nat /\ MaxOutages \in Nat

Wallets == 1..NumWallets
Sizes == Shares \cup {0}
Row == [shares : Shares, price : Prices, pnlOf : Shares \X Prices]

ASSUME PortfoliosAssumption ==
    Portfolios \in [Wallets -> SUBSET [Assets -> Sizes]]
ASSUME NoRowAssumption == NoRow \notin Row \cup [Assets -> Sizes]
ASSUME PartialAssumption == Partial \notin [Assets -> Sizes]

VARIABLES
    holdings,    \* [Wallets -> [Assets -> Sizes]]: what the venue knows
    trades,      \* how often holdings changed
    outages,     \* how many answers were no list
    rows,        \* [Wallets -> [Assets -> Row or NoRow]]: table positions
    exposure,    \* [Wallets -> [Assets -> Sizes] or NoRow]: open_exposure
    at,          \* the wallet loop B is at, 0 between cycles
    step,        \* what it does next for that wallet
    mapped,      \* the rows it got for that wallet
    snapshot,    \* what its summing statement read
    retries,     \* how often withDeadlockRetry tried again
    patching,    \* [Handlers -> the patch a message handler is at, or NoRow]
    synced       \* [Wallets -> answer of the last completed sync, or Partial]

loopVars == <<at, step, mapped, snapshot, retries>>
vars == <<holdings, trades, outages, rows, exposure, loopVars, patching,
          synced>>

Steps == {"fetch", "upsert", "delete", "sum", "write"}

TypeOK ==
    /\ holdings \in [Wallets -> [Assets -> Sizes]]
    /\ trades \in 0..MaxTrades
    /\ outages \in 0..MaxOutages
    /\ rows \in [Wallets -> [Assets -> Row \cup {NoRow}]]
    /\ exposure \in [Wallets -> [Assets -> Sizes] \cup {NoRow}]
    /\ at \in 0..NumWallets
    /\ step \in Steps
    /\ mapped \in [Assets -> Row \cup {NoRow}]
    /\ snapshot \in [Assets -> Sizes]
    /\ retries \in 0..MaxRetries
    /\ patching \in [Handlers -> {NoRow} \cup
                       [asset : Assets, price : Prices,
                        todo : [Wallets -> Sizes]]]
    /\ synced \in [Wallets -> [Assets -> Sizes] \cup {Partial}]

NoRows == [a \in Assets |-> NoRow]
SharesOf(table) == [a \in Assets |-> IF table[a] = NoRow THEN 0
                                     ELSE table[a].shares]

Init ==
    /\ holdings \in [Wallets -> [Assets -> Sizes]]
    /\ \A w \in Wallets : holdings[w] \in Portfolios[w]
    /\ trades = 0
    /\ outages = 0
    /\ rows = [w \in Wallets |-> NoRows]
    /\ exposure = [w \in Wallets |-> NoRow]
    /\ at = 0
    /\ step = "fetch"
    /\ mapped = NoRows
    /\ snapshot = [a \in Assets |-> 0]
    /\ retries = 0
    /\ patching = [h \in Handlers |-> NoRow]
    /\ synced = [w \in Wallets |-> Partial]

-----------------------------------------------------------------------------
(* Loop B. *)

\* Mutant: a failure ends the cycle, not only its wallet.
NextWallet_EndsCycle(ok) ==
    /\ at' = IF ok /\ at < NumWallets THEN at + 1 ELSE 0
    /\ step' = "fetch"
    /\ mapped' = NoRows
    /\ snapshot' = [a \in Assets |-> 0]
    /\ retries' = 0
\* The for statement goes on with the next wallet, whether this one went
\* through or was caught.
NextWallet(ok) ==
    /\ at' = IF at < NumWallets THEN at + 1 ELSE 0
    /\ step' = "fetch"
    /\ mapped' = NoRows
    /\ snapshot' = [a \in Assets |-> 0]
    /\ retries' = 0

\* A statement is through: on to the next one.
Goto(next) == step' = next /\ retries' = 0 /\ UNCHANGED at

\* The timer starts a cycle.
StartCycle ==
    /\ at = 0
    /\ at' = 1
    /\ UNCHANGED <<holdings, trades, outages, rows, exposure, step, mapped,
                   snapshot, retries, patching, synced>>

\* What getOpenPositions asks for.  The positions of highest current value go
\* first; here any may, as the prices of the venue decide it.
Listable(held) == {a \in Assets : held[a] >= Threshold}
Fits(held) == Cardinality(Listable(held)) <= Limit
Listings(held) == IF Fits(held) THEN {Listable(held)}
                  ELSE {A \in SUBSET Listable(held) : Cardinality(A) = Limit}
Answers(held) == {[a \in Assets |-> IF a \in A THEN held[a] ELSE 0] :
                    A \in Listings(held)}

\* mapOpenPositionToUpsert on an answer, which may list a position of size 0.
Mapped(size, price) ==
    [a \in Assets |-> IF size[a] > 0
                      THEN [shares |-> size[a], price |-> price[a],
                            pnlOf |-> <<size[a], price[a]>>]
                      ELSE NoRow]

FetchAnswers(w) ==
    /\ at = w /\ step = "fetch"
    /\ \E size \in Answers(holdings[w]), price \in [Assets -> Prices] :
          mapped' = Mapped(size, price)
    /\ Goto("upsert")
    /\ UNCHANGED <<holdings, trades, outages, rows, exposure, snapshot,
                   patching, synced>>

\* An error status, or a body that is no list, counts as no positions at all.
FetchNotOk ==
    /\ at # 0 /\ step = "fetch"
    /\ outages < MaxOutages
    /\ outages' = outages + 1
    /\ mapped' = NoRows
    /\ Goto("upsert")
    /\ UNCHANGED <<holdings, trades, rows, exposure, snapshot, patching,
                   synced>>

\* Mutant: a row that is there keeps its profit.
Upserted_KeepsPnl(old, new) ==
    [a \in Assets |-> IF new[a] = NoRow THEN old[a]
                      ELSE IF old[a] = NoRow THEN new[a]
                      ELSE [new[a] EXCEPT !.pnlOf = old[a].pnlOf]]
\* The transaction of upsertPositions, which leaves out no row of the answer.
Upserted(old, new) == [a \in Assets |-> IF new[a] = NoRow THEN old[a]
                                        ELSE new[a]]

UpsertPositions(w) ==
    /\ at = w /\ step = "upsert"
    /\ rows' = [rows EXCEPT ![w] = Upserted(@, mapped)]
    /\ synced' = [synced EXCEPT ![w] = Partial]
    /\ Goto("delete")
    /\ UNCHANGED <<holdings, trades, outages, exposure, mapped, snapshot,
                   patching>>

\* Mutant: returns early on an empty list, as the upsert does.
WithoutOrphans_EmptyKept(old, new) ==
    [a \in Assets |-> IF new[a] = NoRow /\ new # NoRows THEN NoRow ELSE old[a]]
WithoutOrphans(old, new) ==
    [a \in Assets |-> IF new[a] = NoRow THEN NoRow ELSE old[a]]

DeletePositionOrphans(w) ==
    /\ at = w /\ step = "delete"
    /\ rows' = [rows EXCEPT ![w] = WithoutOrphans(@, mapped)]
    /\ synced' = [synced EXCEPT ![w] = Partial]
    /\ Goto("sum")
    /\ UNCHANGED <<holdings, trades, outages, exposure, mapped, snapshot,
                   patching>>

\* upsertPortfolioSummaryExposure reads the wallet's rows ...
SumExposure(w) ==
    /\ at = w /\ step = "sum"
    /\ snapshot' = SharesOf(rows[w])
    /\ step' = "write"
    /\ UNCHANGED <<holdings, trades, outages, rows, exposure, at, mapped,
                   retries, patching, synced>>

\* Mutant: no row is inserted or updated when there is nothing to sum.
Written_NotEmpty(old) ==
    IF \A a \in Assets : snapshot[a] = 0 THEN old ELSE snapshot
Written(old) == snapshot

\* ... and writes their sum, which ends the sync of the wallet.
WriteExposure(w) ==
    /\ at = w /\ step = "write"
    /\ exposure' = [exposure EXCEPT ![w] = Written(@)]
    /\ synced' = [synced EXCEPT ![w] = SharesOf(mapped)]
    /\ NextWallet(TRUE)
    /\ UNCHANGED <<holdings, trades, outages, rows, patching>>

\* A deadlock or a serialization failure rolls back, and withDeadlockRetry
\* calls its function again.
DeadlockRetry ==
    /\ at # 0 /\ step # "fetch"
    /\ retries < MaxRetries
    /\ retries' = retries + 1
    /\ step' = IF step = "write" THEN "sum" ELSE step
    /\ snapshot' = [a \in Assets |-> 0]
    /\ UNCHANGED <<holdings, trades, outages, rows, exposure, at, mapped,
                   patching, synced>>

\* The request times out or is refused, its body does not parse, a statement
\* fails for good: caught for this wallet.
WalletFails ==
    /\ at # 0
    /\ NextWallet(FALSE)
    /\ UNCHANGED <<holdings, trades, outages, rows, exposure, patching, synced>>

-----------------------------------------------------------------------------
(* Message handlers of the market socket. *)

\* A message with a price p of asset a: the SELECT of the rows to patch.
SelectPositions(h, a, p) ==
    /\ patching[h] = NoRow
    /\ patching' = [patching EXCEPT ![h] =
            [asset |-> a, price |-> p,
             todo |-> [w \in Wallets |-> SharesOf(rows[w])[a]]]]
    /\ UNCHANGED <<holdings, trades, outages, rows, exposure, loopVars, synced>>

\* Mutant: inserts the row it does not find.
Patched_Inserts(row, size, p) ==
    [shares |-> IF row = NoRow THEN size ELSE row.shares,
     price |-> p, pnlOf |-> <<size, p>>]
\* updatePositionPricePatch with the profit of the shares selected before.
Patched(row, size, p) ==
    IF row = NoRow THEN NoRow
    ELSE [row EXCEPT !.price = p, !.pnlOf = <<size, p>>]

\* One row is patched; the SELECT gives no order.
UpdatePositionPricePatch(h, w) ==
    /\ patching[h] # NoRow
    /\ LET patch == patching[h]
           a == patch.asset
       IN  /\ patch.todo[w] # 0
           /\ rows' = [rows EXCEPT ![w][a] =
                         Patched(@, patch.todo[w], patch.price)]
           /\ patching' = [patching EXCEPT ![h].todo[w] = 0]
    /\ UNCHANGED <<holdings, trades, outages, exposure, loopVars, synced>>

\* No row is left, or a statement of the handler fails and it is caught.
HandlerEnds(h) ==
    /\ patching[h] # NoRow
    /\ patching' = [patching EXCEPT ![h] = NoRow]
    /\ UNCHANGED <<holdings, trades, outages, rows, exposure, loopVars, synced>>

-----------------------------------------------------------------------------
\* The user of a wallet buys and sells.
Trade(w, held) ==
    /\ trades < MaxTrades
    /\ holdings[w] # held
    /\ holdings' = [holdings EXCEPT ![w] = held]
    /\ trades' = trades + 1
    /\ UNCHANGED <<outages, rows, exposure, loopVars, patching, synced>>

HandlerStep(h) ==
    (\E w \in Wallets : UpdatePositionPricePatch(h, w)) \/ HandlerEnds(h)

Next ==
    \/ StartCycle
    \/ \E w \in Wallets :
          \/ FetchAnswers(w) \/ UpsertPositions(w) \/ DeletePositionOrphans(w)
          \/ SumExposure(w) \/ WriteExposure(w)
    \/ FetchNotOk \/ DeadlockRetry \/ WalletFails
    \/ \E h \in Handlers, a \in Assets, p \in Prices : SelectPositions(h, a, p)
    \/ \E h \in Handlers : HandlerStep(h)
    \/ \E w \in Wallets : \E held \in Portfolios[w] : Trade(w, held)

Spec == Init /\ [][Next]_vars

\* Timers fire, requests time out and statements end, one way or the other.
\* The environment does not fail a served wallet forever; others it may.
Fairness ==
    /\ WF_vars(StartCycle)
    /\ WF_vars(WalletFails)
    /\ \A w \in Served :
          /\ SF_vars(FetchAnswers(w))
          /\ SF_vars(UpsertPositions(w))
          /\ SF_vars(DeletePositionOrphans(w))
          /\ SF_vars(SumExposure(w))
          /\ SF_vars(WriteExposure(w))
    /\ \A h \in Handlers : WF_vars(HandlerStep(h))

FairSpec == Spec /\ Fairness

-----------------------------------------------------------------------------
(* Properties. *)

\* From one completed sync of a wallet to the upsert of the next its rows are
\* those of the answer it was synced with: no patch, however late, brings back
\* a row that the sync deleted or changes what it holds.
RowsOfLastSync ==
    \A w \in Wallets : synced[w] # Partial => SharesOf(rows[w]) = synced[w]

\* Meanwhile the exposure in the summary is that of the rows, also when there
\* are none left, and although patches go on.
ExposureOfLastSync ==
    \A w \in Wallets : synced[w] # Partial => exposure[w] = SharesOf(rows[w])

\* A row whose profit is not that of its own shares and price: a patch used
\* shares that the sync had replaced meanwhile.
Torn(row) == row # NoRow /\ row.pnlOf # <<row.shares, row.price>>

\* The tables of a wallet are what getOpenPositions may list of its holdings:
\* the exposure is that of one whole answer, every row is of a position that
\* may be listed, with its shares and a profit of its own, and where only one
\* answer is possible the rows are those of the exposure.
Settled(w) ==
    /\ exposure[w] \in Answers(holdings[w])
    /\ Fits(holdings[w]) => SharesOf(rows[w]) = exposure[w]
    /\ \A a \in Assets : rows[w][a] # NoRow =>
          /\ a \in Listable(holdings[w])
          /\ rows[w][a].shares = holdings[w][a]
          /\ ~Torn(rows[w][a])

\* Once the users stop trading, the tables of a served wallet come to be, and
\* stay, what getOpenPositions lists of its holdings: no position below the
\* size threshold, and of more positions than the limit as many as fit.
\* Whatever failed half way, wallets before it that fail for ever, an outage
\* taken for no positions and patches that raced are all made good by later
\* cycles.
TablesConverge == <>[](\A w \in Served : Settled(w))
=============================================================================
