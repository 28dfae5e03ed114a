# A verification project for dg-terminal-be

The repository is the backend of a prediction-market terminal (NestJS, `src/`)
and a background worker (`worker/`) that mirrors Polymarket accounts into
Postgres. This directory holds TLA+ models of it, TLC configurations that check
them on small instances, and TLAPS proofs for every value of the constants.

    tlc -workers 2 -config MCMarketStream.cfg MCMarketStream
    tlapm PriceFeedProofs.tla

Paths below are those of the repository. `PROJECT.json` lists the components,
the runs, the source lines of every definition, the hazards and the theorems.

## 1. Inventory

| Part | State it keeps | Operations | Talks to |
|---|---|---|---|
| Market stream (`src/positions/polymarket-market-stream.service.ts`) | listeners per asset, price cache, subscribed assets, socket, reconnect and ping timers, attempt counter | subscribe, the function it returns, getLastPrice, onModuleDestroy; open, message, close; timer | the venue's market socket; listeners by callback |
| Price service (`positions-price.service.ts`) | per client, in closures: open positions, an interval | subscribeUser and the function it returns | data service (await), market stream |
| Gateway (`positions.gateway.ts`) | one unsubscribe function per client id | handleConnection, handleDisconnect | socket.io clients; price service (await) |
| Data service (`polymarket-data.service.ts`) | category cache with a time to live, promises in flight | getOpenPositions | data API, tags API |
| Worker loops A-D (`worker/.../loops/`, `db.ts`, `main.ts`) | none of their own; tables positions, portfolio_summary, trade_history | one cycle over all wallets each, at 10 s, 30 s, 60 s and 300 s | data API, Postgres |
| Worker market socket (`loop-ws.ts`) | socket, attempt counter, heartbeat, stopped flag | open, message, close, shutdown | market socket, table positions |
| Worker client (`polymarket.ts`, `mappers.ts`, `rewards.ts`) | none | fetch and decode | data API |
| Users (`src/users/`) | rows of DG3_user and dg3_user_interests | auth, onboarding step, identity, calibration, username check | Postgres, Privy, a personalisation worker |
| Portfolio queries (`src/portfolio/`) | none | positions, closed positions, summary, trades, history | Postgres |
| Guards, DTOs, bootstrap | none | validation | - |

The backend and the worker meet only in Postgres. In each, one event loop runs
handlers to the next `await`, so the interleavings that matter are between
awaits, socket events and timers, and in the worker between statements.

What is hard, and what makes each part correct:

* **Market stream.** One socket serves everybody. Listeners come and go while it
  connects, closes or backs off, and what is sent while it is not open is
  dropped. Correct: it asks for exactly what is listened to; it is never left
  without socket and timer while somebody listens; there is one socket; nobody
  believes a live price during an outage; delays double.
* **Gateway and price service.** The only await of a connection lies between
  the connection and the registration of its clean-up, and a client may leave
  there. If it throws, the rejection is nobody's, and the process ends. Correct:
  whatever is started for a client is stopped; clients never disagree on a price;
  the view recovers once an outage is over.
* **Data service.** Several async workers share one array, and all requests
  share a cache and a promise map. Correct: one request at a time per event, no
  stale promise, no failed request remembered, every event answered, every call returns.
* **Worker sync.** Three statements without a common transaction, with failures
  and deadlock retries, against message handlers that write back what they
  computed from an earlier read. The request lists positions of at least 0.1
  shares and no more than 500. Correct: between syncs the tables are those
  of the last sync; all damage is repaired, up to what is listed.
* **Users.** Check-then-write on usernames; two statements per calibration;
  DELETE and INSERT of interests against another such transaction; failures in
  between. Correct: a completed calibration has interests; a selection is in the table
  as a whole; rows and usernames are doubled by nothing but overlap or by the
  requests that do not check; nothing stored is lost.
* **Worker life cycle.** Cycles longer than their interval, a socket that opens
  without a word and closes again, signals at any moment, a reconnect timeout
  that nothing can clear. Correct: no loop overlaps itself or dies; there is one
  socket or one reconnect, and its delays double; nothing starts after a stop,
  and a stop ends.
* **Worker loops A, C and D.** The same shape as loop B, on other columns. An
  error status is answered with zeros, answers are limited to 500 rows (of activity
  of any type, from which loop C then picks the rewards), time passes between the
  answer and the sum, and a trade without a timestamp is dated by the clock. Correct: the trade history is an archive; the realised
  profit is that of its last 30 days; damage is repaired.
* **Portfolio queries.** Every page of trades is a query of its own over the
  newest 500 rows, while loop D adds and redates rows and the period moves on.
  The balance history is carried forward over missing days, and the ranges of
  its answer index another list than its points. Correct: a reader misses
  nothing that was there all along; quiet pages are the answer; a chart that is
  redrawn keeps its past.

## 2. Modules

    MarketStream <-- PriceFeed --implements--> PriceBoard     CategoryCache    WorkerSync
                         ^                                    WorkerLife       WorkerLoops
                  PriceFeedProofs                             UsersOnboarding  TradePages
                                                              EquityHistory

The modules on the right stand alone; `XProofs` extends `X`, and `PriceFeedProofs`
proves about `MarketStream` as well as about the feed that extends it.
`MCxxx.tla` gives the constants of module `xxx` their small values. A definition
named `X_Suffix` is `X` with a plausible bug; it stands before `X`, its comment
begins with "Mutant:", and no other definition uses it. Putting it in the place
of `X` makes a property of the runs fail, which shows that the property depends
on that piece of code (`PROJECT.json`, "mutants").

**`MarketStream`** is `PolymarketMarketStreamService`, a variable per field and
an action per call, event or timer. `sock` and `venueSubs` are the ws library and
the venue: `closing` are sockets that either side closes and whose close event is
still to come, `aborting` those whose handshake was given up. A close begun by the
venue (`VenueCloses`) changes nothing in the service until that event: it keeps the socket
and the heartbeat, though what it sends is dropped. `told` and `lastDelay` record what listeners
were told and the last delay, for the properties only. A socket that is replaced
may be used again once its close event is through. `OnModuleDestroy` is modelled
with what follows it, late close events included, although `src/main.ts` enables
no shutdown hooks and only `app.close()` runs it.

**`PriceFeed`** extends it with the gateway and the price service. A client and
its listener closure are one slot, used again once it is clean. Every step of
the stream is also a step of the feed, with what it does to the clients.
`PositionsFetched` is all that runs after the await: snapshot, interval,
subscription and registration. `FetchFails` ends the process (`crashed`), after which
no step is left: `handleConnection` rejects, nobody awaits it, and `src/main.ts` handles no
unhandled rejections (Node 15 or later). A behaviour is the life of one
process, and the next begins anew. What must eventually happen is stated here
and not of `MarketStream`, where a process has no end. `SnapshotsRepairView` speaks of an open
connection that carries the asset: what a snapshot shows during an outage is
no repair but finding 2. Position arithmetic is left out: an event is a price or
a stale flag.

**`PriceBoard`** is what the namespace promises: one board of prices, and per
watching client a cell per asset that shows the board's price or a stale mark.
In `PriceFeed` the board is the price cache and the cells are the views of the
watching clients. The board says nothing about when a stale mark must stand:
the code shows an old price as live again, see the findings.

**`CategoryCache`** is `fetchCategoriesByEventId` and what it calls. A step is
what runs between two awaits. A promise is the worker that started the fetch;
whoever joins copies its result when it resolves. `started` are the workers that
are inside the `finally` block, which deletes the entry of the event whosever it is.
What the tags of an event map to does not change (`CategoryOf`). A request may fail
(`FetchFails`), or be answered with something that is no list of tags
(`FetchMalformed`), which the code takes for no tags and caches as `Other` for the
whole time to live; `misread` tells such entries apart, for the properties only.

**`WorkerSync`** is the worker's table `positions` and `open_exposure`, written
by loop B and by the market message handler. A step is one statement,
transaction or HTTP answer; the statement that sums is two steps, read and
write, as READ COMMITTED allows. A profit is represented by the shares and
price it was computed from and a sum by its summands, so that a value from stale
data can be told from a right one. An answer leaves out what is smaller than `Threshold`, and
of more positions than `Limit` lists any so many (`Answers`): the code asks for
the highest current value first, which is the venue's to know. `synced` records the answer of the last completed sync
of each wallet, for the properties only.

**`UsersOnboarding`** is a set of requests, each of which passes through the
stages of its handler: check, snapshot and write of each statement, second
look. `rows` is DG3_user; `interests` is the set of calibrations whose
selection is in dg3_user_interests, for a transaction inserts all of a
selection and deletes only whole ones. Statements read a snapshot and write
later, as READ COMMITTED allows, and each may fail or lose its answer. The
schema is not in the repository: a constraint that it may have (on user_id, on the
username, on user and stream) shows as a failing statement. `wrote`, `committed`,
`before`, `namedBy` and `latest` record who could see what, for the properties
only. Rows without a user_id, which older data may contain, are left out; they
never change and would only make more usernames taken.

**`WorkerLife`** is the process of the worker: `main.ts` and `loop-ws.ts`. A loop
or a message handler only holds a client of the pool or not; what it does to the
tables is `WorkerSync`. `timers` counts the timers of a loop, those that a
cycle sets after a stop included. `proc` becomes `stopping` at the first signal, which
ends the pool: from then on a query is rejected. Loops and message handlers
catch that, `sendInitialSubscription` and a second `shutdown` do not, and an
unhandled rejection ends the process (`crashed`; Node 15 or later). `lastDelay` and `quiet`
record the last delay and whether a price has come since, for the properties only. After a stop
no client of the pool is taken (`NothingStartsAfterStop`); who holds one finishes, with all
statements of a transaction.

**`WorkerLoops`** is loops A, C and D with the columns of portfolio_summary that
they write and trade_history. The three have one skeleton (`StartCycle`,
`NextWallet`, `WalletFails`) and a chain of requests and statements each. No loop
reads what another writes, so a behaviour follows one of the sets in `Followed`
and the others are invisible to it. A sum is the set of what was summed. The limit of
an answer counts activity of every type (`Activities`); loop C picks the `Rewards` among
the rows it got. The request names no order, and the latest are taken to be
listed. `summedOn`
records when a wallet was last summed, for the properties only. The
upsert of trades goes by `trade_time` of the answer, and
`mapClosedPositionToUpsert` takes the clock for a row without a timestamp: such
a trade (`Undated`) is dated anew in every cycle, never leaves the 30 days while it is listed, and
the properties about dates speak of the dated ones only.

**`TradePages`** is a client that reads GET `portfolio/trades` page by page, with
loop D and the clock between two pages. What loop D may do to the table is what
`WorkerLoops` shows: add rows of any past time, remove none, redate the undated.
The SELECT leaves rows of equal time in any order, and a new one for every page;
`Selected` has them all. The filter and the stable sort in memory are written by
their outcome: a kept trade goes to the place that the number of kept trades
before it gives. `steady` and `quiet` are for the properties only.

**`EquityHistory`** is GET `portfolio/history`: the statement (carry forward
between the first and the last snapshot, drop days without a value), the ranges
of all periods over the whole history, the slice of the period asked for, and
the daily changes of that slice. Snapshots are written by a program that is not
in the repository, in any order and with or without a balance. A balance of null hides the days
after it, so a period counts points and not days. The `ORDER BY` is a choice of
the increasing sequence of the days (there is one), and the sum of the changes a
recursive function. `recorded` is for the properties only.

## 3. Runs

| Run | Instance | Shows |
|---|---|---|
| `market_stream` | 2 assets, listeners, sockets, prices | six properties of subscription, connection, staleness and backoff; no deadlock |
| `price_feed` | 1 asset, 2 clients, 1 socket, 2 prices | the feed implements the board; clean-up; as long as the process lives every listener comes to have an open socket, and on it snapshots repair every view |
| `price_feed_leak` | 1 asset, 2 clients, 2 sockets, 1 price | **violation**: a client that leaves early leaves its feed behind |
| `price_feed_stale` | as above | **violation**: an outage is shown as live after one interval |
| `category_cache` | 2 calls, 2 workers each, 2 events | single flight, no failed request cached, all events answered, calls return |
| `worker_sync` | 2 wallets, 2 assets, sizes 1 to 3, threshold 2, limit 1, 1 handler, 1 retry | rows and exposure between syncs, convergence to what is listed behind a wallet that may fail for ever |
| `worker_loops` | 2 wallets, 2 trades (1 undated), 1 reward and 1 other activity, limit 1, window 1 | archive, realised profit, convergence |
| `worker_life` | 2 loops, 2 sockets, 1 handler, 2 signals | loops never overlap or die, one socket, backoff, an orderly stop |
| `users_onboarding` | 3 requests, 2 users (1 known), 20 calls | interests, rows and usernames under overlap and failure |
| `users_conflict` | 3 requests, 2 known users, claims and renames | **violation**: a taken username is answered "User not found" |
| `trade_pages` | 4 trades (1 undated), limit 3, pages of 1 and 2, 2 writes | nothing steady is missed; quiet pages are the answer |
| `equity_history` | 4 days, 2 balances, periods of 2, 3 and all | answers are the history; later days keep the past |

A type invariant is checked by a run only where it says more than what the
actions assign: in `trade_pages` and `equity_history`, where pages, indices and
ranges have to stay within their bounds. All of them are proved.

**Bounds.** In `market_stream` two assets distinguish shared from exclusive
listeners and old from new subscriptions; two listeners give first, last,
joining and leaving; two sockets give the old one whose close is late and the
new one; two prices tell an old price from a new one. `AttemptCap` 5 is one past
the attempt from which the delay is constant. `price_feed` adds the clients to
one asset and one socket: what a second of either could do to the stream is in
`market_stream`, and `FeedIsWhole`, `BoardSpec` and `LeftoversAreEarlyLeavers` are
theorems for any number of both. One asset still has a price that came before a
client, after it, and none. In `worker_sync` the second wallet (`Portfolios`) holds nothing,
a position and one below the threshold, or two of which the answer has one, and the first
one position or none; the handler can hold shares of an earlier sync;
`MaxRetries` is 1 instead of 4, enough for a retry and for giving up; one trade
and one error status happen at any moment (`MaxTrades`, `MaxOutages`), and syncs
go on without bound; its two invariants are theorems as well. In `worker_loops`
a limit of 1 makes a second trade, or the activity beside a reward, overflow an answer, and a window and a clock of one
day (`MaxDay`) let a trade leave the window before, between and after the statements of
a cycle; `MaxEvents` 2 is both trades, or the reward and the other activity in either order. In
`category_cache` calls, failures and expiries are without bound, and the two events
have different categories, neither of them the fallback. In `trade_pages` a limit of 3 leaves out
one of four rows; a page of 1 and one of 2 give full and part-filled last pages; two
writes of loop D (`MaxWrites`) and two ticks fit between any two pages. In
`equity_history` four days are one more than the longest period. The invariants
of both are theorems for any limit, page size, table and period. In
`users_onboarding` three requests are two that overlap and one before, between
or after them, and two spellings of one name meet `LOWER`; a second name adds
nothing but renames, which the violating run has. The two loops of `worker_life` may be in
different phases, its two sockets are one in use and one whose query at
open is still under way, its second signal comes while the first is served;
`AttemptCap` 6 is the attempt from which the delay is at its maximum.

**Symmetry and deadlock.** `market_stream` uses symmetry of assets, listeners,
sockets and prices, `users_onboarding` of requests, `trade_pages` of dated
trades, which no definition tells apart; the runs with liveness use none. Deadlock is not
checked where the system stops: requests and pages come to an end, the process
of `worker_life` ends, and in the runs of `PriceFeed` a slot whose client left early is never clean
again (the leak below), so all slots may be used up.

**Fairness.** Weak fairness of a timer or a ready handler is the event loop
itself, as long as the process lives; a socket that is closing ends, if need be by a timeout of the
ws library. Beyond that the environment is assumed not to fail for ever:
`SF(WsOpen)` - an endless series of attempts is not all refused; an HTTP request
of the tags is answered, in whatever way, or fails; in `WorkerSync` and `WorkerLoops` strong
fairness of each request and statement for the wallets of `Served` only, while
any other wallet may fail at every attempt, and weak fairness of a failure, since
requests have a timeout; in `WorkerLife`, `SF(EndCycle)`, since a cycle has
finitely many wallets and each query ends. Users that trade for ever are excluded by
`MaxTrades` and `MaxEvents`: the convergence is "once they stop".
`TradePages` and `EquityHistory` state no fairness: a client may stop reading.

**Findings.** (1) `handleConnection` registers the clean-up after an await and
never looks whether the client is still there: a client that leaves meanwhile
leaves an interval, a listener and an upstream subscription until the process
ends, while the log says "unsubscribed cleanly" (`positions.gateway.ts:35`, `:53`).
`LeftoversAreEarlyLeavers` shows that this is the only way to leave anything.
(2) Snapshots take every cached price as live, and an outage does not clear the
cache; `WEBSOCKET_FRONTEND_INTEGRATION.md:63` says that `stale: true` means the
price is unavailable at that moment (`positions-price.service.ts:54`).
(3) `updateOnboardingIdentity` finds out in a second statement why the first
returned no row; if the holder of the username renames in between, the user is answered
"User not found" although his row exists (`users.service.ts:147`), where
`users.service.spec.ts:250` expects a conflict.

## 4. Proofs

The assumptions are the named ones of the modules: null values are no values,
the bounds are natural numbers, `AttemptCap` is at least 5, sizes are positive,
trades and events are finite sets.

* **`PriceFeedProofs`**, the stream: `TypeCorrect` first; then each invariant by
  one step per action. `SubscribedMirrorsListeners`, `NoLostReconnect`,
  `OneUpstreamSocket`, `StaleWhileDown` and `ListenersAgreeWithCache` are
  inductive together with the type and with each other.
  `UpstreamAgrees` is not: it needs `FreshUntilOpen`, that a socket which never
  opened carries no subscription, for the step that opens it. `BackoffDoubles`
  compares two steps, and needs `AttemptTellsDelay`: the attempt counter
  determines the last delay.
* **`PriceFeedProofs`**, the feed: every step of the feed is a step of the stream or a
  stutter (`FeedImplementsStream`), so the stream's invariants hold of the feed.
  `FeedIsWhole` needs `FedAreAnswered`: an attached client was answered. With
  both, every step maps to a board step under the refinement mapping
  (`FeedImplementsBoard`); a tick maps to `Tick` because an
  attached, connected client has a cell that is not empty. `FeedClientsAgree`
  then follows from `BoardKeepsAgreement`: a board step cannot part two
  cells. `FeedLeavesNothing` is the action property of the first finding turned round: only a disconnect ends a connection
  (`OnlyDisconnectRemoves`), and `Whole` says that its handler stops what there is.
* **`WorkerSyncProofs`**: `RowsOfLastSync` and `ExposureOfLastSync` say nothing
  of a sync under way; `SyncUnderWay` says for each statement what
  the ones before it achieved. The heart is `PatchedTable`: a patch changes no
  shares and neither makes nor removes a row, so it disturbs no part of the invariant.
* **`UsersOnboardingProofs`**: `Typed` (types, what requests in a stage look
  like, a snapshot's rows belong to the request's user) and `Order` (which
  requests have committed, and that nobody saw one that had not) carry the two
  arguments. For interests, `Removals`: a DELETE removes all it could
  see, so what survives a commit was committed after that snapshot. For rows
  and usernames, `Snapshots`: a write that is still to come holds every row
  written before its snapshot, and a username found free may be taken since
  but by nobody it could see. `NothingLost` is an action property, from `Typed`.
* **`WorkerLifeProofs`**: `LifeInv` ties the counters to one another: of a loop
  one cycle or timer (`OneCycle`), of sockets the current one or a reconnect
  (`OneSocket`), the interval that runs is the one `pingTimer` holds
  (`OneBeat`), and the attempt counter tells the last delay unless a price has come
  since (`AttemptTellsDelay`). `OneSocketOneHeartbeat` needs the second and
  the third together: a second socket that opened would start a second interval. `Delays`
  computes the delay of each attempt.
* **`WorkerLoopsProofs`**: `Told` says that the archive and the answer at hand date
  a dated trade as the venue does; as a trade closes once, that stays
  true (`CloseKeeps`), and the sum of a day is the same set whether it is taken
  by the archive's times or the venue's (`SumKeeps`). An upsert makes the sum
  out of date on purpose (`summedOn`), so nothing is claimed until the next.
* **`CategoryCacheProofs`**: `WorkersAwait` (an idle worker holds nothing, a
  request belongs to who started it), `AnswersSound` (what an await will give is
  of that event) and `NothingLost` (an event is queued, awaited or answered, and
  as long as something is queued the call has a worker) make the four invariants
  inductive. `SingleFlight` follows from `InFlightIsOwned`: two requests for one
  event would both be the owner of its entry. That a call has a worker at
  all needs the cardinality of its events, so `Events` is assumed finite.
* **`TradePagesProofs`**: both properties are about ranks, and the module begins
  with what a rank is: in a finite set with a total order, counting what does not
  come after a member numbers the members from 1 on without a gap
  (`RankOrders`, `RankIsOnto`). So the answer is sorted and has every kept trade
  once (`SortedPlaces`), and pages of one answer join without gap or overlap
  (`PagesAddUp`, `TotalPagesCovers`). The statement always has an answer
  (`PagesAnswered`). `SteadyInv` carries the first property
  over a table that changes: a steady trade that was not received has at least
  `page * perPage` newer matching trades ahead of it. Loop D can only add to
  these, since it removes nothing and dates no dated trade anew (`AheadGrows`), and
  their number bounds its place from below (`NewestFirstPlace`), so the reader
  has not passed it. `QuietInv` carries the second: the pages so far are a
  prefix of *the* answer, for where no two rows share their time the statement
  has one order only (`AnswerIsUnique`).
* **`EquityHistoryProofs`**: `HistoryShape` and `RangeShape` say what the
  statement and `buildRange` return for any table. `HistoryCorrect` follows,
  with `ChangeTelescopes`: the sum of the changes is the difference of the
  ends. `LaterDaysCorrect` compares an answer with the next; `PastInv` says what
  holds in between, while days are recorded: each day shown is known, with its
  balance, and its change is the one since the known day before it. A row later
  than all others keeps that (`LaterRowKeepsPast`), and the next answer agrees
  with it because it is the end of the days known then (`EndAgreesWithPast`).

`ChangeTelescopes` would be an induction over the places of an answer, and no
induction theorem can be applied here. It is proved by the least counterexample
instead: there is no first place where the recursive sum and the difference part.
`RankOrders` appears again as `UptoOrders`, for the order of the numbers.

Only model-checked: everything temporal with fairness (`ListenersEventuallyServed`,
`SnapshotsRepairView`, `CallsReturn`, `TablesConverge`, `ColumnsConverge`,
`WorkerKeepsGoing`, `StopEnds`), which the prover cannot do. Every other property of
a passing run is a theorem.

## 5. Not modelled, and what could come next

* The endpoints for positions, closed positions and the summary are one read-only
  statement each, answered as it comes. `portfolio-trades.repository.ts` is never
  called: the trades endpoint reads through the closed-positions repository.
* `changePct` of a history, a quotient of two values that are modelled, and the
  stored percentages of the worker, which the backend computes anew.
* Sort keys of trades other than the date and the profit, which are alike for
  paging; the order of rows of equal time, which the code leaves open: pages
  over them may repeat some and miss others, and no property promises otherwise.
* The heartbeat of the worker's socket while the venue closes it: in `WorkerLife` a socket
  is open from its open event to its close event, and its readyState in between
  decides nothing but whether a PING is sent.
* What a subscription of the worker's socket asks for: assets that appear
  after it opened are not subscribed, and no document says they should be.
* Prices are opaque, so the arithmetic of `Number()` on an empty side of the book
  is not modelled; nor is a heartbeat that is not answered, which the code does not notice.
* How the venue revises a closed position: without an id its key in trade_history
  contains its numbers, so a revision would be a second row. The models take trades as fixed.
* Parsing and formatting (zip and CSV reading, number conversion, SQL text), token
  verification, DTO validation, wiring.
* A wallet is taken to belong to one user; whether two may share one depends on
  a schema that is not in the repository.
* Loss of the process is no action of its own where the code does not cause it
  (`FetchFails` of `PriceFeed`, the crash of `WorkerLife`): the backend's services keep
  nothing else over a restart than what requests wrote, and a request that dies
  with the process is one whose next statement fails (`Fail`); the worker's
  tables are what `WorkerSync` and `WorkerLoops` start each cycle from.

What could come next: the composition of `WorkerLoops` with `TradePages`, once a
schema tells whether two wallets may share a user.
