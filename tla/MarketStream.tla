---------------------------- MODULE MarketStream ----------------------------
(***************************************************************************)
(* PolymarketMarketStreamService: one upstream WebSocket shared by every   *)
(* listener of the backend.  Listeners attach to assets; the service keeps *)
(* the upstream subscription equal to the assets somebody listens to, a    *)
(* cache of the last price per asset, and the connection alive by          *)
(* reconnecting with an exponential backoff.                               *)
(*                                                                         *)
(* The process is a single-threaded event loop, so each call or event      *)
(* handler is one action.  `sock`, `venueSubs` are the ws library and the  *)
(* venue; `told`, `lastDelay`, `destroyed` are observations of what the    *)
(* service did and are read by no action's guard except OnModuleDestroy's. *)
(***************************************************************************)
EXTENDS Integers, FiniteSets

CONSTANTS
    Assets,       \* asset ids
    Listeners,    \* one listener closure per call of subscribe
    Sockets,      \* WebSocket objects the process may have alive at once
    Prices,       \* prices the venue may quote
    Null,         \* the null reference
    AttemptCap    \* bound: reconnectAttempt saturates here, past which the
                  \* delay no longer depends on it

ASSUME NullAssumption == Null \notin Sockets
ASSUME PricesAssumption == "none" \notin Prices /\ "stale" \notin Prices
ASSUME AttemptCapAssumption == AttemptCap \in Nat /\ AttemptCap >= 5

VARIABLES
    listeners,         \* [Assets -> SUBSET Listeners], {} is a missing entry
    latestPrices,      \* [Assets -> Prices or "none"]
    subscribedAssets,
    reconnectAttempt,
    ws,                \* the socket the service refers to, or Null
    reconnectTimer,    \* delay in ms of the pending timeout, 0 is none
    pingTimer,         \* whether the heartbeat interval runs
    sock,              \* readyState of each socket, "none" when not alive
    venueSubs,         \* assets the venue was asked for on each socket
    told,              \* last update each listener was called with, per asset
    lastDelay,         \* delay of the last reconnect since a socket opened
    destroyed          \* onModuleDestroy has run

serviceVars == <<listeners, latestPrices, subscribedAssets, reconnectAttempt,
                 ws, reconnectTimer, pingTimer>>
vars == <<serviceVars, sock, venueSubs, told, lastDelay, destroyed>>

Attached == UNION {listeners[a] : a \in Assets}
AssetsOf(l) == {a \in Assets : l \in listeners[a]}
IsOpen(s) == s # Null /\ sock[s] = "open"
\* Between its open event and its close event.
HasOpened(s) == s # Null /\ sock[s] \in {"open", "closing"}
Alive == {s \in Sockets : sock[s] # "none"}

TypeOK ==
    /\ listeners \in [Assets -> SUBSET Listeners]
    /\ latestPrices \in [Assets -> Prices \cup {"none"}]
    /\ subscribedAssets \in SUBSET Assets
    /\ reconnectAttempt \in 0..AttemptCap
    /\ ws \in Sockets \cup {Null}
    /\ reconnectTimer \in Nat
    /\ pingTimer \in BOOLEAN
    /\ sock \in [Sockets ->
                    {"none", "connecting", "open", "closing", "aborting"}]
    /\ venueSubs \in [Sockets -> SUBSET Assets]
    /\ told \in [Listeners -> [Assets -> Prices \cup {"none", "stale"}]]
    /\ lastDelay \in Nat
    /\ destroyed \in BOOLEAN

Init ==
    /\ listeners = [a \in Assets |-> {}]
    /\ latestPrices = [a \in Assets |-> "none"]
    /\ subscribedAssets = {}
    /\ reconnectAttempt = 0
    /\ ws = Null
    /\ reconnectTimer = 0
    /\ pingTimer = FALSE
    /\ sock = [s \in Sockets |-> "none"]
    /\ venueSubs = [s \in Sockets |-> {}]
    /\ told = [l \in Listeners |-> [a \in Assets |-> "none"]]
    /\ lastDelay = 0
    /\ destroyed = FALSE

-----------------------------------------------------------------------------
(* Helpers the handlers call. *)

GetReconnectDelayMs(attempt) ==
    IF attempt >= 4 THEN 16000 ELSE 1000 * 2^attempt

\* Mutant: connects although there is a socket.
ConnectIfNeeded_Unguarded ==
    \E s \in Sockets :
        /\ sock[s] = "none"
        /\ ws' = s
        /\ sock' = [sock EXCEPT ![s] = "connecting"]

\* A socket whose readyState is CLOSED is seen only inside its own close
\* handler, so outside it `ws` is Null or a socket that is not CLOSED.
ConnectIfNeeded ==
    \/ /\ ws # Null
       /\ UNCHANGED <<ws, sock>>
    \/ /\ ws = Null
       /\ \E s \in Sockets :
            /\ sock[s] = "none"
            /\ ws' = s
            /\ sock' = [sock EXCEPT ![s] = "connecting"]

\* What send puts on the wire: nothing unless the current socket is OPEN once
\* the handler has set ws' and sock'.
Send(subscribe, unsubscribe) ==
    venueSubs' = [s \in Sockets |->
                    IF ws' = s /\ sock'[s] = "open"
                    THEN (venueSubs[s] \ unsubscribe) \cup subscribe
                    ELSE venueSubs[s]]

SubscribeAssets(A) ==
    /\ subscribedAssets' = subscribedAssets \cup A
    /\ Send(A \ subscribedAssets, {})

UnsubscribeAssets(A) ==
    /\ subscribedAssets' = subscribedAssets \ A
    /\ Send({}, A \cap subscribedAssets)

\* Mutant: the socket opens without the subscription made meanwhile.
SendInitialSubscription_Omitted == Send({}, {})

SendInitialSubscription == Send(subscribedAssets, {})

\* Mutant: the close handler tells nobody.
MarkAllAssetsStale_Omitted == UNCHANGED told

\* Each attached listener is called once, with an update that names no asset.
MarkAllAssetsStale ==
    told' = [l \in Listeners |-> [a \in Assets |->
                IF l \in listeners[a] THEN "stale" ELSE told[l][a]]]

CachePrice(a, p) == latestPrices' = [latestPrices EXCEPT ![a] = p]

EmitToAsset(a, p) ==
    told' = [l \in Listeners |->
                IF l \in listeners[a] THEN [told[l] EXCEPT ![a] = p]
                ELSE told[l]]

\* Mutant: the interval goes on without the socket it was started for.
ClearHeartbeat_Omitted == UNCHANGED pingTimer
ClearHeartbeat == pingTimer' = FALSE

\* Mutant: gives up after AttemptCap attempts.
NoReconnectDue_GivesUp ==
    reconnectTimer # 0 \/ Attached = {} \/ reconnectAttempt = AttemptCap
NoReconnectDue == reconnectTimer # 0 \/ Attached = {}

ScheduleReconnect ==
    IF NoReconnectDue
    THEN UNCHANGED <<reconnectTimer, reconnectAttempt, lastDelay>>
    ELSE /\ reconnectTimer' = GetReconnectDelayMs(reconnectAttempt)
         /\ reconnectAttempt' = IF reconnectAttempt < AttemptCap
                                THEN reconnectAttempt + 1 ELSE AttemptCap
         /\ lastDelay' = GetReconnectDelayMs(reconnectAttempt)

-----------------------------------------------------------------------------
(* Calls of the service. *)

\* subscribe(assetIds, listener): a closure is attached at most once; a new
\* one has been told nothing yet.
Subscribe(l, A) ==
    /\ l \notin Attached
    /\ A # {}
    /\ listeners' = [a \in Assets |->
                        IF a \in A THEN listeners[a] \cup {l} ELSE listeners[a]]
    /\ told' = [told EXCEPT ![l] = [a \in Assets |-> "none"]]
    /\ ConnectIfNeeded
    /\ SubscribeAssets(A)
    /\ UNCHANGED <<latestPrices, reconnectAttempt, reconnectTimer, pingTimer,
                   lastDelay, destroyed>>

\* Mutant: unsubscribes every asset of the leaving listener, shared or not.
NoListenersAssets_Shared(l) == AssetsOf(l)
\* The assets nobody else listens to.
NoListenersAssets(l) == {a \in AssetsOf(l) : listeners[a] = {l}}

\* The function subscribe returned.
Unsubscribe(l) ==
    /\ l \in Attached
    /\ listeners' = [a \in Assets |-> listeners[a] \ {l}]
    /\ UNCHANGED <<ws, sock>>
    /\ UnsubscribeAssets(NoListenersAssets(l))
    /\ UNCHANGED <<latestPrices, reconnectAttempt, reconnectTimer, pingTimer,
                   told, lastDelay, destroyed>>

\* Closing a socket that is still connecting aborts its handshake: it never
\* opens, and its close event is still to come, as an open socket's is.
OnModuleDestroy ==
    /\ ~destroyed
    /\ destroyed' = TRUE
    /\ ClearHeartbeat
    /\ reconnectTimer' = 0
    /\ ws' = Null
    /\ sock' = [s \in Sockets |->
                    CASE s = ws /\ sock[s] = "open" -> "closing"
                      [] s = ws /\ sock[s] = "connecting" -> "aborting"
                      [] OTHER -> sock[s]]
    /\ UNCHANGED <<listeners, latestPrices, subscribedAssets,
                   reconnectAttempt, venueSubs, told, lastDelay>>

-----------------------------------------------------------------------------
(* Events of the sockets and of the reconnect timer. *)

\* Mutant: an open does not reset the attempts.
AttemptAfterOpen_Kept == reconnectAttempt
AttemptAfterOpen == 0

WsOpen(s) ==
    /\ sock[s] = "connecting"
    /\ sock' = [sock EXCEPT ![s] = "open"]
    /\ reconnectAttempt' = AttemptAfterOpen
    /\ lastDelay' = 0
    /\ pingTimer' = TRUE
    /\ UNCHANGED ws
    /\ SendInitialSubscription
    /\ UNCHANGED <<listeners, latestPrices, subscribedAssets, reconnectTimer,
                   told, destroyed>>

\* A last_trade_price, or a best_bid_ask with its mid price.  Every other
\* message (PONG, unparsable, an unknown type, a non-finite price) changes
\* nothing.  A tick sent before the venue saw an unsubscribe, or before it saw
\* the close, still arrives, so `a` is any asset and `s` may be closing.
HandleMessage(s, a, p) ==
    /\ sock[s] \in {"open", "closing"}
    /\ CachePrice(a, p)
    /\ EmitToAsset(a, p)
    /\ UNCHANGED <<listeners, subscribedAssets, reconnectAttempt, ws,
                   reconnectTimer, pingTimer, sock, venueSubs, lastDelay,
                   destroyed>>

\* The venue ends an open connection: its readyState is CLOSING until the close
\* event, of which the service hears nothing yet, so it keeps the socket and
\* the heartbeat although it can send no more.  (A failing handshake is CLOSING
\* too; to the service that is as if it were still connecting.)
VenueCloses(s) ==
    /\ sock[s] = "open"
    /\ sock' = [sock EXCEPT ![s] = "closing"]
    /\ UNCHANGED <<serviceVars, venueSubs, told, lastDelay, destroyed>>

\* The close event of any socket: one that was closing, or that broke off at
\* once, also one that failed to connect (its error event only logs) and one
\* the service no longer refers to.
WsClose(s) ==
    /\ sock[s] # "none"
    /\ sock' = [sock EXCEPT ![s] = "none"]
    /\ venueSubs' = [venueSubs EXCEPT ![s] = {}]
    /\ MarkAllAssetsStale
    /\ ClearHeartbeat
    /\ ws' = Null
    /\ ScheduleReconnect
    /\ UNCHANGED <<listeners, latestPrices, subscribedAssets, destroyed>>

ReconnectTimerFires ==
    /\ reconnectTimer # 0
    /\ reconnectTimer' = 0
    /\ ConnectIfNeeded
    /\ UNCHANGED <<listeners, latestPrices, subscribedAssets,
                   reconnectAttempt, pingTimer, venueSubs, told, lastDelay,
                   destroyed>>

Next ==
    \/ \E l \in Listeners, A \in SUBSET Assets : Subscribe(l, A)
    \/ \E l \in Listeners : Unsubscribe(l)
    \/ OnModuleDestroy
    \/ \E s \in Sockets : WsOpen(s) \/ VenueCloses(s) \/ WsClose(s)
    \/ \E s \in Sockets, a \in Assets, p \in Prices : HandleMessage(s, a, p)
    \/ ReconnectTimerFires

Spec == Init /\ [][Next]_vars

-----------------------------------------------------------------------------
(* Properties; what must eventually happen is PriceFeed's. *)

\* The service asks the venue for exactly the assets somebody listens to:
\* neither a subscription nobody uses nor a listener nobody feeds.
SubscribedMirrorsListeners ==
    subscribedAssets = {a \in Assets : listeners[a] # {}}

\* The connection the service refers to carries exactly that subscription once
\* it is open, although what is sent while it connects is dropped and a
\* subscription may change at any time in between.
UpstreamAgrees ==
    IsOpen(ws) => venueSubs[ws] = subscribedAssets

\* While somebody listens there is a socket or a pending reconnect: no order
\* of closes, timers, joins and leaves strands the listeners.
NoLostReconnect ==
    (Attached # {} /\ ~destroyed) => ws # Null \/ reconnectTimer # 0

\* Until the module is destroyed at most one upstream socket is alive, the one
\* the service refers to, and the heartbeat runs exactly from its open event to
\* its close event, the time it is closing included.
OneUpstreamSocket ==
    ~destroyed => /\ Alive = {ws} \ {Null}
                  /\ pingTimer <=> HasOpened(ws)

\* No listener believes in a live price while no socket can deliver one: the
\* close handler reaches every listener attached by then.
StaleWhileDown ==
    (\A s \in Sockets : sock[s] \notin {"open", "closing"}) =>
        \A a \in Assets : \A l \in listeners[a] : told[l][a] \notin Prices

\* Two listeners of one asset never hold different live prices, and neither
\* holds one that the cache does not.
ListenersAgreeWithCache ==
    \A a \in Assets : \A l \in listeners[a] :
        told[l][a] \in Prices => told[l][a] = latestPrices[a]

\* Between two opens the reconnect delays start at one second and double up to
\* sixteen, whatever listeners come and go meanwhile.
BackoffDoubles ==
    [][ (reconnectTimer = 0 /\ reconnectTimer' # 0) =>
          reconnectTimer' = IF lastDelay = 0 THEN 1000
                            ELSE IF lastDelay = 16000 THEN 16000
                            ELSE 2 * lastDelay ]_vars
=============================================================================
