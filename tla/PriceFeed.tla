----------------------------- MODULE PriceFeed ------------------------------
(***************************************************************************)
(* PositionsGateway and PositionsPriceService on top of the market stream: *)
(* a client connects, its open positions are fetched, and from then on it  *)
(* gets a position_price event per position, from ticks, from outages and  *)
(* from a periodic snapshot.  A client and its listener closure are one    *)
(* member of Listeners, a slot: once a client left nothing behind, its slot *)
(* stands for the next client to come.                                     *)
(*                                                                         *)
(* The only await between a connection and its registered disconnect       *)
(* handler is getOpenPositions; all that follows its answer runs without   *)
(* another event in between, so it is one action.  A behaviour is the life *)
(* of one process: nothing of it survives, and the next one begins anew.   *)
(***************************************************************************)
EXTENDS MarketStream

VARIABLES
    phase,               \* where handleConnection of each client is
    connected,           \* clients whose socket.io connection is up
    disconnectHandlers,  \* clients whose unsubscribe function is registered
    intervals,           \* clients whose periodic snapshot interval runs
    view,                \* last position_price each client got per position
    crashed              \* an unhandled rejection has ended the process

gatewayVars == <<phase, connected, disconnectHandlers, intervals>>
feedVars == <<vars, gatewayVars, view, crashed>>

Phases == {"new", "fetching", "answered", "rejected"}

FeedTypeOK ==
    /\ TypeOK
    /\ phase \in [Listeners -> Phases]
    /\ connected \in SUBSET Listeners
    /\ disconnectHandlers \in SUBSET Listeners
    /\ intervals \in SUBSET Listeners
    /\ view \in [Listeners -> [Assets -> Prices \cup {"none", "stale"}]]
    /\ crashed \in BOOLEAN

FeedInit ==
    /\ Init
    /\ phase = [c \in Listeners |-> "new"]
    /\ connected = {}
    /\ disconnectHandlers = {}
    /\ intervals = {}
    /\ view = [c \in Listeners |-> [a \in Assets |-> "none"]]
    /\ crashed = FALSE

-----------------------------------------------------------------------------
(* position_price events: none reaches a client that is gone. *)

\* Mutant: a snapshot never looks at the cache.
SnapshotOf_Uncached(a) == "stale"
\* What a snapshot says of a position: its cached price, or stale without one.
SnapshotOf(a) == IF latestPrices[a] = "none" THEN "stale" ELSE latestPrices[a]

EmitSnapshot(c, A) ==
    view' = IF c \notin connected THEN view
            ELSE [view EXCEPT ![c] =
                    [a \in Assets |-> IF a \in A THEN SnapshotOf(a) ELSE @[a]]]

\* The listener's answer to a price.
EmitTick(a, p) ==
    view' = [c \in Listeners |-> IF c \in listeners[a] \cap connected
                                 THEN [view[c] EXCEPT ![a] = p] ELSE view[c]]

\* Mutant: an outage is told to one listener of an asset only.
EmitStale_FirstOnly ==
    view' = [c \in Listeners |-> [a \in Assets |->
                IF /\ c \in listeners[a] \cap connected
                   /\ c = CHOOSE d \in listeners[a] \cap connected : TRUE
                THEN "stale" ELSE view[c][a]]]
\* The listener's answer to an update that is stale.
EmitStale ==
    view' = [c \in Listeners |-> [a \in Assets |->
                IF c \in listeners[a] \cap connected THEN "stale"
                ELSE view[c][a]]]

-----------------------------------------------------------------------------
(* The gateway. *)

\* Events are handled as long as nothing ended the process.
Running == ~crashed /\ UNCHANGED crashed

\* handleConnection without a valid address: an error event and a disconnect,
\* whose event follows.
RejectConnection(c) ==
    /\ Running
    /\ phase[c] = "new"
    /\ phase' = [phase EXCEPT ![c] = "rejected"]
    /\ connected' = connected \cup {c}
    /\ UNCHANGED <<vars, disconnectHandlers, intervals, view>>

\* handleConnection up to the await in subscribeUser.
HandleConnection(c) ==
    /\ Running
    /\ phase[c] = "new"
    /\ phase' = [phase EXCEPT ![c] = "fetching"]
    /\ connected' = connected \cup {c}
    /\ UNCHANGED <<vars, disconnectHandlers, intervals, view>>

\* getOpenPositions answers with the assets A: subscribeUser runs to its end
\* and handleConnection registers what it returned and says 'subscribed'.
\* Nothing asks whether the client is still there.
PositionsFetched(c, A) ==
    /\ Running
    /\ phase[c] = "fetching"
    /\ A # {}
    /\ phase' = [phase EXCEPT ![c] = "answered"]
    /\ EmitSnapshot(c, A)
    /\ intervals' = intervals \cup {c}
    /\ Subscribe(c, A)
    /\ disconnectHandlers' = disconnectHandlers \cup {c}
    /\ UNCHANGED connected

\* No open positions: the function registered does nothing.
NoPositionsFetched(c) ==
    /\ Running
    /\ phase[c] = "fetching"
    /\ phase' = [phase EXCEPT ![c] = "answered"]
    /\ disconnectHandlers' = disconnectHandlers \cup {c}
    /\ UNCHANGED <<vars, connected, intervals, view>>

\* getOpenPositions throws and handleConnection rejects.  Nobody awaits that
\* promise and nothing handles unhandled rejections: the process ends.
FetchFails(c) ==
    /\ ~crashed
    /\ phase[c] = "fetching"
    /\ crashed' = TRUE
    /\ UNCHANGED <<vars, gatewayVars, view>>

\* Mutant: the stream is unsubscribed, the interval goes on.
StopFeed_LeavesInterval(c) == UNCHANGED intervals /\ Unsubscribe(c)
\* The function subscribeUser returned for positions.
StopFeed(c) ==
    /\ intervals' = intervals \ {c}
    /\ Unsubscribe(c)

\* Mutant: the handler of a client that left stays registered.
DropHandler_Omitted(c) == UNCHANGED disconnectHandlers
DropHandler(c) == disconnectHandlers' = disconnectHandlers \ {c}

HandleDisconnect(c) ==
    /\ Running
    /\ c \in connected
    /\ connected' = connected \ {c}
    /\ IF c \in disconnectHandlers \cap intervals THEN StopFeed(c)
       ELSE UNCHANGED <<vars, intervals>>
    /\ DropHandler(c)
    /\ phase' = [phase EXCEPT ![c] = IF @ = "fetching" THEN @ ELSE "new"]
    /\ view' = [view EXCEPT ![c] = [a \in Assets |-> "none"]]

PeriodicSnapshot(c) ==
    /\ Running
    /\ c \in intervals
    /\ EmitSnapshot(c, AssetsOf(c))
    /\ UNCHANGED <<vars, gatewayVars>>

-----------------------------------------------------------------------------
(* The stream's own steps, seen by the clients. *)

StreamMessage ==
    /\ Running
    /\ \E s \in Sockets, a \in Assets, p \in Prices :
          HandleMessage(s, a, p) /\ EmitTick(a, p)
    /\ UNCHANGED gatewayVars

StreamClose ==
    /\ Running
    /\ \E s \in Sockets : WsClose(s) /\ EmitStale
    /\ UNCHANGED gatewayVars

StreamSilent ==
    /\ Running
    /\ \/ \E s \in Sockets : WsOpen(s) \/ VenueCloses(s)
       \/ ReconnectTimerFires
       \/ OnModuleDestroy
    /\ UNCHANGED <<gatewayVars, view>>

FeedNext ==
    \/ \E c \in Listeners :
          \/ RejectConnection(c)
          \/ HandleConnection(c)
          \/ \E A \in SUBSET Assets : PositionsFetched(c, A)
          \/ NoPositionsFetched(c)
          \/ FetchFails(c)
          \/ HandleDisconnect(c)
          \/ PeriodicSnapshot(c)
    \/ StreamMessage
    \/ StreamClose
    \/ StreamSilent

FeedSpec == FeedInit /\ [][FeedNext]_feedVars

\* As long as the process runs, the event loop fires the reconnect timer and
\* the intervals that are due, and the ws library ends a closing socket, by a
\* timeout of its own if need be.  The venue, an environment assumption, does
\* not refuse every connection attempt for ever.
FeedFairness ==
    /\ WF_vars(~crashed /\ ReconnectTimerFires)
    /\ \A s \in Sockets :
          /\ WF_vars(~crashed /\ sock[s] = "closing" /\ WsClose(s))
          /\ SF_vars(~crashed /\ WsOpen(s))
    /\ \A c \in Listeners : WF_view(PeriodicSnapshot(c))

FairFeedSpec == FeedSpec /\ FeedFairness

-----------------------------------------------------------------------------
(* Properties. *)

\* The clients that are there and have a feed.
Watching(c, a) == c \in connected /\ c \in listeners[a]

\* The feed implements the board: the cache is the board, and a watching
\* client's last event is its cell.
Board == INSTANCE PriceBoard WITH
    Clients <- Listeners,
    board <- latestPrices,
    cells <- [c \in Listeners |-> [a \in Assets |->
                 IF Watching(c, a) THEN view[c][a] ELSE "none"]]
BoardSpec == Board!Spec
ClientsAgree == Board!CellsAgree

\* An interval, an attached listener and a registered handler that stops both
\* stand and fall together, for each client that is still there.
FeedIsWhole ==
    /\ intervals = Attached
    /\ \A c \in connected : c \in Attached => c \in disconnectHandlers
    /\ \A c \in connected, a \in Assets : c \in listeners[a]
                                             => view[c][a] # "none"

\* Only a client that left before its positions arrived can leave anything
\* behind: whoever is answered while connected is cleaned up for good.
LeftoversAreEarlyLeavers ==
    [][ \A c \in connected :
          phase[c] # "fetching" /\ c \notin connected'
            => c \notin Attached' /\ c \notin intervals'
               /\ c \notin disconnectHandlers' ]_feedVars

\* An open connection carries the asset.
Served(a) == IsOpen(ws) /\ a \in venueSubs[ws]

\* An asset somebody listens to is eventually carried by an open connection,
\* through closes by either side and refused attempts, unless nobody listens
\* to it any more, the module is destroyed or the process ends.
ListenersEventuallyServed ==
    \A a \in Assets :
        listeners[a] # {}
            ~> (Served(a) \/ listeners[a] = {} \/ destroyed \/ crashed)

\* While an open connection carries an asset, a watching client comes to see
\* the last price the backend knows of it, ticks or no ticks: the periodic
\* snapshots repair the marks an outage left once it is over.
SnapshotsRepairView ==
    \A c \in Listeners, a \in Assets, p \in Prices :
        (Watching(c, a) /\ Served(a) /\ latestPrices[a] = p)
            ~> (\/ view[c][a] = p
                \/ ~Watching(c, a) \/ ~Served(a) \/ latestPrices[a] # p
                \/ crashed)

\* What the gateway logs when a client disconnects, "unsubscribed cleanly":
\* a client that is gone has no interval and no listener.
NothingLeftBehind ==
    \A c \in Listeners :
        c \in intervals \cup Attached => c \in connected

\* "stale: true means market price is unavailable/stale at that moment": a
\* client is not shown a price as live while no socket can deliver one.
StaleMeansUnavailable ==
    (\A s \in Sockets : sock[s] \notin {"open", "closing"}) =>
        \A c \in Listeners, a \in Assets :
            Watching(c, a) => view[c][a] \notin Prices
=============================================================================
