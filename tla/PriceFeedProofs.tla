--------------------------- MODULE PriceFeedProofs ---------------------------
(***************************************************************************)
(* MarketStream and PriceFeed, for any clients, assets, sockets and prices.*)
(* First the stream by itself: most of its properties are inductive next   *)
(* to TypeOK alone; where one is not, its strengthening is defined just    *)
(* before it.  Then the feed: it implements the stream it is composed      *)
(* with, so the stream's theorems are its own, and it implements the price *)
(* board.                                                                  *)
(***************************************************************************)
EXTENDS PriceFeed, TLAPS

-----------------------------------------------------------------------------
(* Lemmas on the helpers. *)

\* The backoff formula, value by value: 1, 2, 4, 8 and then 16 seconds.
LEMMA DelayValues ==
    ASSUME NEW n \in Nat
    PROVE  GetReconnectDelayMs(n) = IF n = 0 THEN 1000
                                    ELSE IF n = 1 THEN 2000
                                    ELSE IF n = 2 THEN 4000
                                    ELSE IF n = 3 THEN 8000
                                    ELSE 16000
<1>1. 2^0 = 1 /\ 2^1 = 2 /\ 2^2 = 4 /\ 2^3 = 8
  OBVIOUS
<1>2. CASE n = 0
  BY <1>1, <1>2 DEF GetReconnectDelayMs
<1>3. CASE n = 1
  BY <1>1, <1>3 DEF GetReconnectDelayMs
<1>4. CASE n = 2
  BY <1>1, <1>4 DEF GetReconnectDelayMs
<1>5. CASE n = 3
  BY <1>1, <1>5 DEF GetReconnectDelayMs
<1>6. CASE n >= 4
  BY <1>6 DEF GetReconnectDelayMs
<1>7. QED
  BY <1>2, <1>3, <1>4, <1>5, <1>6

\* connectIfNeeded leaves the service with a socket, touches no other socket,
\* and makes at most a connecting one.
LEMMA ConnectIfNeededEffect ==
    ASSUME TypeOK, ConnectIfNeeded
    PROVE  /\ ws' \in Sockets
           /\ ws # Null => ws' = ws /\ sock' = sock
           /\ ws = Null => /\ sock[ws'] = "none"
                           /\ sock' = [sock EXCEPT ![ws'] = "connecting"]
           /\ sock' \in [Sockets -> {"none", "connecting", "open", "closing",
                                     "aborting"}]
           /\ sock'[ws'] # "open" \/ (ws' = ws /\ sock' = sock)
  BY NullAssumption DEF TypeOK, ConnectIfNeeded

\* scheduleReconnect leaves well-typed timers, and a pending one if anybody
\* is attached.
LEMMA ScheduleReconnectEffect ==
    ASSUME TypeOK, ScheduleReconnect
    PROVE  /\ reconnectTimer' \in Nat
           /\ reconnectAttempt' \in 0..AttemptCap
           /\ lastDelay' \in Nat
           /\ Attached # {} => reconnectTimer' # 0
<1>1. reconnectAttempt \in Nat
  BY DEF TypeOK
<1>2. GetReconnectDelayMs(reconnectAttempt) \in Nat \ {0}
  BY <1>1, DelayValues
<1>3. QED
  BY <1>2, AttemptCapAssumption DEF TypeOK, ScheduleReconnect, NoReconnectDue

-----------------------------------------------------------------------------
(* Type correctness. *)

LEMMA TypeInit == Init => TypeOK
<1> SUFFICES ASSUME Init PROVE TypeOK
  OBVIOUS
<1>1. told \in [Listeners -> [Assets -> Prices \cup {"none", "stale"}]]
  BY DEF Init
<1>2. sock \in [Sockets -> {"none", "connecting", "open", "closing",
                            "aborting"}]
  BY DEF Init
<1>3. 0 \in 0..AttemptCap
  BY AttemptCapAssumption
<1>4. QED
  BY <1>1, <1>2, <1>3 DEF Init, TypeOK

LEMMA TypeStep == TypeOK /\ [Next]_vars => TypeOK'
<1> SUFFICES ASSUME TypeOK, [Next]_vars PROVE TypeOK'
  OBVIOUS
<1>1. ASSUME NEW l \in Listeners, NEW A \in SUBSET Assets, Subscribe(l, A)
      PROVE  TypeOK'
  <2>1. ConnectIfNeeded
    BY <1>1 DEF Subscribe
  <2>2. ws' \in Sockets /\ sock' \in [Sockets -> {"none", "connecting",
                                        "open", "closing", "aborting"}]
    BY <2>1, ConnectIfNeededEffect
  <2>3. venueSubs' \in [Sockets -> SUBSET Assets]
    BY <1>1 DEF TypeOK, Subscribe, SubscribeAssets, Send
  <2>4. QED
    BY <1>1, <2>2, <2>3 DEF TypeOK, Subscribe, SubscribeAssets
<1>2. ASSUME NEW l \in Listeners, Unsubscribe(l) PROVE TypeOK'
  BY <1>2 DEF TypeOK, Unsubscribe, NoListenersAssets, UnsubscribeAssets, Send
<1>3. ASSUME OnModuleDestroy PROVE TypeOK'
  BY <1>3 DEF TypeOK, OnModuleDestroy, ClearHeartbeat
<1>4. ASSUME NEW s \in Sockets, WsOpen(s) PROVE TypeOK'
  BY <1>4, AttemptCapAssumption
  DEF TypeOK, WsOpen, AttemptAfterOpen, SendInitialSubscription, Send
<1>5. ASSUME NEW s \in Sockets, WsClose(s) PROVE TypeOK'
  <2>1. ScheduleReconnect
    BY <1>5 DEF WsClose
  <2>2. /\ reconnectTimer' \in Nat
        /\ reconnectAttempt' \in 0..AttemptCap
        /\ lastDelay' \in Nat
    BY <2>1, ScheduleReconnectEffect
  <2>3. QED
    BY <1>5, <2>2 DEF TypeOK, WsClose, MarkAllAssetsStale, ClearHeartbeat
<1>6. ASSUME NEW s \in Sockets, NEW a \in Assets, NEW p \in Prices,
             HandleMessage(s, a, p)
      PROVE  TypeOK'
  BY <1>6 DEF TypeOK, HandleMessage, CachePrice, EmitToAsset
<1>7. ASSUME ReconnectTimerFires PROVE TypeOK'
  <2>1. ConnectIfNeeded
    BY <1>7 DEF ReconnectTimerFires
  <2>2. ws' \in Sockets /\ sock' \in [Sockets -> {"none", "connecting",
                                        "open", "closing", "aborting"}]
    BY <2>1, ConnectIfNeededEffect
  <2>3. QED
    BY <1>7, <2>2 DEF TypeOK, ReconnectTimerFires
<1>8. ASSUME NEW s \in Sockets, VenueCloses(s) PROVE TypeOK'
  BY <1>8 DEF TypeOK, VenueCloses, serviceVars
<1>9. ASSUME UNCHANGED vars PROVE TypeOK'
  BY <1>9 DEF TypeOK, vars, serviceVars
<1>10. QED
  BY <1>1, <1>2, <1>3, <1>4, <1>5, <1>6, <1>7, <1>8, <1>9 DEF Next

\* Every variable keeps its type, with any number of assets, listeners and
\* sockets.
THEOREM TypeCorrect == Spec => []TypeOK
  BY TypeInit, TypeStep, PTL DEF Spec

-----------------------------------------------------------------------------
(* The subscription: what the service asks for, and what the venue was asked *)

LEMMA MirrorStep ==
    TypeOK /\ SubscribedMirrorsListeners /\ [Next]_vars
      => SubscribedMirrorsListeners'
<1> SUFFICES ASSUME TypeOK, SubscribedMirrorsListeners, [Next]_vars
             PROVE  SubscribedMirrorsListeners'
  OBVIOUS
<1> USE DEF TypeOK, SubscribedMirrorsListeners
<1>1. ASSUME NEW l \in Listeners, NEW A \in SUBSET Assets, Subscribe(l, A)
      PROVE  SubscribedMirrorsListeners'
  BY <1>1 DEF Subscribe, SubscribeAssets
<1>2. ASSUME NEW l \in Listeners, Unsubscribe(l)
      PROVE  SubscribedMirrorsListeners'
  BY <1>2 DEF Unsubscribe, NoListenersAssets, UnsubscribeAssets, AssetsOf
<1>3. CASE UNCHANGED <<listeners, subscribedAssets>>
  BY <1>3
<1>4. QED
  BY <1>1, <1>2, <1>3 DEF Next, vars, serviceVars, OnModuleDestroy, WsOpen,
     VenueCloses, WsClose, HandleMessage, ReconnectTimerFires

\* The service never asks the venue for more or less than its listeners want.
THEOREM MirrorCorrect == Spec => []SubscribedMirrorsListeners
<1>1. Init => SubscribedMirrorsListeners
  BY DEF Init, SubscribedMirrorsListeners
<1>2. QED
  BY <1>1, TypeCorrect, MirrorStep, PTL DEF Spec

\* UpstreamAgrees is not inductive: a socket opens with what it was asked for
\* while connecting, which must have been nothing.
FreshUntilOpen ==
    \A s \in Sockets : sock[s] \in {"none", "connecting"} => venueSubs[s] = {}
Upstream == FreshUntilOpen /\ UpstreamAgrees

LEMMA UpstreamStep == TypeOK /\ Upstream /\ [Next]_vars => Upstream'
<1> SUFFICES ASSUME TypeOK, Upstream, [Next]_vars PROVE Upstream'
  OBVIOUS
<1> USE DEF Upstream, FreshUntilOpen, UpstreamAgrees, IsOpen
<1>1. ASSUME NEW l \in Listeners, NEW A \in SUBSET Assets, Subscribe(l, A)
      PROVE  Upstream'
  <2>1. ConnectIfNeeded
    BY <1>1 DEF Subscribe
  <2>2. /\ subscribedAssets' = subscribedAssets \cup A
        /\ venueSubs' = [s \in Sockets |->
                           IF ws' = s /\ sock'[s] = "open"
                           THEN (venueSubs[s] \ {}) \cup (A \ subscribedAssets)
                           ELSE venueSubs[s]]
    BY <1>1 DEF Subscribe, SubscribeAssets, Send
  <2>3. CASE ws # Null
    <3>1. ws' = ws /\ sock' = sock
      BY <2>1, <2>3, ConnectIfNeededEffect
    <3>2. QED
      BY <3>1, <2>2 DEF TypeOK
  <2>4. CASE ws = Null
    <3>1. /\ ws' \in Sockets
          /\ sock[ws'] = "none"
          /\ sock' = [sock EXCEPT ![ws'] = "connecting"]
      BY <2>1, <2>4, ConnectIfNeededEffect
    <3>2. sock'[ws'] = "connecting" /\ venueSubs' = venueSubs
      BY <3>1, <2>2 DEF TypeOK
    <3>3. QED
      BY <3>1, <3>2 DEF TypeOK
  <2>5. QED
    BY <2>3, <2>4
<1>2. ASSUME NEW l \in Listeners, Unsubscribe(l) PROVE Upstream'
  BY <1>2 DEF TypeOK, Unsubscribe, NoListenersAssets, UnsubscribeAssets, Send
<1>3. ASSUME OnModuleDestroy PROVE Upstream'
  BY <1>3 DEF TypeOK, OnModuleDestroy
<1>4. ASSUME NEW s \in Sockets, WsOpen(s) PROVE Upstream'
  BY <1>4 DEF TypeOK, WsOpen, AttemptAfterOpen, SendInitialSubscription, Send
<1>5. ASSUME NEW s \in Sockets, WsClose(s) PROVE Upstream'
  BY <1>5 DEF TypeOK, WsClose
<1>6. ASSUME NEW s \in Sockets, NEW a \in Assets, NEW p \in Prices,
             HandleMessage(s, a, p)
      PROVE  Upstream'
  BY <1>6 DEF HandleMessage, CachePrice
<1>7. ASSUME ReconnectTimerFires PROVE Upstream'
  <2>1. ConnectIfNeeded /\ venueSubs' = venueSubs
                        /\ subscribedAssets' = subscribedAssets
    BY <1>7 DEF ReconnectTimerFires
  <2>2. CASE ws # Null
    BY <2>1, <2>2, ConnectIfNeededEffect
  <2>3. CASE ws = Null
    <3>1. /\ ws' \in Sockets
          /\ sock[ws'] = "none"
          /\ sock' = [sock EXCEPT ![ws'] = "connecting"]
      BY <2>1, <2>3, ConnectIfNeededEffect
    <3>2. QED
      BY <3>1, <2>1 DEF TypeOK
  <2>4. QED
    BY <2>2, <2>3
<1>8. ASSUME NEW s \in Sockets, VenueCloses(s) PROVE Upstream'
  BY <1>8 DEF TypeOK, VenueCloses, serviceVars
<1>9. ASSUME UNCHANGED vars PROVE Upstream'
  BY <1>9 DEF vars, serviceVars
<1>10. QED
  BY <1>1, <1>2, <1>3, <1>4, <1>5, <1>6, <1>7, <1>8, <1>9 DEF Next

\* An open connection carries exactly the subscription of the service, although
\* what is sent while it connects is dropped.
THEOREM UpstreamCorrect == Spec => []UpstreamAgrees
<1>1. Init => Upstream
  BY DEF Init, Upstream, FreshUntilOpen, UpstreamAgrees, IsOpen
<1>2. Upstream => UpstreamAgrees
  BY DEF Upstream
<1>3. QED
  BY <1>1, <1>2, TypeCorrect, UpstreamStep, PTL DEF Spec

-----------------------------------------------------------------------------
(* The connection: never stranded, never doubled. *)

LEMMA ReconnectStep ==
    TypeOK /\ NoLostReconnect /\ [Next]_vars => NoLostReconnect'
<1> SUFFICES ASSUME TypeOK, NoLostReconnect, [Next]_vars
             PROVE  NoLostReconnect'
  OBVIOUS
<1> USE DEF NoLostReconnect
<1>1. ASSUME NEW l \in Listeners, NEW A \in SUBSET Assets, Subscribe(l, A)
      PROVE  NoLostReconnect'
  <2>1. ws' # Null
    BY <1>1, ConnectIfNeededEffect, NullAssumption DEF Subscribe
  <2>2. QED
    BY <2>1
<1>2. ASSUME NEW l \in Listeners, Unsubscribe(l) PROVE NoLostReconnect'
  BY <1>2 DEF TypeOK, Unsubscribe, Attached
<1>3. ASSUME OnModuleDestroy PROVE NoLostReconnect'
  BY <1>3 DEF OnModuleDestroy
<1>4. ASSUME NEW s \in Sockets, WsOpen(s) PROVE NoLostReconnect'
  BY <1>4 DEF WsOpen, Attached
<1>5. ASSUME NEW s \in Sockets, WsClose(s) PROVE NoLostReconnect'
  <2>1. Attached' = Attached
    BY <1>5 DEF WsClose, Attached
  <2>2. Attached # {} => reconnectTimer' # 0
    BY <1>5, ScheduleReconnectEffect DEF WsClose
  <2>3. QED
    BY <2>1, <2>2
<1>6. ASSUME NEW s \in Sockets, NEW a \in Assets, NEW p \in Prices,
             HandleMessage(s, a, p)
      PROVE  NoLostReconnect'
  BY <1>6 DEF HandleMessage, CachePrice, Attached
<1>7. ASSUME ReconnectTimerFires PROVE NoLostReconnect'
  BY <1>7, ConnectIfNeededEffect, NullAssumption DEF ReconnectTimerFires
<1>8. ASSUME NEW s \in Sockets, VenueCloses(s) PROVE NoLostReconnect'
  BY <1>8 DEF VenueCloses, serviceVars, Attached
<1>9. ASSUME UNCHANGED vars PROVE NoLostReconnect'
  BY <1>9 DEF vars, serviceVars, Attached
<1>10. QED
  BY <1>1, <1>2, <1>3, <1>4, <1>5, <1>6, <1>7, <1>8, <1>9 DEF Next

\* No order of closes, timers, joins and leaves strands the listeners without
\* a socket and without a pending reconnect.
THEOREM ReconnectCorrect == Spec => []NoLostReconnect
<1>1. Init => NoLostReconnect
  BY DEF Init, NoLostReconnect, Attached
<1>2. QED
  BY <1>1, TypeCorrect, ReconnectStep, PTL DEF Spec

LEMMA OneSocketStep ==
    TypeOK /\ OneUpstreamSocket /\ [Next]_vars => OneUpstreamSocket'
<1> SUFFICES ASSUME TypeOK, OneUpstreamSocket, [Next]_vars
             PROVE  OneUpstreamSocket'
  OBVIOUS
<1> USE DEF OneUpstreamSocket, Alive, HasOpened, ClearHeartbeat
<1>1. ASSUME ConnectIfNeeded, UNCHANGED <<pingTimer, destroyed>>
      PROVE  OneUpstreamSocket'
  <2>1. CASE ws # Null
    BY <1>1, <2>1, ConnectIfNeededEffect
  <2>2. CASE ws = Null
    <3>1. /\ ws' \in Sockets
          /\ sock[ws'] = "none"
          /\ sock' = [sock EXCEPT ![ws'] = "connecting"]
      BY <1>1, <2>2, ConnectIfNeededEffect
    <3>2. QED
      BY <1>1, <2>2, <3>1, NullAssumption DEF TypeOK
  <2>3. QED
    BY <2>1, <2>2
<1>2. ASSUME NEW l \in Listeners, NEW A \in SUBSET Assets, Subscribe(l, A)
      PROVE  OneUpstreamSocket'
  BY <1>1, <1>2 DEF Subscribe
<1>3. ASSUME NEW l \in Listeners, Unsubscribe(l) PROVE OneUpstreamSocket'
  BY <1>3 DEF Unsubscribe
<1>4. ASSUME OnModuleDestroy PROVE OneUpstreamSocket'
  BY <1>4 DEF OnModuleDestroy
<1>5. ASSUME NEW s \in Sockets, WsOpen(s) PROVE OneUpstreamSocket'
  BY <1>5, NullAssumption DEF TypeOK, WsOpen
<1>6. ASSUME NEW s \in Sockets, WsClose(s) PROVE OneUpstreamSocket'
  BY <1>6, NullAssumption DEF TypeOK, WsClose
<1>7. ASSUME NEW s \in Sockets, NEW a \in Assets, NEW p \in Prices,
             HandleMessage(s, a, p)
      PROVE  OneUpstreamSocket'
  BY <1>7 DEF HandleMessage, CachePrice
<1>8. ASSUME ReconnectTimerFires PROVE OneUpstreamSocket'
  BY <1>1, <1>8 DEF ReconnectTimerFires
<1>9. ASSUME NEW s \in Sockets, VenueCloses(s) PROVE OneUpstreamSocket'
  BY <1>9, NullAssumption DEF TypeOK, VenueCloses, serviceVars
<1>10. ASSUME UNCHANGED vars PROVE OneUpstreamSocket'
  BY <1>10 DEF vars, serviceVars
<1>11. QED
  BY <1>2, <1>3, <1>4, <1>5, <1>6, <1>7, <1>8, <1>9, <1>10 DEF Next

\* Until the module is destroyed no two upstream sockets are alive at once,
\* and the heartbeat runs exactly from the open event of the one there is to
\* its close event, so also while the venue is closing it.
THEOREM OneSocketCorrect == Spec => []OneUpstreamSocket
<1>1. Init => OneUpstreamSocket
  BY NullAssumption DEF Init, OneUpstreamSocket, Alive, HasOpened
<1>2. QED
  BY <1>1, TypeCorrect, OneSocketStep, PTL DEF Spec

-----------------------------------------------------------------------------
(* What the listeners were told. *)

LEMMA StaleStep == TypeOK /\ StaleWhileDown /\ [Next]_vars => StaleWhileDown'
<1> SUFFICES ASSUME TypeOK, StaleWhileDown, [Next]_vars PROVE StaleWhileDown'
  OBVIOUS
<1> DEFINE Down == \A s \in Sockets : sock[s] \notin {"open", "closing"}
<1> USE DEF StaleWhileDown
<1>1. ConnectIfNeeded /\ Down' => Down
  BY DEF TypeOK, ConnectIfNeeded
<1>2. ASSUME NEW l \in Listeners, NEW A \in SUBSET Assets, Subscribe(l, A)
      PROVE  StaleWhileDown'
  <2>1. Down' => Down
    BY <1>1, <1>2 DEF Subscribe
  <2>2. \A b \in Assets : told'[l][b] = "none"
    BY <1>2 DEF TypeOK, Subscribe
  <2>3. \A m \in Listeners \ {l} : told'[m] = told[m]
    BY <1>2 DEF TypeOK, Subscribe
  <2>4. \A b \in Assets : listeners'[b] \subseteq listeners[b] \cup {l}
    BY <1>2 DEF TypeOK, Subscribe
  <2>5. QED
    BY <2>1, <2>2, <2>3, <2>4, PricesAssumption DEF TypeOK
<1>3. ASSUME NEW l \in Listeners, Unsubscribe(l) PROVE StaleWhileDown'
  BY <1>3 DEF TypeOK, Unsubscribe
<1>4. ASSUME OnModuleDestroy PROVE StaleWhileDown'
  <2>1. Down' => Down
    BY <1>4 DEF TypeOK, OnModuleDestroy
  <2>2. QED
    BY <1>4, <2>1 DEF OnModuleDestroy
<1>5. ASSUME NEW s \in Sockets, WsOpen(s) PROVE StaleWhileDown'
  BY <1>5 DEF TypeOK, WsOpen
<1>6. ASSUME NEW s \in Sockets, WsClose(s) PROVE StaleWhileDown'
  BY <1>6, PricesAssumption DEF TypeOK, WsClose, MarkAllAssetsStale
<1>7. ASSUME NEW s \in Sockets, NEW a \in Assets, NEW p \in Prices,
             HandleMessage(s, a, p)
      PROVE  StaleWhileDown'
  BY <1>7 DEF HandleMessage, CachePrice
<1>8. ASSUME ReconnectTimerFires PROVE StaleWhileDown'
  BY <1>1, <1>8 DEF ReconnectTimerFires
<1>9. ASSUME NEW s \in Sockets, VenueCloses(s) PROVE StaleWhileDown'
  <2>1. Down' => Down
    BY <1>9 DEF TypeOK, VenueCloses
  <2>2. QED
    BY <1>9, <2>1 DEF VenueCloses, serviceVars
<1>10. ASSUME UNCHANGED vars PROVE StaleWhileDown'
  BY <1>10 DEF vars, serviceVars
<1>11. QED
  BY <1>2, <1>3, <1>4, <1>5, <1>6, <1>7, <1>8, <1>9, <1>10 DEF Next

\* Once no socket can deliver a price, every listener was told so.
THEOREM StaleCorrect == Spec => []StaleWhileDown
<1>1. Init => StaleWhileDown
  BY DEF Init, StaleWhileDown
<1>2. QED
  BY <1>1, TypeCorrect, StaleStep, PTL DEF Spec

LEMMA AgreeStep ==
    TypeOK /\ ListenersAgreeWithCache /\ [Next]_vars
      => ListenersAgreeWithCache'
<1> SUFFICES ASSUME TypeOK, ListenersAgreeWithCache, [Next]_vars
             PROVE  ListenersAgreeWithCache'
  OBVIOUS
<1> USE DEF ListenersAgreeWithCache
<1>1. ASSUME NEW l \in Listeners, NEW A \in SUBSET Assets, Subscribe(l, A)
      PROVE  ListenersAgreeWithCache'
  <2>1. \A b \in Assets : told'[l][b] = "none"
    BY <1>1 DEF TypeOK, Subscribe
  <2>2. \A m \in Listeners \ {l} : told'[m] = told[m]
    BY <1>1 DEF TypeOK, Subscribe
  <2>3. \A b \in Assets : listeners'[b] \subseteq listeners[b] \cup {l}
    BY <1>1 DEF TypeOK, Subscribe
  <2>4. QED
    BY <1>1, <2>1, <2>2, <2>3, PricesAssumption DEF TypeOK, Subscribe
<1>2. ASSUME NEW l \in Listeners, Unsubscribe(l)
      PROVE  ListenersAgreeWithCache'
  BY <1>2 DEF TypeOK, Unsubscribe
<1>3. ASSUME NEW s \in Sockets, WsClose(s) PROVE ListenersAgreeWithCache'
  BY <1>3, PricesAssumption DEF TypeOK, WsClose, MarkAllAssetsStale
<1>4. ASSUME NEW s \in Sockets, NEW a \in Assets, NEW p \in Prices,
             HandleMessage(s, a, p)
      PROVE  ListenersAgreeWithCache'
  BY <1>4 DEF TypeOK, HandleMessage, CachePrice, EmitToAsset
<1>5. CASE UNCHANGED <<listeners, told, latestPrices>>
  BY <1>5
<1>6. QED
  BY <1>1, <1>2, <1>3, <1>4, <1>5 DEF Next, vars, serviceVars,
     OnModuleDestroy, WsOpen, VenueCloses, ReconnectTimerFires

\* A live price a listener holds is the cached one, so listeners of one asset
\* never disagree.
THEOREM AgreeCorrect == Spec => []ListenersAgreeWithCache
<1>1. Init => ListenersAgreeWithCache
  BY PricesAssumption DEF Init, ListenersAgreeWithCache
<1>2. QED
  BY <1>1, TypeCorrect, AgreeStep, PTL DEF Spec

-----------------------------------------------------------------------------
(* The backoff. *)

\* The attempt counter tells the last delay, so the formula doubles it.
AttemptTellsDelay ==
    lastDelay = IF reconnectAttempt = 0 THEN 0
                ELSE GetReconnectDelayMs(reconnectAttempt - 1)

LEMMA AttemptStep ==
    TypeOK /\ AttemptTellsDelay /\ [Next]_vars => AttemptTellsDelay'
<1> SUFFICES ASSUME TypeOK, AttemptTellsDelay, [Next]_vars
             PROVE  AttemptTellsDelay'
  OBVIOUS
<1> USE DEF AttemptTellsDelay
<1>1. ASSUME NEW s \in Sockets, WsOpen(s) PROVE AttemptTellsDelay'
  BY <1>1 DEF WsOpen, AttemptAfterOpen
<1>2. ASSUME NEW s \in Sockets, WsClose(s) PROVE AttemptTellsDelay'
  <2>1. reconnectAttempt \in Nat /\ reconnectAttempt <= AttemptCap
    BY DEF TypeOK
  <2>2. ASSUME reconnectAttempt < AttemptCap,
               reconnectAttempt' = reconnectAttempt + 1
        PROVE  reconnectAttempt' - 1 = reconnectAttempt
               /\ reconnectAttempt' # 0
    BY <2>1, <2>2
  <2>3. GetReconnectDelayMs(AttemptCap) = GetReconnectDelayMs(AttemptCap - 1)
    BY AttemptCapAssumption DEF GetReconnectDelayMs
  <2>4. reconnectAttempt >= AttemptCap => reconnectAttempt = AttemptCap
    BY <2>1, AttemptCapAssumption
  <2>5. QED
    BY <1>2, <2>1, <2>2, <2>3, <2>4, AttemptCapAssumption
    DEF WsClose, ScheduleReconnect, NoReconnectDue
<1>3. CASE UNCHANGED <<lastDelay, reconnectAttempt>>
  BY <1>3
<1>4. QED
  BY <1>1, <1>2, <1>3 DEF Next, vars, serviceVars, Subscribe, Unsubscribe,
     OnModuleDestroy, VenueCloses, HandleMessage, ReconnectTimerFires

LEMMA BackoffStep ==
    ASSUME TypeOK, AttemptTellsDelay, [Next]_vars,
           reconnectTimer = 0, reconnectTimer' # 0
    PROVE  reconnectTimer' = IF lastDelay = 0 THEN 1000
                             ELSE IF lastDelay = 16000 THEN 16000
                             ELSE 2 * lastDelay
<1>1. PICK s \in Sockets : WsClose(s)
  BY DEF Next, vars, serviceVars, Subscribe, Unsubscribe, OnModuleDestroy,
     WsOpen, VenueCloses, HandleMessage, ReconnectTimerFires
<1>2. reconnectTimer' = GetReconnectDelayMs(reconnectAttempt)
  BY <1>1 DEF WsClose, ScheduleReconnect, NoReconnectDue
<1>3. reconnectAttempt \in Nat /\ (reconnectAttempt # 0
                                     => reconnectAttempt - 1 \in Nat)
  BY DEF TypeOK
<1>4. QED
  BY <1>2, <1>3, DelayValues DEF AttemptTellsDelay

\* Delays double from one second to sixteen between two opens, whatever
\* listeners come and go.
THEOREM BackoffCorrect == Spec => BackoffDoubles
<1>1. Init => AttemptTellsDelay
  BY DEF Init, AttemptTellsDelay
<1>2. TypeOK /\ AttemptTellsDelay /\ [Next]_vars =>
        [(reconnectTimer = 0 /\ reconnectTimer' # 0) =>
           reconnectTimer' = IF lastDelay = 0 THEN 1000
                             ELSE IF lastDelay = 16000 THEN 16000
                             ELSE 2 * lastDelay]_vars
  BY BackoffStep
<1>3. QED
  BY <1>1, <1>2, TypeCorrect, AttemptStep, PTL DEF Spec, BackoffDoubles

-----------------------------------------------------------------------------
(* The feed as a user of the stream. *)

\* The gateway and the price service use the stream only as it allows: every
\* step of the feed is a step of MarketStream or leaves it alone.
THEOREM FeedImplementsStream == FeedSpec => Spec
<1>1. FeedInit => Init
  BY DEF FeedInit
<1>2. ASSUME [FeedNext]_feedVars PROVE [Next]_vars
  <2>1. ASSUME NEW c \in Listeners, NEW A \in SUBSET Assets,
               PositionsFetched(c, A)
        PROVE  Next
    BY <2>1 DEF PositionsFetched, Next
  <2>2. ASSUME NEW c \in Listeners, HandleDisconnect(c)
        PROVE  Next \/ UNCHANGED vars
    BY <2>2 DEF HandleDisconnect, StopFeed, Next
  <2>3. ASSUME NEW c \in Listeners,
               RejectConnection(c) \/ HandleConnection(c)
                 \/ NoPositionsFetched(c) \/ FetchFails(c)
                 \/ PeriodicSnapshot(c)
        PROVE  UNCHANGED vars
    BY <2>3 DEF RejectConnection, HandleConnection, NoPositionsFetched,
       FetchFails, PeriodicSnapshot
  <2>4. ASSUME StreamMessage \/ StreamClose \/ StreamSilent PROVE Next
    BY <2>4 DEF StreamMessage, StreamClose, StreamSilent, Next
  <2>5. ASSUME UNCHANGED feedVars PROVE UNCHANGED vars
    BY <2>5 DEF feedVars
  <2>6. QED
    BY <1>2, <2>1, <2>2, <2>3, <2>4, <2>5 DEF FeedNext
<1>3. QED
  BY <1>1, <1>2, PTL DEF FeedSpec, Spec

-----------------------------------------------------------------------------
(* Types, and what stands and falls together. *)

LEMMA FeedTypeStep ==
    TypeOK /\ TypeOK' /\ FeedTypeOK /\ [FeedNext]_feedVars => FeedTypeOK'
<1> SUFFICES ASSUME TypeOK, TypeOK', FeedTypeOK, [FeedNext]_feedVars
             PROVE  FeedTypeOK'
  OBVIOUS
<1> USE DEF FeedTypeOK, Phases, Running
<1>1. \A a \in Assets : SnapshotOf(a) \in Prices \cup {"stale"}
  BY DEF TypeOK, SnapshotOf
<1>2. ASSUME NEW c \in Listeners,
             RejectConnection(c) \/ HandleConnection(c)
               \/ NoPositionsFetched(c) \/ FetchFails(c)
      PROVE  FeedTypeOK'
  BY <1>2 DEF RejectConnection, HandleConnection, NoPositionsFetched,
     FetchFails, gatewayVars
<1>3. ASSUME NEW c \in Listeners, NEW A \in SUBSET Assets,
             PositionsFetched(c, A)
      PROVE  FeedTypeOK'
  BY <1>1, <1>3 DEF PositionsFetched, EmitSnapshot
<1>4. ASSUME NEW c \in Listeners, HandleDisconnect(c) PROVE FeedTypeOK'
  BY <1>4 DEF HandleDisconnect, StopFeed, DropHandler
<1>5. ASSUME NEW c \in Listeners, PeriodicSnapshot(c) PROVE FeedTypeOK'
  BY <1>1, <1>5 DEF PeriodicSnapshot, EmitSnapshot, gatewayVars
<1>6. ASSUME StreamMessage \/ StreamClose \/ StreamSilent
      PROVE  FeedTypeOK'
  <2>1. CASE StreamMessage
    BY <1>6, <2>1 DEF StreamMessage, EmitTick, gatewayVars
  <2>2. CASE StreamClose
    BY <1>6, <2>2 DEF StreamClose, EmitStale, gatewayVars
  <2>3. CASE StreamSilent
    BY <1>6, <2>3 DEF StreamSilent, gatewayVars
  <2>4. QED
    BY <1>6, <2>1, <2>2, <2>3
<1>7. ASSUME UNCHANGED feedVars PROVE FeedTypeOK'
  BY <1>7 DEF feedVars, gatewayVars
<1>8. QED
  BY <1>2, <1>3, <1>4, <1>5, <1>6, <1>7 DEF FeedNext

\* Every variable of the feed and of the stream below it keeps its type.
THEOREM FeedTypeCorrect == FeedSpec => []FeedTypeOK
<1>1. FeedInit => FeedTypeOK
  <2> SUFFICES ASSUME FeedInit PROVE FeedTypeOK
    OBVIOUS
  <2>1. TypeOK
    BY TypeInit DEF FeedInit
  <2>2. crashed \in BOOLEAN
    BY DEF FeedInit
  <2>3. view \in [Listeners -> [Assets -> Prices \cup {"none", "stale"}]]
    BY DEF FeedInit
  <2>4. QED
    BY <2>1, <2>2, <2>3 DEF FeedInit, FeedTypeOK, Phases
<1>2. QED
  BY <1>1, FeedImplementsStream, TypeCorrect, FeedTypeStep, PTL DEF FeedSpec

\* FeedIsWhole is not inductive alone: that a client starting to fetch has no
\* feed yet rests on where its handleConnection is.
FedAreAnswered == \A c \in Attached : phase[c] = "answered"
Whole == FedAreAnswered /\ FeedIsWhole

LEMMA SubscribeAttaches ==
    ASSUME TypeOK, NEW c \in Listeners, NEW A \in SUBSET Assets,
           Subscribe(c, A)
    PROVE  /\ Attached' = Attached \cup {c}
           /\ c \notin Attached
           /\ \A a \in Assets : c \in listeners'[a] <=> a \in A
           /\ \A d \in Listeners \ {c}, a \in Assets :
                 d \in listeners'[a] <=> d \in listeners[a]
  BY DEF TypeOK, Subscribe, Attached

LEMMA UnsubscribeDetaches ==
    ASSUME TypeOK, NEW c \in Listeners, Unsubscribe(c)
    PROVE  /\ Attached' = Attached \ {c}
           /\ \A d \in Listeners, a \in Assets :
                 d \in listeners'[a] <=> d # c /\ d \in listeners[a]
  BY DEF TypeOK, Unsubscribe, Attached

LEMMA WholeStep ==
    FeedTypeOK /\ Whole /\ [FeedNext]_feedVars => Whole'
<1> SUFFICES ASSUME FeedTypeOK, Whole, [FeedNext]_feedVars PROVE Whole'
  OBVIOUS
<1>1. TypeOK /\ Attached \subseteq Listeners
  BY DEF FeedTypeOK, TypeOK, Attached
<1>2. \A a \in Assets : SnapshotOf(a) # "none"
  BY DEF SnapshotOf
<1>3. \A c \in Listeners, a \in Assets : c \in listeners[a] => c \in Attached
  BY DEF Attached
<1> USE DEF Whole, FedAreAnswered, FeedIsWhole
<1>4. ASSUME NEW c \in Listeners,
             RejectConnection(c) \/ HandleConnection(c)
               \/ NoPositionsFetched(c) \/ FetchFails(c)
      PROVE  Whole'
  <2>1. UNCHANGED <<listeners, view, intervals>> /\ Attached' = Attached
    BY <1>4 DEF RejectConnection, HandleConnection, NoPositionsFetched,
       FetchFails, vars, serviceVars, gatewayVars, Attached
  <2>2. phase[c] # "answered" /\ c \notin Attached
    BY <1>4 DEF RejectConnection, HandleConnection, NoPositionsFetched,
       FetchFails
  <2>3. /\ \A d \in Listeners \ {c} : phase'[d] = phase[d]
        /\ connected' \subseteq connected \cup {c}
        /\ disconnectHandlers \subseteq disconnectHandlers'
    BY <1>4 DEF RejectConnection, HandleConnection, NoPositionsFetched,
       FetchFails, gatewayVars, FeedTypeOK
  <2>4. \A a \in Assets : c \notin listeners[a]
    BY <1>3, <2>2
  <2>5. QED
    BY <1>1, <2>1, <2>2, <2>3, <2>4
<1>5. ASSUME NEW c \in Listeners, NEW A \in SUBSET Assets,
             PositionsFetched(c, A)
      PROVE  Whole'
  <2>1. /\ Attached' = Attached \cup {c}
        /\ \A a \in Assets : c \in listeners'[a] <=> a \in A
        /\ \A d \in Listeners \ {c}, a \in Assets :
              d \in listeners'[a] <=> d \in listeners[a]
    BY <1>1, <1>5, SubscribeAttaches DEF PositionsFetched
  <2>2. FedAreAnswered'
    BY <1>1, <1>5, <2>1 DEF PositionsFetched, FeedTypeOK
  <2>3. intervals' = Attached'
    BY <1>5, <2>1 DEF PositionsFetched
  <2>4. \A d \in connected' : d \in Attached' => d \in disconnectHandlers'
    BY <1>5, <2>1 DEF PositionsFetched
  <2>5. \A d \in connected', a \in Assets :
           d \in listeners'[a] => view'[d][a] # "none"
    BY <1>2, <1>5, <2>1 DEF PositionsFetched, EmitSnapshot, FeedTypeOK
  <2>6. QED
    BY <2>2, <2>3, <2>4, <2>5
<1>6. ASSUME NEW c \in Listeners, HandleDisconnect(c) PROVE Whole'
  <2>1. /\ connected' = connected \ {c}
        /\ disconnectHandlers' = disconnectHandlers \ {c}
        /\ \A d \in Listeners \ {c} : /\ view'[d] = view[d]
                                      /\ phase'[d] = phase[d]
    BY <1>6 DEF HandleDisconnect, DropHandler, FeedTypeOK
  <2>2. CASE c \in disconnectHandlers \cap intervals
    <3>1. intervals' = intervals \ {c} /\ Unsubscribe(c)
      BY <1>6, <2>2 DEF HandleDisconnect, StopFeed
    <3>2. /\ Attached' = Attached \ {c}
          /\ \A d \in Listeners, a \in Assets :
                d \in listeners'[a] <=> d # c /\ d \in listeners[a]
      BY <1>1, <3>1, UnsubscribeDetaches
    <3>3. QED
      BY <1>1, <2>1, <3>1, <3>2 DEF FeedTypeOK
  <2>3. CASE c \notin disconnectHandlers \cap intervals
    <3>1. UNCHANGED <<listeners, intervals>> /\ Attached' = Attached
      BY <1>6, <2>3 DEF HandleDisconnect, vars, serviceVars, Attached
    <3>2. c \in connected /\ c \notin Attached
      BY <1>6, <2>3 DEF HandleDisconnect
    <3>3. QED
      BY <1>1, <2>1, <3>1, <3>2 DEF FeedTypeOK
  <2>4. QED
    BY <2>2, <2>3
<1>7. ASSUME NEW c \in Listeners, PeriodicSnapshot(c) PROVE Whole'
  <2>1. UNCHANGED <<listeners, phase, connected, disconnectHandlers,
                    intervals>> /\ Attached' = Attached
    BY <1>7 DEF PeriodicSnapshot, vars, serviceVars, gatewayVars, Attached
  <2>2. \A d \in Listeners, a \in Assets :
           view[d][a] # "none" => view'[d][a] # "none"
    BY <1>2, <1>7 DEF PeriodicSnapshot, EmitSnapshot, FeedTypeOK
  <2>3. QED
    BY <2>1, <2>2 DEF FeedTypeOK
<1>8. ASSUME StreamMessage \/ StreamClose \/ StreamSilent
      PROVE  Whole'
  <2>1. UNCHANGED <<listeners, phase, connected, disconnectHandlers,
                    intervals>> /\ Attached' = Attached
    BY <1>8 DEF StreamMessage, StreamClose, StreamSilent, HandleMessage,
       WsClose, WsOpen, VenueCloses, ReconnectTimerFires, OnModuleDestroy,
       serviceVars, gatewayVars, Attached
  <2>2. \A d \in Listeners, a \in Assets :
           view[d][a] # "none" => view'[d][a] # "none"
    BY <1>8, PricesAssumption DEF StreamMessage, StreamClose, StreamSilent,
       EmitTick, EmitStale, FeedTypeOK
  <2>3. QED
    BY <2>1, <2>2 DEF FeedTypeOK
<1>9. ASSUME UNCHANGED feedVars PROVE Whole'
  BY <1>9 DEF feedVars, vars, serviceVars, gatewayVars, Attached
<1>10. QED
  BY <1>4, <1>5, <1>6, <1>7, <1>8, <1>9 DEF FeedNext

\* A running interval, an attached listener and, for a client still there, a
\* registered handler always come together.
THEOREM FeedWhole == FeedSpec => []FeedIsWhole
<1>1. FeedInit => Whole
  BY DEF FeedInit, Init, Whole, FedAreAnswered, FeedIsWhole, Attached
<1>2. Whole => FeedIsWhole
  BY DEF Whole
<1>3. QED
  BY <1>1, <1>2, FeedTypeCorrect, WholeStep, PTL DEF FeedSpec
-----------------------------------------------------------------------------
(* The board: the cache and the clients' last events are what it promises. *)

Cells == [c \in Listeners |-> [a \in Assets |->
             IF Watching(c, a) THEN view[c][a] ELSE "none"]]

\* What a client watches and sees decides its cells.
LEMMA CellsOfOthers ==
    ASSUME NEW c \in Listeners, NEW f,
           \A d \in Listeners \ {c}, a \in Assets :
              /\ Watching(d, a)' <=> Watching(d, a)
              /\ view'[d][a] = view[d][a],
           \A a \in Assets :
              (IF Watching(c, a)' THEN view'[c][a] ELSE "none") = f[a]
    PROVE  Cells' = [Cells EXCEPT ![c] = [a \in Assets |-> f[a]]]
<1>1. \A d \in Listeners \ {c} : Cells'[d] = Cells[d]
  BY DEF Cells
<1>2. Cells'[c] = [a \in Assets |-> f[a]]
  BY DEF Cells
<1>3. QED
  BY <1>1, <1>2 DEF Cells

\* A step that changes nobody's watching nor any watcher's view, nor the cache,
\* leaves the board alone.
LEMMA BoardStutters ==
    ASSUME latestPrices' = latestPrices,
           \A c \in Listeners, a \in Assets :
              /\ Watching(c, a)' <=> Watching(c, a)
              /\ Watching(c, a) => view'[c][a] = view[c][a]
    PROVE  UNCHANGED Board!boardVars
  BY DEF Board!boardVars

LEMMA BoardStep ==
    FeedTypeOK /\ Whole /\ [FeedNext]_feedVars
      => [Board!Next]_(Board!boardVars)
<1> SUFFICES ASSUME FeedTypeOK, Whole, [FeedNext]_feedVars
             PROVE  [Board!Next]_(Board!boardVars)
  OBVIOUS
<1>1. TypeOK
  BY DEF FeedTypeOK
<1>2. \A c \in Listeners, a \in Assets :
         /\ c \in listeners[a] => c \in Attached
         /\ Watching(c, a) => view[c][a] # "none"
  BY DEF Attached, Watching, Whole, FeedIsWhole
<1>3. \A c \in Listeners, a \in Assets :
         (Cells[c][a] = "none") <=> ~Watching(c, a)
  BY <1>2 DEF Cells
<1>4. ASSUME NEW c \in Listeners,
             RejectConnection(c) \/ HandleConnection(c)
               \/ NoPositionsFetched(c) \/ FetchFails(c)
      PROVE  UNCHANGED Board!boardVars
  <2>1. /\ UNCHANGED <<listeners, latestPrices, view>>
        /\ \A d \in Listeners \ {c} : d \in connected' <=> d \in connected
    BY <1>4 DEF RejectConnection, HandleConnection, NoPositionsFetched,
       FetchFails, vars, serviceVars, gatewayVars
  <2>2. phase[c] # "answered"
    BY <1>4 DEF RejectConnection, HandleConnection, NoPositionsFetched,
       FetchFails
  <2>3. \A a \in Assets : c \notin listeners[a]
    BY <1>2, <2>2 DEF Whole, FedAreAnswered
  <2>4. QED
    BY <2>1, <2>3, BoardStutters DEF Watching
<1>5. ASSUME NEW c \in Listeners, NEW A \in SUBSET Assets,
             PositionsFetched(c, A)
      PROVE  [Board!Next]_(Board!boardVars)
  <2>1. /\ c \notin Attached
        /\ \A a \in Assets : c \in listeners'[a] <=> a \in A
        /\ \A d \in Listeners \ {c}, a \in Assets :
              d \in listeners'[a] <=> d \in listeners[a]
    BY <1>1, <1>5, SubscribeAttaches DEF PositionsFetched
  <2>2. connected' = connected /\ latestPrices' = latestPrices
    BY <1>5 DEF PositionsFetched, Subscribe
  <2>3. \A d \in Listeners \ {c} : view'[d] = view[d]
    BY <1>5 DEF PositionsFetched, EmitSnapshot, FeedTypeOK
  <2>4. CASE c \notin connected
    BY <2>1, <2>2, <2>3, <2>4, BoardStutters DEF Watching
  <2>5. CASE c \in connected
    <3>1. \A a \in A : view'[c][a] = SnapshotOf(a)
      BY <1>5, <2>5 DEF PositionsFetched, EmitSnapshot, FeedTypeOK
    <3>2. \A a \in Assets : ~Watching(c, a)
      BY <1>2, <2>1 DEF Watching
    <3>3. \A a \in Assets : Cells[c][a] = "none"
      BY <3>2 DEF Cells
    <3>4. Cells' = [Cells EXCEPT ![c] = [a \in Assets |->
                      IF a \in A THEN SnapshotOf(a) ELSE "none"]]
      <4> DEFINE f == [a \in Assets |->
                         IF a \in A THEN SnapshotOf(a) ELSE "none"]
      <4>1. \A d \in Listeners \ {c}, a \in Assets :
               /\ Watching(d, a)' <=> Watching(d, a)
               /\ view'[d][a] = view[d][a]
        BY <2>1, <2>2, <2>3 DEF Watching
      <4>2. \A a \in Assets :
               (IF Watching(c, a)' THEN view'[c][a] ELSE "none") = f[a]
        BY <2>1, <2>2, <2>5, <3>1 DEF Watching
      <4>3. Cells' = [Cells EXCEPT ![c] = [a \in Assets |-> f[a]]]
        <5> HIDE DEF f
        <5> QED BY <4>1, <4>2, CellsOfOthers
      <4>4. QED
        BY <4>3
    <3>5. Board!Join(c, A)
      BY <2>2, <3>3, <3>4 DEF Cells, SnapshotOf, Board!Join, Board!Shown
    <3>6. QED
      BY <3>5 DEF Board!Next
  <2>6. QED
    BY <2>4, <2>5
<1>6. ASSUME NEW c \in Listeners, HandleDisconnect(c)
      PROVE  [Board!Next]_(Board!boardVars)
  <2>1. connected' = connected \ {c} /\ \A d \in Listeners \ {c} :
           view'[d] = view[d]
    BY <1>6 DEF HandleDisconnect, FeedTypeOK
  <2>2. /\ latestPrices' = latestPrices
        /\ \A d \in Listeners \ {c}, a \in Assets :
              d \in listeners'[a] <=> d \in listeners[a]
    BY <1>1, <1>6, UnsubscribeDetaches
    DEF HandleDisconnect, StopFeed, Unsubscribe, vars, serviceVars
  <2>3. Cells' = [Cells EXCEPT ![c] = [a \in Assets |-> "none"]]
    BY <2>1, <2>2 DEF Cells, Watching
  <2>4. Board!Leave(c)
    BY <2>2, <2>3 DEF Cells, Board!Leave
  <2>5. QED
    BY <2>4 DEF Board!Next
<1>7. ASSUME NEW c \in Listeners, PeriodicSnapshot(c)
      PROVE  [Board!Next]_(Board!boardVars)
  <2>1. UNCHANGED <<listeners, latestPrices, connected>>
    BY <1>7 DEF PeriodicSnapshot, vars, serviceVars, gatewayVars
  <2>2. CASE c \notin connected
    BY <1>7, <2>1, <2>2, BoardStutters
    DEF PeriodicSnapshot, EmitSnapshot, Watching
  <2>3. CASE c \in connected
    <3>1. /\ \A d \in Listeners \ {c} : view'[d] = view[d]
          /\ \A a \in Assets : Watching(c, a) => view'[c][a] = SnapshotOf(a)
      BY <1>7, <2>3 DEF PeriodicSnapshot, EmitSnapshot, FeedTypeOK,
         Watching, AssetsOf
    <3>2. Cells' = [Cells EXCEPT ![c] = [a \in Assets |->
                      IF Cells[c][a] = "none" THEN "none" ELSE SnapshotOf(a)]]
      <4> DEFINE f == [a \in Assets |->
                         IF Cells[c][a] = "none" THEN "none" ELSE SnapshotOf(a)]
      <4>1. \A d \in Listeners \ {c}, a \in Assets :
               /\ Watching(d, a)' <=> Watching(d, a)
               /\ view'[d][a] = view[d][a]
        BY <2>1, <3>1 DEF Watching
      <4>2. \A a \in Assets :
               (IF Watching(c, a)' THEN view'[c][a] ELSE "none") = f[a]
        BY <1>3, <2>1, <3>1 DEF Watching
      <4>3. Cells' = [Cells EXCEPT ![c] = [a \in Assets |-> f[a]]]
        <5> HIDE DEF f
        <5> QED BY <4>1, <4>2, CellsOfOthers
      <4>4. QED
        BY <4>3
    <3>3. Board!Refresh(c)
      BY <2>1, <3>2 DEF Cells, SnapshotOf, Board!Refresh, Board!Shown
    <3>4. QED
      BY <3>3 DEF Board!Next
  <2>4. QED
    BY <2>2, <2>3
<1>8. ASSUME StreamMessage PROVE Board!Next
  <2>1. PICK s \in Sockets, a \in Assets, p \in Prices :
           HandleMessage(s, a, p) /\ EmitTick(a, p)
    BY <1>8 DEF StreamMessage
  <2>2. /\ listeners' = listeners
        /\ connected' = connected
        /\ latestPrices' = [latestPrices EXCEPT ![a] = p]
    BY <1>8, <2>1 DEF StreamMessage, HandleMessage, CachePrice, gatewayVars
  <2>3. \A c \in Listeners, b \in Assets :
           Watching(c, b) => view'[c][b] = IF b = a THEN p ELSE view[c][b]
    BY <2>1 DEF EmitTick, Watching, FeedTypeOK
  <2>4. Cells' = [c \in Listeners |->
                     IF Cells[c][a] = "none" THEN Cells[c]
                     ELSE [Cells[c] EXCEPT ![a] = p]]
    BY <1>3, <2>2, <2>3 DEF Cells, Watching
  <2>5. Board!Tick(a, p)
    BY <2>2, <2>4 DEF Cells, Board!Tick
  <2>6. QED
    BY <2>5 DEF Board!Next
<1>9. ASSUME StreamClose PROVE Board!Next
  <2>1. UNCHANGED <<listeners, connected, latestPrices>> /\ EmitStale
    BY <1>9 DEF StreamClose, WsClose, gatewayVars
  <2>2. \A c \in Listeners, a \in Assets :
           Watching(c, a) => view'[c][a] = "stale"
    BY <2>1 DEF EmitStale, Watching
  <2>3. Cells' = [c \in Listeners |-> [a \in Assets |->
                     IF Cells[c][a] = "none" THEN "none" ELSE "stale"]]
    BY <1>3, <2>1, <2>2 DEF Cells, Watching
  <2>4. Board!Outage
    BY <2>1, <2>3 DEF Cells, Board!Outage
  <2>5. QED
    BY <2>4 DEF Board!Next
<1>10. ASSUME StreamSilent PROVE UNCHANGED Board!boardVars
  <2>1. UNCHANGED <<listeners, connected, latestPrices, view>>
    BY <1>10 DEF StreamSilent, WsOpen, VenueCloses, ReconnectTimerFires,
       OnModuleDestroy, serviceVars, gatewayVars
  <2>2. QED
    BY <2>1, BoardStutters DEF Watching
<1>11. ASSUME UNCHANGED feedVars PROVE UNCHANGED Board!boardVars
  BY <1>11, BoardStutters
  DEF feedVars, vars, serviceVars, gatewayVars, Watching
<1>12. QED
  BY <1>4, <1>5, <1>6, <1>7, <1>8, <1>9, <1>10, <1>11 DEF FeedNext

\* The detailed feed keeps the promise of the board: joins, leaves, ticks,
\* outages and snapshots in any order show a client what the board would.
THEOREM FeedImplementsBoard == FeedSpec => BoardSpec
<1>1. FeedInit => Board!Init
  BY DEF FeedInit, Init, Board!Init, Watching
<1>2. FeedInit => Whole
  BY DEF FeedInit, Init, Whole, FedAreAnswered, FeedIsWhole, Attached
<1>3. QED
  BY <1>1, <1>2, FeedTypeCorrect, WholeStep, BoardStep, PTL
  DEF FeedSpec, BoardSpec, Board!Spec

\* No step of the board shows two clients different live prices of one asset.
BoardTypeOK ==
    /\ latestPrices \in [Assets -> Prices \cup {"none"}]
    /\ Cells \in [Listeners -> [Assets -> Prices \cup {"none", "stale"}]]

CellsShowBoard ==
    \A c \in Listeners, a \in Assets :
        Cells[c][a] \notin {"none", "stale"} => Cells[c][a] = latestPrices[a]

LEMMA BoardKeepsAgreement ==
  BoardTypeOK /\ CellsShowBoard /\ [Board!Next]_(Board!boardVars)
    => BoardTypeOK' /\ CellsShowBoard'
<1> SUFFICES ASSUME BoardTypeOK, CellsShowBoard, [Board!Next]_(Board!boardVars)
             PROVE  BoardTypeOK' /\ CellsShowBoard'
  OBVIOUS
<1> DEFINE shown(a) == IF latestPrices[a] = "none" THEN "stale" ELSE latestPrices[a]
<1>1. ASSUME NEW a \in Assets, NEW p \in Prices, Board!Tick(a, p)
      PROVE  BoardTypeOK' /\ CellsShowBoard'
  <2>1. /\ latestPrices' = [latestPrices EXCEPT ![a] = p]
        /\ Cells' = [c \in Listeners |->
                        IF Cells[c][a] = "none" THEN Cells[c]
                        ELSE [Cells[c] EXCEPT ![a] = p]]
    BY <1>1 DEF Board!Tick, Cells
  <2>2. QED
    BY <2>1 DEF BoardTypeOK, CellsShowBoard
<1>2. ASSUME Board!Outage PROVE BoardTypeOK' /\ CellsShowBoard'
  <2>1. /\ latestPrices' = latestPrices
        /\ Cells' = [c \in Listeners |-> [a \in Assets |->
                        IF Cells[c][a] = "none" THEN "none" ELSE "stale"]]
    BY <1>2 DEF Board!Outage, Cells
  <2>2. QED
    BY <2>1 DEF BoardTypeOK, CellsShowBoard
<1>3. ASSUME NEW c \in Listeners, Board!Refresh(c)
      PROVE  BoardTypeOK' /\ CellsShowBoard'
  <2>1. /\ latestPrices' = latestPrices
        /\ Cells' = [Cells EXCEPT ![c] = [a \in Assets |->
                        IF Cells[c][a] = "none" THEN "none" ELSE shown(a)]]
    BY <1>3 DEF Board!Refresh, Board!Shown, Cells
  <2>2. QED
    BY <2>1 DEF BoardTypeOK, CellsShowBoard
<1>4. ASSUME NEW c \in Listeners, NEW A \in SUBSET Assets, Board!Join(c, A)
      PROVE  BoardTypeOK' /\ CellsShowBoard'
  <2>1. /\ latestPrices' = latestPrices
        /\ Cells' = [Cells EXCEPT ![c] = [a \in Assets |->
                        IF a \in A THEN shown(a) ELSE "none"]]
    BY <1>4 DEF Board!Join, Board!Shown, Cells
  <2>2. QED
    BY <2>1 DEF BoardTypeOK, CellsShowBoard
<1>5. ASSUME NEW c \in Listeners, Board!Leave(c)
      PROVE  BoardTypeOK' /\ CellsShowBoard'
  <2>1. /\ latestPrices' = latestPrices
        /\ Cells' = [Cells EXCEPT ![c] = [a \in Assets |-> "none"]]
    BY <1>5 DEF Board!Leave, Cells
  <2>2. QED
    BY <2>1 DEF BoardTypeOK, CellsShowBoard
<1>6. ASSUME UNCHANGED Board!boardVars PROVE BoardTypeOK' /\ CellsShowBoard'
  <2>1. latestPrices' = latestPrices /\ Cells' = Cells
    BY <1>6 DEF Board!boardVars, Cells
  <2>2. QED
    BY <2>1 DEF BoardTypeOK, CellsShowBoard
<1>7. QED
  BY <1>1, <1>2, <1>3, <1>4, <1>5, <1>6 DEF Board!Next

\* So no two watching clients ever see different live prices of one asset.
THEOREM FeedClientsAgree == FeedSpec => []ClientsAgree
<1>1. Board!Init => BoardTypeOK /\ CellsShowBoard
  BY DEF Board!Init, BoardTypeOK, CellsShowBoard, Cells
<1>2. CellsShowBoard => ClientsAgree
  BY DEF CellsShowBoard, ClientsAgree, Board!CellsAgree, Cells
<1>3. BoardSpec => []ClientsAgree
  BY <1>1, <1>2, BoardKeepsAgreement, PTL DEF BoardSpec, Board!Spec
<1>4. QED
  BY <1>3, FeedImplementsBoard, PTL

-----------------------------------------------------------------------------
(* Who leaves something behind. *)

\* A step that ends a connection is its disconnect event.
LEMMA OnlyDisconnectRemoves ==
    ASSUME FeedNext, NEW c \in connected, c \notin connected', FeedTypeOK
    PROVE  HandleDisconnect(c)
<1>1. ASSUME NEW d \in Listeners,
             \/ RejectConnection(d) \/ HandleConnection(d)
             \/ \E A \in SUBSET Assets : PositionsFetched(d, A)
             \/ NoPositionsFetched(d) \/ FetchFails(d) \/ PeriodicSnapshot(d)
      PROVE  connected \subseteq connected'
  BY <1>1 DEF RejectConnection, HandleConnection, PositionsFetched,
     NoPositionsFetched, FetchFails, PeriodicSnapshot, gatewayVars
<1>2. ASSUME NEW d \in Listeners, HandleDisconnect(d)
      PROVE  connected' = connected \ {d}
  BY <1>2 DEF HandleDisconnect
<1>3. ASSUME StreamMessage \/ StreamClose \/ StreamSilent
      PROVE  connected' = connected
  BY <1>3 DEF StreamMessage, StreamClose, StreamSilent, gatewayVars
<1>4. QED
  BY <1>1, <1>2, <1>3 DEF FeedNext

\* The disconnect of a client that was answered takes its feed away.
LEMMA DisconnectCleans ==
    ASSUME FeedTypeOK, Whole, NEW c \in Listeners, HandleDisconnect(c)
    PROVE  /\ c \notin Attached' /\ c \notin intervals'
           /\ c \notin disconnectHandlers'
<1>1. c \notin disconnectHandlers'
  BY DEF HandleDisconnect, DropHandler
<1>2. CASE c \in disconnectHandlers \cap intervals
  <2>1. intervals' = intervals \ {c} /\ Unsubscribe(c)
    BY <1>2 DEF HandleDisconnect, StopFeed
  <2>2. QED
    BY <1>1, <2>1, UnsubscribeDetaches DEF FeedTypeOK
<1>3. CASE c \notin disconnectHandlers \cap intervals
  <2>1. UNCHANGED <<listeners, intervals>> /\ Attached' = Attached
    BY <1>3 DEF HandleDisconnect, vars, serviceVars, Attached
  <2>2. c \notin Attached /\ c \notin intervals
    BY <1>3 DEF HandleDisconnect, Whole, FeedIsWhole
  <2>3. QED
    BY <1>1, <2>1, <2>2
<1>4. QED
  BY <1>2, <1>3

\* Whoever is answered while connected is cleaned up when it leaves: only a
\* client that left before its positions arrived can leave a feed behind.
THEOREM FeedLeavesNothing == FeedSpec => LeftoversAreEarlyLeavers
<1>1. FeedInit => Whole
  BY DEF FeedInit, Init, Whole, FedAreAnswered, FeedIsWhole, Attached
<1> DEFINE Cleaned ==
      \A c \in connected :
          phase[c] # "fetching" /\ c \notin connected'
            => c \notin Attached' /\ c \notin intervals'
               /\ c \notin disconnectHandlers'
<1>2. FeedTypeOK /\ Whole /\ [FeedNext]_feedVars => [Cleaned]_feedVars
  BY OnlyDisconnectRemoves, DisconnectCleans DEF FeedTypeOK
<1>3. QED
  BY <1>1, <1>2, FeedTypeCorrect, WholeStep, PTL
  DEF FeedSpec, LeftoversAreEarlyLeavers
=============================================================================
