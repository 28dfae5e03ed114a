-------------------------- MODULE WorkerLifeProofs --------------------------
(* What WorkerLife keeps, for any number of loops, sockets and signals. *)
EXTENDS WorkerLife, FiniteSetTheorems, TLAPS

Inner == Init /\ [][Next]_vars

-----------------------------------------------------------------------------
(* The delays. *)

Ms == RECONNECT_BASE_MS..RECONNECT_MAX_MS

\* The delays of the attempts up to the bound double, up to the maximum.
LEMMA Delays ==
    /\ Delay(1) = RECONNECT_BASE_MS
    /\ \A n \in 1..AttemptCap :
         /\ Delay(n) \in Ms
         /\ Delay(Smaller(n + 1, AttemptCap)) =
              Smaller(2 * Delay(n), RECONNECT_MAX_MS)
<1>1. Delay(1) = 1000
  <2>1. 2^(1 - 1) = 1
    OBVIOUS
  <2> QED BY <2>1 DEF Delay, Smaller, RECONNECT_BASE_MS, RECONNECT_MAX_MS
<1>2. Delay(2) = 2000
  <2>1. 2^(2 - 1) = 2
    OBVIOUS
  <2> QED BY <2>1 DEF Delay, Smaller, RECONNECT_BASE_MS, RECONNECT_MAX_MS
<1>3. Delay(3) = 4000
  <2>1. 2^(3 - 1) = 4
    OBVIOUS
  <2> QED BY <2>1 DEF Delay, Smaller, RECONNECT_BASE_MS, RECONNECT_MAX_MS
<1>4. Delay(4) = 8000
  <2>1. 2^(4 - 1) = 8
    OBVIOUS
  <2> QED BY <2>1 DEF Delay, Smaller, RECONNECT_BASE_MS, RECONNECT_MAX_MS
<1>5. Delay(5) = 16000
  <2>1. 2^(5 - 1) = 16
    OBVIOUS
  <2> QED BY <2>1 DEF Delay, Smaller, RECONNECT_BASE_MS, RECONNECT_MAX_MS
<1>6. Delay(6) = 30000
  <2>1. 2^(6 - 1) = 32
    OBVIOUS
  <2> QED BY <2>1 DEF Delay, Smaller, RECONNECT_BASE_MS, RECONNECT_MAX_MS
<1>7. ASSUME NEW n \in 1..AttemptCap
      PROVE  /\ Delay(n) \in Ms
             /\ Delay(Smaller(n + 1, AttemptCap)) =
                  Smaller(2 * Delay(n), RECONNECT_MAX_MS)
  <2>1. CASE n = 1
    <3>1. Smaller(n + 1, AttemptCap) = 2
      BY <2>1 DEF Smaller, AttemptCap
    <3>2. Delay(n) = 1000 /\ Delay(Smaller(n + 1, AttemptCap)) = 2000
      BY <2>1, <3>1, <1>1, <1>2
    <3> QED BY <3>2 DEF Smaller, Ms, RECONNECT_BASE_MS, RECONNECT_MAX_MS
  <2>2. CASE n = 2
    <3>1. Smaller(n + 1, AttemptCap) = 3
      BY <2>2 DEF Smaller, AttemptCap
    <3>2. Delay(n) = 2000 /\ Delay(Smaller(n + 1, AttemptCap)) = 4000
      BY <2>2, <3>1, <1>2, <1>3
    <3> QED BY <3>2 DEF Smaller, Ms, RECONNECT_BASE_MS, RECONNECT_MAX_MS
  <2>3. CASE n = 3
    <3>1. Smaller(n + 1, AttemptCap) = 4
      BY <2>3 DEF Smaller, AttemptCap
    <3>2. Delay(n) = 4000 /\ Delay(Smaller(n + 1, AttemptCap)) = 8000
      BY <2>3, <3>1, <1>3, <1>4
    <3> QED BY <3>2 DEF Smaller, Ms, RECONNECT_BASE_MS, RECONNECT_MAX_MS
  <2>4. CASE n = 4
    <3>1. Smaller(n + 1, AttemptCap) = 5
      BY <2>4 DEF Smaller, AttemptCap
    <3>2. Delay(n) = 8000 /\ Delay(Smaller(n + 1, AttemptCap)) = 16000
      BY <2>4, <3>1, <1>4, <1>5
    <3> QED BY <3>2 DEF Smaller, Ms, RECONNECT_BASE_MS, RECONNECT_MAX_MS
  <2>5. CASE n = 5
    <3>1. Smaller(n + 1, AttemptCap) = 6
      BY <2>5 DEF Smaller, AttemptCap
    <3>2. Delay(n) = 16000 /\ Delay(Smaller(n + 1, AttemptCap)) = 30000
      BY <2>5, <3>1, <1>5, <1>6
    <3> QED BY <3>2 DEF Smaller, Ms, RECONNECT_BASE_MS, RECONNECT_MAX_MS
  <2>6. CASE n = 6
    <3>1. Smaller(n + 1, AttemptCap) = 6
      BY <2>6 DEF Smaller, AttemptCap
    <3>2. Delay(n) = 30000 /\ Delay(Smaller(n + 1, AttemptCap)) = 30000
      BY <2>6, <3>1, <1>6
    <3> QED BY <3>2 DEF Smaller, Ms, RECONNECT_BASE_MS, RECONNECT_MAX_MS
  <2>7. n = 1 \/ n = 2 \/ n = 3 \/ n = 4 \/ n = 5 \/ n = 6
    BY DEF AttemptCap
  <2> QED BY <2>1, <2>2, <2>3, <2>4, <2>5, <2>6, <2>7
<1> QED BY <1>1, <1>7 DEF RECONNECT_BASE_MS

-----------------------------------------------------------------------------
(* Loops, sockets and heartbeat. *)

OneCycle ==
    \A l \in Loops :
        /\ proc = "initial" => cycles[l] = 0 /\ timers[l] = 0
        /\ proc = "up" => cycles[l] + timers[l] = 1
        /\ cycles[l] + timers[l] <= 1

\* Every live socket is the current one, and a reconnect is pending exactly
\* when there is none; after a stop at most that.
OneSocket ==
    /\ \A s \in Sockets : sock[s] \in Live => s = cur
    /\ proc = "initial" => sock[cur] = Free /\ reconnects = 0
    /\ proc = "up" => reconnects = IF sock[cur] = Free THEN 1 ELSE 0
    /\ proc = "stopping" => reconnects <= IF sock[cur] = Free THEN 1 ELSE 0

\* The interval that runs is the one that pingTimer holds; a socket that was
\* told to close stays so.
OneBeat ==
    /\ proc = "initial" => ~ping /\ beats = 0
    /\ Alive => beats = IF ping THEN 1 ELSE 0
    /\ proc = "up" => (ping <=> sock[cur] = "open")
    /\ proc = "stopping" => ~ping /\ sock[cur] # "open"
    /\ proc = "up" => \A s \in Sockets : sock[s] # "closing"

\* The attempt counter tells the last delay.
AttemptTellsDelay ==
    IF quiet THEN attempt \in 1..AttemptCap /\ lastDelay = Delay(attempt)
    ELSE attempt = 0

LifeInv == TypeOK /\ OneCycle /\ OneSocket /\ OneBeat /\ AttemptTellsDelay

LEMMA LifeInit == Init => LifeInv
<1> SUFFICES ASSUME Init PROVE LifeInv
  OBVIOUS
<1>1. TypeOK
  <2>1. signals \in 0..MaxSignals /\ handlers \in 0..MaxHandlers
    BY LifeAssumption DEF Init
  <2>2. cycles \in [Loops -> Nat] /\ timers \in [Loops -> Nat]
    BY DEF Init
  <2>3. sock \in [Sockets -> Live \cup {Free}]
    BY DEF Init
  <2>4. attempt \in 0..AttemptCap /\ beats \in Nat /\ reconnects \in Nat
    BY DEF Init, AttemptCap
  <2> QED BY <2>1, <2>2, <2>3, <2>4 DEF Init, TypeOK
<1>2. OneCycle
  BY DEF Init, OneCycle
<1>3. OneSocket
  BY DEF Init, OneSocket, Live, Free
<1>4. OneBeat
  BY DEF Init, OneBeat, Alive
<1>5. AttemptTellsDelay
  BY DEF Init, AttemptTellsDelay
<1> QED BY <1>1, <1>2, <1>3, <1>4, <1>5 DEF LifeInv

LEMMA LifeStep == LifeInv /\ [Next]_vars => LifeInv'
<1> SUFFICES ASSUME LifeInv, [Next]_vars PROVE LifeInv'
  OBVIOUS
<1> USE LifeAssumption
    DEF LifeInv, TypeOK, OneCycle, OneSocket, OneBeat, AttemptTellsDelay,
        loopVars, sockVars, poolVars, Alive, Live, Free
<1>1. CASE InitialEnds
  <2>1. TypeOK'
    BY <1>1 DEF InitialEnds
  <2>2. OneCycle'
    BY <1>1 DEF InitialEnds
  <2>3. OneSocket'
    BY <1>1 DEF InitialEnds
  <2>4. OneBeat'
    BY <1>1 DEF InitialEnds
  <2>5. AttemptTellsDelay'
    BY <1>1 DEF InitialEnds
  <2> QED BY <2>1, <2>2, <2>3, <2>4, <2>5
<1>2. CASE SignalEarly
  <2>1. TypeOK'
    BY <1>2 DEF SignalEarly
  <2>2. OneCycle'
    BY <1>2 DEF SignalEarly
  <2>3. OneSocket'
    BY <1>2 DEF SignalEarly
  <2>4. OneBeat'
    BY <1>2 DEF SignalEarly
  <2>5. AttemptTellsDelay'
    BY <1>2 DEF SignalEarly
  <2> QED BY <2>1, <2>2, <2>3, <2>4, <2>5
<1>3. CASE Signal
  <2>1. TypeOK'
    <3>1. signals' \in 0..MaxSignals /\ beats' \in Nat
      BY <1>3 DEF Signal, BeatsCleared
    <3>2. sock' \in [Sockets -> Live \cup {Free}]
      BY <1>3 DEF Signal
    <3>3. timers' \in [Loops -> Nat]
      BY <1>3 DEF Signal
    <3> QED BY <1>3, <3>1, <3>2, <3>3 DEF Signal
  <2>2. OneCycle'
    BY <1>3 DEF Signal, BeatsCleared
  <2>3. OneSocket'
    BY <1>3 DEF Signal, BeatsCleared
  <2>4. OneBeat'
    BY <1>3 DEF Signal, BeatsCleared
  <2>5. AttemptTellsDelay'
    BY <1>3 DEF Signal, BeatsCleared
  <2> QED BY <2>1, <2>2, <2>3, <2>4, <2>5
<1>4. CASE Exit
  <2>1. TypeOK'
    BY <1>4 DEF Exit
  <2>2. OneCycle'
    BY <1>4 DEF Exit
  <2>3. OneSocket'
    BY <1>4 DEF Exit
  <2>4. OneBeat'
    BY <1>4 DEF Exit
  <2>5. AttemptTellsDelay'
    BY <1>4 DEF Exit
  <2> QED BY <2>1, <2>2, <2>3, <2>4, <2>5
<1>5. CASE HandlerEnds
  <2>1. TypeOK'
    BY <1>5 DEF HandlerEnds
  <2>2. OneCycle'
    BY <1>5 DEF HandlerEnds
  <2>3. OneSocket'
    BY <1>5 DEF HandlerEnds
  <2>4. OneBeat'
    BY <1>5 DEF HandlerEnds
  <2>5. AttemptTellsDelay'
    BY <1>5 DEF HandlerEnds
  <2> QED BY <2>1, <2>2, <2>3, <2>4, <2>5
<1>6. CASE ReconnectTimer
  <2>1. TypeOK'
    BY <1>6 DEF ReconnectTimer
  <2>2. OneCycle'
    BY <1>6 DEF ReconnectTimer
  <2>3. OneSocket'
    BY <1>6 DEF ReconnectTimer
  <2>4. OneBeat'
    BY <1>6 DEF ReconnectTimer
  <2>5. AttemptTellsDelay'
    BY <1>6 DEF ReconnectTimer
  <2> QED BY <2>1, <2>2, <2>3, <2>4, <2>5
<1>7. ASSUME NEW l \in Loops, BeginQuery(l) \/ EndQuery(l)
      PROVE  LifeInv'
  <2>1. TypeOK'
    BY <1>7 DEF BeginQuery, EndQuery
  <2>2. OneCycle'
    BY <1>7 DEF BeginQuery, EndQuery
  <2>3. OneSocket'
    BY <1>7 DEF BeginQuery, EndQuery
  <2>4. OneBeat'
    BY <1>7 DEF BeginQuery, EndQuery
  <2>5. AttemptTellsDelay'
    BY <1>7 DEF BeginQuery, EndQuery
  <2> QED BY <2>1, <2>2, <2>3, <2>4, <2>5
<1>8. ASSUME NEW l \in Loops, EndCycle(l)
      PROVE  LifeInv'
  <2>1. TypeOK'
    BY <1>8 DEF EndCycle
  <2>2. OneCycle'
    BY <1>8 DEF EndCycle
  <2>3. OneSocket'
    BY <1>8 DEF EndCycle
  <2>4. OneBeat'
    BY <1>8 DEF EndCycle
  <2>5. AttemptTellsDelay'
    BY <1>8 DEF EndCycle
  <2> QED BY <2>1, <2>2, <2>3, <2>4, <2>5
<1>9. ASSUME NEW l \in Loops, LoopTimer(l)
      PROVE  LifeInv'
  <2>1. TypeOK'
    BY <1>9 DEF LoopTimer, Started
  <2>2. OneCycle'
    BY <1>9 DEF LoopTimer, Started
  <2>3. OneSocket'
    BY <1>9 DEF LoopTimer, Started
  <2>4. OneBeat'
    BY <1>9 DEF LoopTimer, Started
  <2>5. AttemptTellsDelay'
    BY <1>9 DEF LoopTimer, Started
  <2> QED BY <2>1, <2>2, <2>3, <2>4, <2>5
<1>10. ASSUME NEW s \in Sockets, WsOpen(s)
      PROVE  LifeInv'
  <2>1. TypeOK'
    BY <1>10 DEF WsOpen, BeatsStarted, BeatsCleared
  <2>2. OneCycle'
    BY <1>10 DEF WsOpen, BeatsStarted, BeatsCleared
  <2>3. OneSocket'
    BY <1>10 DEF WsOpen, BeatsStarted, BeatsCleared
  <2>4. OneBeat'
    BY <1>10 DEF WsOpen, BeatsStarted, BeatsCleared
  <2>5. AttemptTellsDelay'
    BY <1>10 DEF WsOpen, BeatsStarted, BeatsCleared
  <2> QED BY <2>1, <2>2, <2>3, <2>4, <2>5
<1>11. ASSUME NEW s \in Sockets, SubscriptionSent(s) \/ SubscriptionFails(s)
      PROVE  LifeInv'
  <2>1. TypeOK'
    BY <1>11 DEF SubscriptionSent, SubscriptionFails
  <2>2. OneCycle'
    BY <1>11 DEF SubscriptionSent, SubscriptionFails
  <2>3. OneSocket'
    BY <1>11 DEF SubscriptionSent, SubscriptionFails
  <2>4. OneBeat'
    BY <1>11 DEF SubscriptionSent, SubscriptionFails
  <2>5. AttemptTellsDelay'
    BY <1>11 DEF SubscriptionSent, SubscriptionFails
  <2> QED BY <2>1, <2>2, <2>3, <2>4, <2>5
<1>12. ASSUME NEW s \in Sockets, PriceEvent(s)
      PROVE  LifeInv'
  <2>1. TypeOK'
    <3>1. handlers' \in 0..MaxHandlers
      BY <1>12 DEF PriceEvent
    <3>2. attempt' \in 0..AttemptCap
      BY <1>12 DEF PriceEvent, AttemptAfterPrice, AttemptCap
    <3> QED BY <1>12, <3>1, <3>2 DEF PriceEvent
  <2>2. OneCycle'
    BY <1>12 DEF PriceEvent, AttemptAfterPrice, AttemptCap
  <2>3. OneSocket'
    BY <1>12 DEF PriceEvent, AttemptAfterPrice, AttemptCap
  <2>4. OneBeat'
    BY <1>12 DEF PriceEvent, AttemptAfterPrice, AttemptCap
  <2>5. AttemptTellsDelay'
    BY <1>12 DEF PriceEvent, AttemptAfterPrice, AttemptCap
  <2> QED BY <2>1, <2>2, <2>3, <2>4, <2>5
<1>13. ASSUME NEW s \in Sockets, WsClose(s), proc = "up"
       PROVE  LifeInv'
  <2> attempt' \in 1..AttemptCap /\ Delay(attempt') \in Ms
    BY <1>13, Delays DEF WsClose, Smaller, AttemptCap
  <2>1. TypeOK'
    <3>0. reconnects' = reconnects + 1 /\ ping' = FALSE
      BY <1>13, Zenon DEF WsClose, Scheduled
    <3>1. beats' \in Nat
      <4>1. beats = IF ping THEN 1 ELSE 0
        BY <1>13
      <4>2. beats' = IF ping THEN beats - 1 ELSE beats
        BY <1>13 DEF WsClose, BeatsCleared
      <4> QED BY <4>1, <4>2
    <3>2. sock' \in [Sockets -> Live \cup {Free}]
      BY <1>13 DEF WsClose
    <3>3. attempt' \in 0..AttemptCap /\ lastDelay' \in {0} \cup Ms
      BY <1>13 DEF WsClose, AttemptCap
    <3>4. reconnects' \in Nat
      <4>1. reconnects \in Nat
        OBVIOUS
      <4> QED BY <3>0, <4>1
    <3>6. ping' \in BOOLEAN
      BY <3>0, Zenon
    <3>5. /\ UNCHANGED <<proc, signals, loopVars, poolVars, cur>>
          /\ quiet' = TRUE
      BY <1>13 DEF WsClose
    <3> QED BY <3>1, <3>2, <3>3, <3>4, <3>5, <3>6 DEF Ms
  <2>2. OneCycle'
    BY <1>13 DEF WsClose, BeatsCleared, Scheduled, Ms, AttemptCap
  <2>3. OneSocket'
    BY <1>13 DEF WsClose, BeatsCleared, Scheduled, Ms, AttemptCap
  <2>4. OneBeat'
    BY <1>13 DEF WsClose, BeatsCleared, Scheduled, Ms, AttemptCap
  <2>5. AttemptTellsDelay'
    BY <1>13 DEF WsClose, BeatsCleared, Scheduled, Ms, AttemptCap
  <2> QED BY <2>1, <2>2, <2>3, <2>4, <2>5
<1>14. ASSUME NEW s \in Sockets, WsClose(s), proc # "up"
       PROVE  LifeInv'
  <2>1. TypeOK'
    BY <1>14 DEF WsClose
  <2>2. OneCycle'
    BY <1>14 DEF WsClose
  <2>3. OneSocket'
    BY <1>14 DEF WsClose
  <2>4. OneBeat'
    BY <1>14 DEF WsClose
  <2>5. AttemptTellsDelay'
    BY <1>14 DEF WsClose
  <2> QED BY <2>1, <2>2, <2>3, <2>4, <2>5
<1>15. CASE UNCHANGED vars
  <2>1. TypeOK'
    BY <1>15 DEF vars
  <2>2. OneCycle'
    BY <1>15 DEF vars
  <2>3. OneSocket'
    BY <1>15 DEF vars
  <2>4. OneBeat'
    BY <1>15 DEF vars
  <2>5. AttemptTellsDelay'
    BY <1>15 DEF vars
  <2> QED BY <2>1, <2>2, <2>3, <2>4, <2>5
<1> QED BY <1>1, <1>2, <1>3, <1>4, <1>5, <1>6, <1>7, <1>8, <1>9, <1>10, <1>11,
           <1>12, <1>13, <1>14, <1>15 DEF Next, LoopStep, SocketStep

\* The strengthening holds throughout.
LEMMA LifeAlways == Spec => []LifeInv
<1>1. LifeInv /\ [Next]_vars => LifeInv'
  BY LifeStep
<1> QED BY LifeInit, <1>1, PTL DEF Spec

-----------------------------------------------------------------------------
(* The properties. *)

\* Every variable keeps its type: what connect, the loops and the signal
\* handlers assign to them.
THEOREM LifeTypeCorrect == Spec => []TypeOK
<1>1. LifeInv => TypeOK
  BY DEF LifeInv
<1> QED BY LifeAlways, <1>1, PTL

\* Of each loop there is one cycle or one timer: runOnce never overlaps itself.
THEOREM LoopsCorrect == Spec => []LoopsNeverOverlap
<1>1. LifeInv => LoopsNeverOverlap
  BY DEF LifeInv, OneCycle, LoopsNeverOverlap
<1> QED BY LifeAlways, <1>1, PTL

\* One socket or one pending reconnect, and one heartbeat from its open event
\* to its close event:
\* the close handler and connect never run twice for one socket.
THEOREM OneSocketCorrect == Spec => []OneSocketOneHeartbeat
<1>1. ASSUME LifeInv PROVE OneSocketOneHeartbeat
  <2> DEFINE live == {s \in Sockets : sock[s] \in Live}
  <2>1. live = IF sock[cur] = Free THEN {} ELSE {cur}
    BY <1>1 DEF LifeInv, TypeOK, OneSocket, Live, Free
  <2>2. Cardinality(live) = IF sock[cur] = Free THEN 0 ELSE 1
    BY <2>1, FS_EmptySet, FS_Singleton
  <2>3. Alive => beats = IF proc = "up" /\ sock[cur] = "open" THEN 1 ELSE 0
    BY <1>1 DEF LifeInv, TypeOK, OneBeat, Alive
  <2> QED BY <1>1, <2>2, <2>3
          DEF LifeInv, TypeOK, OneSocket, OneSocketOneHeartbeat
<1> QED BY LifeAlways, <1>1, PTL

\* The delays between reconnects double from a price event on, up to the
\* maximum: the attempt counter of connect tells the last delay.
THEOREM BackoffCorrect == Spec => BackoffDoubles
<1> DEFINE A == reconnects' > reconnects =>
                  lastDelay' = IF quiet
                               THEN Smaller(2 * lastDelay, RECONNECT_MAX_MS)
                               ELSE RECONNECT_BASE_MS
<1>1. ASSUME LifeInv, [Next]_vars PROVE [A]_vars
  <2>1. CASE \E s \in Sockets : WsClose(s) /\ proc = "up"
    <3>1. /\ attempt' = Smaller(attempt + 1, AttemptCap)
          /\ lastDelay' = Delay(attempt')
      BY <2>1 DEF WsClose
    <3>2. CASE quiet
      <4>1. attempt \in 1..AttemptCap /\ lastDelay = Delay(attempt)
        BY <1>1, <3>2 DEF LifeInv, AttemptTellsDelay
      <4> QED BY <3>1, <3>2, <4>1, Delays
    <3>3. CASE ~quiet
      <4>1. attempt' = 1
        BY <1>1, <3>1, <3>3 DEF LifeInv, AttemptTellsDelay, Smaller, AttemptCap
      <4> QED BY <3>1, <3>3, <4>1, Delays
    <3> QED BY <3>2, <3>3
  <2>2. CASE ~ \E s \in Sockets : WsClose(s) /\ proc = "up"
    <3>1. reconnects' <= reconnects
      <4>1. CASE ReconnectTimer
        BY <1>1, <4>1 DEF LifeInv, TypeOK, ReconnectTimer
      <4>2. CASE ~ReconnectTimer
        <5>1. reconnects' = reconnects
          BY <1>1, <2>2, <4>2
             DEF Next, LoopStep, SocketStep, vars, loopVars, sockVars,
                 poolVars, InitialEnds, SignalEarly, Signal, Exit, HandlerEnds,
                 BeginQuery, EndQuery, EndCycle, LoopTimer, WsOpen,
                 SubscriptionSent, SubscriptionFails, PriceEvent, WsClose
        <5> QED BY <1>1, <5>1 DEF LifeInv, TypeOK
      <4> QED BY <4>1, <4>2
    <3>2. reconnects' \in Nat /\ reconnects \in Nat
      BY <1>1, LifeStep DEF LifeInv, TypeOK
    <3> QED BY <3>1, <3>2
  <2> QED BY <2>1, <2>2
<1> QED BY LifeAlways, <1>1, PTL DEF Spec, BackoffDoubles

\* Once stopped, no cycle begins and no client of the pool is taken: runOnce
\* returns, and a query of an ended pool is rejected.
THEOREM StopCorrect == Spec => NothingStartsAfterStop
<1> DEFINE A == proc # "up" /\ proc # "initial" =>
                  /\ held' \subseteq held /\ handlers' <= handlers
                  /\ subscribing' \subseteq subscribing
                  /\ \A l \in Loops : cycles'[l] <= cycles[l]
<1>1. ASSUME LifeInv, [Next]_vars, proc # "up", proc # "initial"
      PROVE  /\ held' \subseteq held /\ handlers' <= handlers
             /\ subscribing' \subseteq subscribing
             /\ \A l \in Loops : cycles'[l] <= cycles[l]
  <2> /\ handlers \in Nat /\ cycles \in [Loops -> Nat]
    BY <1>1, LifeAssumption DEF LifeInv, TypeOK
  <2>1. held' \subseteq held
    BY <1>1
       DEF Next, LoopStep, SocketStep, vars, loopVars, sockVars, poolVars,
           InitialEnds, SignalEarly, Signal, Exit, HandlerEnds, ReconnectTimer,
           BeginQuery, EndQuery, EndCycle, LoopTimer, WsOpen,
           SubscriptionSent, SubscriptionFails, PriceEvent, WsClose
  <2>2. handlers' <= handlers
    BY <1>1
       DEF Next, LoopStep, SocketStep, vars, loopVars, sockVars, poolVars,
           InitialEnds, SignalEarly, Signal, Exit, HandlerEnds, ReconnectTimer,
           BeginQuery, EndQuery, EndCycle, LoopTimer, WsOpen,
           SubscriptionSent, SubscriptionFails, PriceEvent, WsClose
  <2>3. subscribing' \subseteq subscribing
    BY <1>1
       DEF Next, LoopStep, SocketStep, vars, loopVars, sockVars, poolVars,
           InitialEnds, SignalEarly, Signal, Exit, HandlerEnds, ReconnectTimer,
           BeginQuery, EndQuery, EndCycle, LoopTimer, WsOpen,
           SubscriptionSent, SubscriptionFails, PriceEvent, WsClose
  <2>4. \A l \in Loops : cycles'[l] <= cycles[l]
    <3>1. CASE \E l \in Loops : EndCycle(l)
      BY <1>1, <3>1 DEF EndCycle
    <3>2. CASE ~ \E l \in Loops : EndCycle(l)
      <4>1. cycles' = cycles
        <5>1. CASE \E l \in Loops : LoopTimer(l)
          BY <1>1, <5>1 DEF LoopTimer, Started
        <5> QED BY <1>1, <3>2, <5>1
             DEF Next, LoopStep, SocketStep, vars, loopVars, sockVars,
                 poolVars, InitialEnds, SignalEarly, Signal, Exit, HandlerEnds,
                 ReconnectTimer, BeginQuery, EndQuery, WsOpen,
                 SubscriptionSent, SubscriptionFails, PriceEvent, WsClose
      <4> QED BY <4>1
    <3> QED BY <3>1, <3>2
  <2> QED BY <2>1, <2>2, <2>3, <2>4
<1>2. LifeInv /\ [Next]_vars => [A]_vars
  BY <1>1
<1> QED BY LifeAlways, <1>2, PTL DEF Spec, NothingStartsAfterStop
=============================================================================
