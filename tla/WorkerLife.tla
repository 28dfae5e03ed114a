----------------------------- MODULE WorkerLife -----------------------------
(***************************************************************************)
(* The life of the worker process: the first pass of the loops, their      *)
(* timers, the market socket with its reconnects and its heartbeat, the    *)
(* connection pool, and the signals that end it all.                       *)
(*                                                                         *)
(* What a loop or a message handler does to the tables is WorkerSync; here *)
(* it only holds a client of the pool or not.  An error of a loop or of a  *)
(* message handler is caught and has the effect of an early end.  An error *)
(* of the query at open is not caught: it is an unhandled rejection, which *)
(* ends the process, and so is the one of a second pool.end().             *)
(***************************************************************************)
EXTENDS Integers, FiniteSets

CONSTANTS
    Loops,
    Sockets,      \* bound: sockets that exist at once
    MaxHandlers,  \* bound: message handlers that hold a client at once
    MaxSignals    \* bound: signals that are ever sent

ASSUME LifeAssumption == MaxHandlers \in Nat /\ MaxSignals \in Nat

RECONNECT_BASE_MS == 1000
RECONNECT_MAX_MS == 30000

\* Bound: the attempt counter stops where the delay has reached its maximum.
AttemptCap == 6

VARIABLES
    proc,         \* initial, up, stopping, or how the process ended
    signals,      \* signals so far
    cycles,       \* [Loops -> cycles under way]
    timers,       \* [Loops -> timers in loopTimers, or set after a stop]
    held,         \* loops that hold a client of the pool
    handlers,     \* message handlers that hold one
    subscribing,  \* sockets whose query at open holds one
    sock,         \* [Sockets -> state]
    cur,          \* the variable ws
    reconnects,   \* pending setTimeout(connect)
    attempt,
    ping,         \* pingTimer is set
    beats,        \* intervals of the heartbeat that run
    \* history, for the properties only:
    lastDelay,    \* the last delay of a reconnect
    quiet         \* no price event since that reconnect was scheduled

loopVars == <<cycles, timers, held>>
sockVars == <<sock, cur, reconnects, attempt, ping, beats, lastDelay, quiet>>
poolVars == <<handlers, subscribing>>
vars == <<proc, signals, loopVars, sockVars, poolVars>>

Free == "none"
Live == {"connecting", "open", "closing"}

TypeOK ==
    /\ proc \in {"initial", "up", "stopping", "exited", "crashed", "killed"}
    /\ signals \in 0..MaxSignals
    /\ cycles \in [Loops -> Nat]
    /\ timers \in [Loops -> Nat]
    /\ held \subseteq Loops
    /\ handlers \in 0..MaxHandlers
    /\ subscribing \subseteq Sockets
    /\ sock \in [Sockets -> Live \cup {Free}]
    /\ cur \in Sockets
    /\ reconnects \in Nat
    /\ attempt \in 0..AttemptCap
    /\ ping \in BOOLEAN
    /\ beats \in Nat
    /\ lastDelay \in {0} \cup RECONNECT_BASE_MS..RECONNECT_MAX_MS
    /\ quiet \in BOOLEAN

Init ==
    /\ proc = "initial"
    /\ signals = 0
    /\ cycles = [l \in Loops |-> 0]
    /\ timers = [l \in Loops |-> 0]
    /\ held = {}
    /\ handlers = 0
    /\ subscribing = {}
    /\ sock = [s \in Sockets |-> Free]
    /\ cur \in Sockets
    /\ reconnects = 0
    /\ attempt = 0
    /\ ping = FALSE
    /\ beats = 0
    /\ lastDelay = 0
    /\ quiet = FALSE

Alive == proc \in {"up", "stopping"}

-----------------------------------------------------------------------------
(* The loops. *)

\* bootstrap after the first pass of each loop, whose errors are caught: the
\* loops start, then the socket connects.
InitialEnds ==
    /\ proc = "initial"
    /\ proc' = "up"
    /\ cycles' = [l \in Loops |-> 1]
    /\ sock' = [sock EXCEPT ![cur] = "connecting"]
    /\ UNCHANGED <<signals, timers, held, poolVars, cur, reconnects, attempt,
                   ping, beats, lastDelay, quiet>>

BeginQuery(l) ==
    /\ proc = "up" /\ cycles[l] > 0 /\ l \notin held
    /\ held' = held \cup {l}
    /\ UNCHANGED <<proc, signals, cycles, timers, sockVars, poolVars>>

\* A statement or transaction that ends, one way or the other, releases its
\* client.
EndQuery(l) ==
    /\ Alive /\ l \in held
    /\ held' = held \ {l}
    /\ UNCHANGED <<proc, signals, cycles, timers, sockVars, poolVars>>

\* runOnce after its cycle: it sets the timer whether stopped or not.
EndCycle(l) ==
    /\ Alive /\ cycles[l] > 0 /\ l \notin held
    /\ cycles' = [cycles EXCEPT ![l] = @ - 1]
    /\ timers' = [timers EXCEPT ![l] = @ + 1]
    /\ UNCHANGED <<proc, signals, held, sockVars, poolVars>>

\* Mutant: the flag is not looked at.
Started_Unchecked(l) == cycles[l] + 1
Started(l) == IF proc = "up" THEN cycles[l] + 1 ELSE cycles[l]

\* Mutant: an interval, which goes on while its cycle runs.
LoopTimer_Interval(l) ==
    /\ Alive /\ timers[l] > 0
    /\ cycles' = [cycles EXCEPT ![l] = Started(l)]
    /\ UNCHANGED <<proc, signals, timers, held, sockVars, poolVars>>
\* The timer of a loop: the next runOnce, which returns once stopped.
LoopTimer(l) ==
    /\ Alive /\ timers[l] > 0
    /\ timers' = [timers EXCEPT ![l] = @ - 1]
    /\ cycles' = [cycles EXCEPT ![l] = Started(l)]
    /\ UNCHANGED <<proc, signals, held, sockVars, poolVars>>

-----------------------------------------------------------------------------
(* The market socket. *)

\* Mutant: forgets the timer without clearing it.
BeatsCleared_Forgotten == beats
\* clearHeartbeat.
BeatsCleared == IF ping THEN beats - 1 ELSE beats

\* startHeartbeat.
BeatsStarted == BeatsCleared + 1

\* Opening starts the heartbeat and the query for the assets to subscribe.
\* Once the pool has ended that query is rejected, and nobody catches it.
WsOpen(s) ==
    /\ Alive /\ sock[s] = "connecting"
    /\ sock' = [sock EXCEPT ![s] = "open"]
    /\ ping' = TRUE
    /\ beats' = BeatsStarted
    /\ IF proc = "up"
       THEN subscribing' = subscribing \cup {s} /\ UNCHANGED proc
       ELSE proc' = "crashed" /\ UNCHANGED subscribing
    /\ UNCHANGED <<signals, loopVars, handlers, cur, reconnects, attempt,
                   lastDelay, quiet>>

\* sendInitialSubscription goes on: what it sends is not modelled.
SubscriptionSent(s) ==
    /\ Alive /\ s \in subscribing
    /\ subscribing' = subscribing \ {s}
    /\ UNCHANGED <<proc, signals, loopVars, sockVars, handlers>>

SubscriptionFails(s) ==
    /\ Alive /\ s \in subscribing
    /\ proc' = "crashed"
    /\ UNCHANGED <<signals, loopVars, sockVars, poolVars>>

\* Mutant: a price event leaves the counter alone.
AttemptAfterPrice_Kept == attempt
AttemptAfterPrice == 0

\* A message with a price: its handler queries while the pool lasts.  One that
\* comes while the socket closes after a stop would reset a counter that
\* nothing reads any more.
PriceEvent(s) ==
    /\ Alive /\ sock[s] = "open"
    /\ attempt' = AttemptAfterPrice
    /\ quiet' = FALSE
    /\ handlers' \in IF proc = "up" /\ handlers < MaxHandlers
                     THEN {handlers + 1} ELSE {handlers}
    /\ UNCHANGED <<proc, signals, loopVars, subscribing, sock, cur, reconnects,
                   ping, beats, lastDelay>>

HandlerEnds ==
    /\ Alive /\ handlers > 0
    /\ handlers' = handlers - 1
    /\ UNCHANGED <<proc, signals, loopVars, sockVars, subscribing>>

Smaller(a, b) == IF a < b THEN a ELSE b

\* Mutant: one doubling too many.
Delay_OffByOne(n) == Smaller(RECONNECT_BASE_MS * 2 ^ n, RECONNECT_MAX_MS)
\* Math.min(RECONNECT_BASE_MS * 2 ** (attempt - 1), RECONNECT_MAX_MS)
Delay(n) == Smaller(RECONNECT_BASE_MS * 2 ^ (n - 1), RECONNECT_MAX_MS)

\* Mutant: the error event that precedes a close schedules one as well.
Scheduled_OnErrorToo == reconnects + 2
\* Mutant: gives up once the delay is at its maximum.
Scheduled_GivesUp == IF attempt < AttemptCap THEN reconnects + 1 ELSE reconnects
Scheduled == reconnects + 1

\* The close event.
WsClose(s) ==
    /\ Alive /\ sock[s] \in Live
    /\ sock' = [sock EXCEPT ![s] = Free]
    /\ IF proc = "up"
       THEN /\ ping' = FALSE /\ beats' = BeatsCleared
            /\ attempt' = Smaller(attempt + 1, AttemptCap)
            /\ reconnects' = Scheduled
            /\ lastDelay' = Delay(attempt')
            /\ quiet' = TRUE
       ELSE UNCHANGED <<ping, beats, attempt, reconnects, lastDelay, quiet>>
    /\ UNCHANGED <<proc, signals, loopVars, poolVars, cur>>

\* connect, from its timer; nothing keeps it from running after a stop.
ReconnectTimer ==
    /\ Alive /\ reconnects > 0
    /\ reconnects' = reconnects - 1
    /\ \E s \in Sockets \ subscribing :
         /\ sock[s] = Free
         /\ sock' = [sock EXCEPT ![s] = "connecting"]
         /\ cur' = s
    /\ UNCHANGED <<proc, signals, loopVars, poolVars, attempt, ping, beats,
                   lastDelay, quiet>>

-----------------------------------------------------------------------------
(* Signals and the end. *)

\* Before bootstrap has come to its handlers a signal ends the process.
SignalEarly ==
    /\ proc = "initial" /\ signals < MaxSignals
    /\ signals' = signals + 1
    /\ proc' = "killed"
    /\ UNCHANGED <<loopVars, sockVars, poolVars>>

\* The handlers of a signal up to the await: stopped is set, the timers are
\* cleared, the socket is told to close, the pool is ended.  A second
\* pool.end() is rejected.
Signal ==
    /\ Alive /\ signals < MaxSignals
    /\ signals' = signals + 1
    /\ proc' = IF proc = "up" THEN "stopping" ELSE "crashed"
    /\ timers' = [l \in Loops |-> 0]
    /\ ping' = FALSE
    /\ beats' = BeatsCleared
    /\ sock' = [sock EXCEPT ![cur] = IF @ = Free THEN @ ELSE "closing"]
    /\ UNCHANGED <<cycles, held, poolVars, cur, reconnects, attempt, lastDelay,
                   quiet>>

\* Mutant: no process.exit, the process ends when nothing is pending.
MayExit_WhenIdle ==
    /\ held = {} /\ handlers = 0 /\ subscribing = {}
    /\ reconnects = 0 /\ \A s \in Sockets : sock[s] = Free
    /\ \A l \in Loops : cycles[l] = 0 /\ timers[l] = 0
\* pool.end() resolves when no client is held.
MayExit == held = {} /\ handlers = 0 /\ subscribing = {}

Exit ==
    /\ proc = "stopping" /\ MayExit
    /\ proc' = "exited"
    /\ UNCHANGED <<signals, loopVars, sockVars, poolVars>>

-----------------------------------------------------------------------------
LoopStep(l) ==
    BeginQuery(l) \/ EndQuery(l) \/ EndCycle(l) \/ LoopTimer(l)

SocketStep(s) ==
    \/ WsOpen(s) \/ SubscriptionSent(s) \/ SubscriptionFails(s)
    \/ PriceEvent(s) \/ WsClose(s)

Next ==
    \/ InitialEnds \/ SignalEarly \/ Signal \/ Exit
    \/ HandlerEnds \/ ReconnectTimer
    \/ \E l \in Loops : LoopStep(l)
    \/ \E s \in Sockets : SocketStep(s)

\* Timers fire, statements end, a cycle comes to its last wallet, the first
\* pass ends; and the venue does not refuse every attempt.
Fairness ==
    /\ WF_vars(InitialEnds) /\ WF_vars(Exit)
    /\ WF_vars(HandlerEnds) /\ WF_vars(ReconnectTimer)
    /\ \A l \in Loops :
         /\ WF_vars(EndQuery(l)) /\ SF_vars(EndCycle(l)) /\ WF_vars(LoopTimer(l))
    /\ \A s \in Sockets :
         /\ WF_vars(SubscriptionSent(s) \/ SubscriptionFails(s))
         /\ SF_vars(WsOpen(s))

Spec == Init /\ [][Next]_vars /\ Fairness

-----------------------------------------------------------------------------
\* A loop has one cycle under way or one timer, so that its cycles never
\* overlap; after a stop at most the cycle that was under way, or the timer
\* it set.
LoopsNeverOverlap ==
    \A l \in Loops :
        /\ proc = "up" => cycles[l] + timers[l] = 1
        /\ cycles[l] + timers[l] <= 1

\* Until it is stopped the worker has one socket or one pending reconnect;
\* one heartbeat runs while the socket is open, and none otherwise.  Open is a
\* socket from its open event to its close event: that its readyState may be
\* CLOSING in between, when the venue ends it, makes no step of the worker.
OneSocketOneHeartbeat ==
    LET live == Cardinality({s \in Sockets : sock[s] \in Live}) IN
    /\ proc = "up" => live + reconnects = 1
    /\ proc = "stopping" => live + reconnects <= 1
    /\ Alive => beats = IF proc = "up" /\ sock[cur] = "open" THEN 1 ELSE 0

\* From a price event on, the delays double from the base to the maximum, and
\* stay there until the next price event: an open socket that is silent does
\* not count as a recovery.
BackoffDoubles ==
    [][reconnects' > reconnects =>
         lastDelay' = IF quiet THEN Smaller(2 * lastDelay, RECONNECT_MAX_MS)
                      ELSE RECONNECT_BASE_MS]_vars

\* Once stopped, no cycle begins and no client of the pool is taken any more.
\* (Who holds one goes on to the end of what it uses it for, with the later
\* statements of a transaction.)
NothingStartsAfterStop ==
    [][proc # "up" /\ proc # "initial" =>
         /\ held' \subseteq held /\ handlers' <= handlers
         /\ subscribing' \subseteq subscribing
         /\ \A l \in Loops : cycles'[l] <= cycles[l]]_vars

\* While the process is up every loop goes on having cycles, whatever fails
\* in them, and the socket comes back.
WorkerKeepsGoing ==
    /\ \A l \in Loops :
         /\ []<>(proc # "up" \/ cycles[l] = 0)
         /\ []<>(proc # "up" \/ cycles[l] > 0)
    /\ []<>(proc # "up" \/ \E s \in Sockets : sock[s] = "open")

\* A worker that is told to stop ends.
StopEnds == (proc = "stopping") ~> (proc \in {"exited", "crashed"})
=============================================================================
