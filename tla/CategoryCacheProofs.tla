------------------------- MODULE CategoryCacheProofs -------------------------
(***************************************************************************)
(* Proofs about CategoryCache, for any number of calls, events, categories *)
(* and workers.                                                            *)
(***************************************************************************)
EXTENDS CategoryCache, FiniteSetTheorems, TLAPS

\* A call with an event to ask for has a worker.
LEMMA WorkerCountType ==
  ASSUME NEW E \in SUBSET Events, E # {}
  PROVE  WorkerCount(E) \in 1..Concurrency
<1>1. IsFiniteSet(E)
  BY EventsAssumption, FS_Subset
<1>2. Cardinality(E) \in Nat /\ Cardinality(E) # 0
  BY <1>1, FS_CardinalityType, FS_EmptySet
<1>3. QED
  BY <1>2, ConcurrencyAssumption DEF WorkerCount

LEMMA NoWorkerIsNone == NoWorker \notin Workers
BY ConcurrencyAssumption DEF NoWorker, Workers

-----------------------------------------------------------------------------
(* The inductive invariant. *)

\* What a worker awaits: nothing when idle, else an event, as long as its loop
\* has not ended.
WorkersAwait ==
    /\ \A w \in Workers : at[w] = "idle" =>
          resolved[w] = "none" /\ w \notin requests /\ w \notin started
    /\ \A w \in Workers : at[w] # "idle" => w \in active
    /\ requests \subseteq started
    /\ \A w \in requests : resolved[w] = "none"

\* What it will be given is what the tags say, or the fallback.
AnswersSound ==
    /\ \A w \in Workers : at[w] # "idle" =>
          resolved[w] \in {CategoryOf[at[w]], "Other", "none"}
    /\ \A c \in Calls, e \in Events :
          answer[c][e] \in {CategoryOf[e], "Other", "none"}

\* Every event of a call waits in the queue, is awaited, or is answered; and
\* somebody is there to empty the queue.
NothingLost ==
    /\ \A c \in Calls : \A e \in asked[c] :
          \/ e \in queue[c]
          \/ \E w \in active : w[1] = c /\ at[w] = e
          \/ answer[c][e] # "none"
    /\ \A c \in Calls : queue[c] # {} => \E w \in active : w[1] = c

IInv == /\ TypeOK /\ WorkersAwait /\ InFlightIsOwned /\ FailuresNotCached
        /\ AnswersSound /\ NothingLost

LEMMA InitInv == Init => IInv
BY CategoriesAssumption, CategoryOfAssumption, EventsAssumption
   DEF Init, IInv, TypeOK, WorkersAwait, InFlightIsOwned, FailuresNotCached,
       AnswersSound, NothingLost

LEMMA NextType ==
  ASSUME TypeOK, WorkersAwait, [Next]_vars
  PROVE  TypeOK'
<1>1. ASSUME NEW c \in Calls, NEW E \in SUBSET Events, StartCall(c, E)
      PROVE  TypeOK'
  <2>1. {<<c, i>> : i \in 1..WorkerCount(E)} \subseteq Workers
    BY <1>1, WorkerCountType, ConcurrencyAssumption DEF StartCall, Workers
  <2>2. QED
    BY <1>1, <2>1 DEF StartCall, TypeOK
<1>2. ASSUME NEW w \in Workers, NEW e \in Events, Shift(w, e)
      PROVE  TypeOK'
  <2>1. w[1] \in Calls
    BY DEF Workers
  <2>2. /\ queue' \in [Calls -> SUBSET Events]
        /\ at' \in [Workers -> Events \cup {"idle"}]
        /\ cache' \in [Events -> Categories \cup {"none"}]
        /\ expired' \in SUBSET Events
    BY <1>2, <2>1 DEF Shift, DropExpired, TypeOK
  <2>3. /\ inFlight' \in [Events -> Workers \cup {NoWorker}]
        /\ started' \in SUBSET Workers
        /\ requests' \in SUBSET Workers
        /\ resolved' \in [Workers -> Categories \cup {"none"}]
    BY <1>2 DEF Shift, JoinOrStart, Joins, TypeOK
  <2>4. QED
    BY <1>2, <2>2, <2>3 DEF Shift, TypeOK
<1>3. ASSUME NEW w \in Workers, FetchSucceeds(w) \/ FetchMalformed(w)
      PROVE  TypeOK'
  <2>1. PICK category \in {CategoryOf[at[w]], "Other"} :
           FetchAnswered(w, category)
    BY <1>3 DEF FetchSucceeds, FetchMalformed
  <2>2. at[w] \in Events
    BY <2>1 DEF FetchAnswered, TypeOK, WorkersAwait
  <2>3. category \in Categories
    BY <2>2, CategoriesAssumption, CategoryOfAssumption
  <2>4. misread' \in SUBSET Events
    BY <1>3, <2>2 DEF FetchSucceeds, FetchMalformed, TypeOK
  <2>5. QED
    BY <2>1, <2>2, <2>3, <2>4 DEF FetchAnswered, CacheSet, Resolve, TypeOK
<1>4. ASSUME NEW w \in Workers, FetchFails(w) PROVE TypeOK'
  BY <1>4, CategoriesAssumption DEF FetchFails, KeepFailure, Resolve, TypeOK
<1>5. ASSUME NEW w \in Workers, Resume(w) PROVE TypeOK'
  <2>1. w[1] \in Calls /\ at[w] \in Events
    BY <1>5 DEF Workers, Resume, TypeOK, WorkersAwait
  <2>2. answer' \in [Calls -> [Events -> Categories \cup {"none"}]]
    BY <1>5, <2>1 DEF Resume, TypeOK
  <2>3. QED
    BY <1>5, <2>1, <2>2 DEF Resume, Forget, TypeOK
<1>6. ASSUME NEW w \in Workers, WorkerEnds(w) PROVE TypeOK'
  BY <1>6 DEF WorkerEnds, TypeOK
<1>7. ASSUME NEW c \in Calls, Return(c) PROVE TypeOK'
  BY <1>7 DEF Return, TypeOK
<1>8. ASSUME NEW e \in Events, Expire(e) PROVE TypeOK'
  BY <1>8 DEF Expire, TypeOK
<1>9. CASE UNCHANGED vars
  BY <1>9 DEF vars, TypeOK
<1>10. QED
  BY <1>1, <1>2, <1>3, <1>4, <1>5, <1>6, <1>7, <1>8, <1>9
  DEF Next, WorkerStep, RequestEnds

Rest == /\ WorkersAwait /\ InFlightIsOwned /\ FailuresNotCached
        /\ AnswersSound /\ NothingLost

LEMMA StartKeeps ==
  ASSUME IInv, NEW c \in Calls, NEW E \in SUBSET Events, StartCall(c, E)
  PROVE  Rest'
<1>1. UNCHANGED <<misread, at, inFlight, started, requests, resolved, cache,
                  answer>>
  BY DEF StartCall
<1>2. active \subseteq active' /\ <<c, 1>> \in active' /\ <<c, 1>>[1] = c
  BY WorkerCountType, ConcurrencyAssumption DEF StartCall
<1>3. WorkersAwait' /\ InFlightIsOwned' /\ FailuresNotCached' /\ AnswersSound'
  BY <1>1, <1>2 DEF IInv, WorkersAwait, InFlightIsOwned, FailuresNotCached,
                    Said, AnswersSound
<1>4. /\ asked' = [asked EXCEPT ![c] = E] /\ queue' = [queue EXCEPT ![c] = E]
      /\ asked \in [Calls -> SUBSET Events] /\ queue \in [Calls -> SUBSET Events]
  BY DEF StartCall, IInv, TypeOK
<1>5. NothingLost'
  BY <1>1, <1>2, <1>4 DEF IInv, NothingLost
<1>6. QED
  BY <1>3, <1>5 DEF Rest

\* A worker that goes to the next event gives up nothing: it was idle.
LEMMA ShiftKeeps ==
  ASSUME IInv, NEW w \in Workers, NEW e \in Events, Shift(w, e)
  PROVE  Rest'
<1> USE DEF IInv, TypeOK
<1>1. /\ w \in active /\ at[w] = "idle" /\ resolved[w] = "none"
      /\ w \notin requests /\ w \notin started
      /\ at' = [at EXCEPT ![w] = e] /\ e # "idle"
      /\ UNCHANGED <<asked, active, answer>>
  BY EventsAssumption DEF Shift, WorkersAwait
<1>2. FailuresNotCached'
  BY <1>1 DEF Shift, DropExpired, FailuresNotCached, Said
<1>3. ASSUME Hit(e)
      PROVE  WorkersAwait' /\ InFlightIsOwned' /\ AnswersSound'
  <2>1. /\ resolved' = [resolved EXCEPT ![w] = cache[e]]
        /\ UNCHANGED <<inFlight, started, requests>>
    BY <1>3 DEF Shift
  <2>2. cache[e] \in {CategoryOf[e], "Other"}
    BY <1>3 DEF Hit, FailuresNotCached, Said
  <2>3. WorkersAwait'
    BY <1>1, <2>1 DEF WorkersAwait
  <2>4. InFlightIsOwned'
    BY <1>1, <2>1, NoWorkerIsNone DEF InFlightIsOwned
  <2>5. AnswersSound'
    BY <1>1, <2>1, <2>2 DEF AnswersSound
  <2>6. QED
    BY <2>3, <2>4, <2>5
<1>4. ASSUME ~Hit(e), Joins(e)
      PROVE  WorkersAwait' /\ InFlightIsOwned' /\ AnswersSound'
  <2>1. /\ resolved' = [resolved EXCEPT ![w] = resolved[inFlight[e]]]
        /\ UNCHANGED <<inFlight, started, requests>>
    BY <1>4 DEF Shift, JoinOrStart
  <2>2. inFlight[e] \in Workers /\ at[inFlight[e]] = e
    BY <1>4 DEF Joins, InFlightIsOwned
  <2>3. WorkersAwait'
    BY <1>1, <2>1 DEF WorkersAwait
  <2>4. InFlightIsOwned'
    BY <1>1, <2>1, NoWorkerIsNone DEF InFlightIsOwned
  <2>5. AnswersSound'
    BY <1>1, <2>1, <2>2 DEF AnswersSound
  <2>6. QED
    BY <2>3, <2>4, <2>5
<1>5. ASSUME ~Hit(e), ~Joins(e)
      PROVE  WorkersAwait' /\ InFlightIsOwned' /\ AnswersSound'
  <2>1. /\ inFlight' = [inFlight EXCEPT ![e] = w]
        /\ started' = started \cup {w} /\ requests' = requests \cup {w}
        /\ resolved' = resolved /\ inFlight[e] = NoWorker
    BY <1>5 DEF Shift, JoinOrStart, Joins
  <2>2. WorkersAwait'
    BY <1>1, <2>1 DEF WorkersAwait
  <2>3. \A v \in started : at[v] # e
    BY <2>1, NoWorkerIsNone DEF InFlightIsOwned
  <2>4. InFlightIsOwned'
    BY <1>1, <2>1, <2>3, NoWorkerIsNone DEF InFlightIsOwned, WorkersAwait
  <2>5. AnswersSound'
    BY <1>1, <2>1 DEF AnswersSound
  <2>6. QED
    BY <2>2, <2>4, <2>5
<1>6. WorkersAwait' /\ InFlightIsOwned' /\ AnswersSound'
  BY <1>3, <1>4, <1>5
<1>7. w[1] \in Calls /\ queue' = [queue EXCEPT ![w[1]] = @ \ {e}]
  BY DEF Workers, Shift
<1>8. NothingLost'
  BY <1>1, <1>7, EventsAssumption DEF NothingLost
<1>9. QED
  BY <1>2, <1>6, <1>8 DEF Rest

\* An answer of the tags service reaches those that await that event.
LEMMA AnswerKeeps ==
  ASSUME IInv, NEW w \in Workers, RequestEnds(w)
  PROVE  Rest'
<1> USE DEF IInv, TypeOK
<1>1. PICK category \in {CategoryOf[at[w]], "Other"} : Resolve(w, category)
  BY DEF RequestEnds, FetchSucceeds, FetchMalformed, FetchAnswered, FetchFails
<1>2. /\ w \in requests /\ at[w] \in Events
      /\ UNCHANGED <<asked, queue, active, at, inFlight, started, answer>>
  BY DEF RequestEnds, FetchSucceeds, FetchMalformed, FetchAnswered, FetchFails,
         WorkersAwait
<1>3. FailuresNotCached'
  <2>1. CASE FetchSucceeds(w)
    BY <1>2, <2>1 DEF FetchSucceeds, FetchAnswered, CacheSet,
       FailuresNotCached, Said
  <2>2. CASE FetchMalformed(w)
    BY <1>2, <2>2 DEF FetchMalformed, FetchAnswered, CacheSet,
       FailuresNotCached, Said
  <2>3. CASE FetchFails(w)
    BY <2>3 DEF FetchFails, KeepFailure, FailuresNotCached, Said
  <2>4. QED
    BY <2>1, <2>2, <2>3 DEF RequestEnds
<1>4. \A v \in Workers : resolved'[v] # resolved[v] =>
         at[v] = at[w] /\ resolved'[v] = category /\ (v = w \/ v \notin requests)
  BY <1>1 DEF Resolve, Awaiting
<1>5. requests' = requests \ {w}
  BY <1>1 DEF Resolve
<1>6. WorkersAwait'
  BY <1>2, <1>4, <1>5, EventsAssumption DEF WorkersAwait
<1>7. AnswersSound'
  BY <1>1, <1>2, <1>4 DEF AnswersSound
<1>8. InFlightIsOwned' /\ NothingLost'
  BY <1>2 DEF InFlightIsOwned, NothingLost
<1>9. QED
  BY <1>3, <1>6, <1>7, <1>8 DEF Rest

\* Who started a fetch leaves no promise of it behind, and nobody else's.
LEMMA ResumeKeeps ==
  ASSUME IInv, NEW w \in Workers, Resume(w)
  PROVE  Rest'
<1> USE DEF IInv, TypeOK
<1>1. /\ w[1] \in Calls /\ at[w] \in Events /\ w \in active /\ w \notin requests
      /\ resolved[w] \in {CategoryOf[at[w]], "Other"}
      /\ at' = [at EXCEPT ![w] = "idle"]
      /\ resolved' = [resolved EXCEPT ![w] = "none"]
      /\ answer' = [answer EXCEPT ![w[1]][at[w]] = resolved[w]]
      /\ started' = started \ {w}
      /\ UNCHANGED <<misread, asked, queue, active, requests, cache, expired>>
  BY DEF Workers, Resume, Forget, WorkersAwait, AnswersSound
<1>2. WorkersAwait'
  BY <1>1 DEF WorkersAwait
<1>3. AnswersSound'
  BY <1>1, EventsAssumption DEF AnswersSound
<1>4. InFlightIsOwned'
  <2>1. CASE w \in started
    <3>1. inFlight' = [inFlight EXCEPT ![at[w]] = NoWorker]
      BY <2>1 DEF Resume, Forget
    <3>2. \A v \in started : v # w => at[v] # at[w]
      BY <2>1 DEF InFlightIsOwned
    <3>3. \A v \in started : v # w => at[v] \in Events
      BY DEF WorkersAwait
    <3>4. QED
      BY <1>1, <2>1, <3>1, <3>2, <3>3 DEF InFlightIsOwned
  <2>2. CASE w \notin started
    <3>1. inFlight' = inFlight
      BY <2>2 DEF Resume, Forget
    <3>2. QED
      BY <1>1, <2>2, <3>1 DEF InFlightIsOwned
  <2>3. QED
    BY <2>1, <2>2
<1>5. NothingLost'
  <2>1. answer'[w[1]][at[w]] # "none"
    BY <1>1, CategoriesAssumption, CategoryOfAssumption
  <2>2. \A c \in Calls, e \in Events : answer[c][e] # "none" => answer'[c][e] # "none"
    BY <1>1, <2>1
  <2>3. QED
    BY <1>1, <2>1, <2>2 DEF NothingLost
<1>6. FailuresNotCached'
  BY <1>1 DEF FailuresNotCached, Said
<1>7. QED
  BY <1>2, <1>3, <1>4, <1>5, <1>6 DEF Rest

\* The loop of a worker ends when the queue is empty, so it is not needed.
LEMMA EndKeeps ==
  ASSUME IInv, NEW w \in Workers, WorkerEnds(w)
  PROVE  Rest'
<1> USE DEF IInv, TypeOK
<1>1. /\ at[w] = "idle" /\ queue[w[1]] = {} /\ active' = active \ {w}
      /\ UNCHANGED <<misread, asked, queue, at, inFlight, started, requests,
                     resolved, cache, expired, answer>>
  BY DEF WorkerEnds
<1>2. NothingLost'
  BY <1>1, EventsAssumption DEF NothingLost
<1>3. QED
  BY <1>1, <1>2 DEF Rest, WorkersAwait, InFlightIsOwned, FailuresNotCached,
                    Said, AnswersSound

LEMMA ReturnKeeps ==
  ASSUME IInv, NEW c \in Calls, Return(c)
  PROVE  Rest'
<1> USE DEF IInv, TypeOK
<1>1. /\ asked' = [asked EXCEPT ![c] = {}] /\ queue' = [queue EXCEPT ![c] = {}]
      /\ answer' = [answer EXCEPT ![c] = [e \in Events |-> "none"]]
      /\ UNCHANGED <<misread, active, at, inFlight, started, requests,
                     resolved, cache, expired>>
  BY DEF Return
<1>2. AnswersSound' /\ NothingLost'
  BY <1>1 DEF AnswersSound, NothingLost
<1>3. QED
  BY <1>1, <1>2 DEF Rest, WorkersAwait, InFlightIsOwned, FailuresNotCached,
                    Said

LEMMA NextInv == IInv /\ [Next]_vars => IInv'
<1> SUFFICES ASSUME IInv, [Next]_vars PROVE IInv'
  OBVIOUS
<1>1. TypeOK'
  BY NextType DEF IInv
<1>2. Rest'
  <2>1. CASE UNCHANGED vars
    BY <2>1 DEF IInv, Rest, vars, WorkersAwait, InFlightIsOwned,
                FailuresNotCached, Said, AnswersSound, NothingLost
  <2>2. CASE \E e \in Events : Expire(e)
    BY <2>2 DEF Expire, IInv, Rest, WorkersAwait, InFlightIsOwned,
                FailuresNotCached, Said, AnswersSound, NothingLost
  <2>3. QED
    BY <2>1, <2>2, StartKeeps, ShiftKeeps, AnswerKeeps, ResumeKeeps, EndKeeps,
       ReturnKeeps DEF Next, WorkerStep
<1>3. QED
  BY <1>1, <1>2 DEF IInv, Rest

LEMMA CacheInvariant == Spec => []IInv
BY InitInv, NextInv, PTL DEF Spec

-----------------------------------------------------------------------------
\* Every variable of the cache keeps its type.
THEOREM CacheTypeCorrect == Spec => []TypeOK
<1>1. IInv => TypeOK
  BY DEF IInv
<1>2. QED
  BY <1>1, CacheInvariant, PTL

\* The tags service is asked for an event once at a time.
THEOREM SingleFlightCorrect == Spec => []SingleFlight
<1>1. IInv => SingleFlight
  BY DEF IInv, WorkersAwait, InFlightIsOwned, SingleFlight
<1>2. QED
  BY <1>1, CacheInvariant, PTL

\* The map of the fetches in flight names who is there to remove them.
THEOREM InFlightCorrect == Spec => []InFlightIsOwned
<1>1. IInv => InFlightIsOwned
  BY DEF IInv
<1>2. QED
  BY <1>1, CacheInvariant, PTL

\* The cache holds what an answer with status 200 was taken to say, and never
\* the fallback of a failed request.
THEOREM FailuresCorrect == Spec => []FailuresNotCached
<1>1. IInv => FailuresNotCached
  BY DEF IInv
<1>2. QED
  BY <1>1, CacheInvariant, PTL

\* No event of a call is lost between its workers.
THEOREM AnsweredCorrect == Spec => []EveryEventAnswered
<1>1. IInv => EveryEventAnswered
  <2> SUFFICES ASSUME IInv, NEW c \in Calls, NEW e \in asked[c]
               PROVE  /\ answer[c][e] \in {CategoryOf[e], "Other", "none"}
                      /\ WorkersEnded(c) => answer[c][e] # "none"
    BY DEF EveryEventAnswered
  <2>1. e \in Events
    BY DEF IInv, TypeOK
  <2>2. answer[c][e] \in {CategoryOf[e], "Other", "none"}
    BY <2>1 DEF IInv, AnswersSound
  <2>3. WorkersEnded(c) => answer[c][e] # "none"
    BY DEF IInv, NothingLost, WorkersEnded
  <2>4. QED
    BY <2>2, <2>3
<1>2. QED
  BY <1>1, CacheInvariant, PTL
=============================================================================
