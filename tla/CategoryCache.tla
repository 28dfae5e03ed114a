--------------------------- MODULE CategoryCache ----------------------------
(***************************************************************************)
(* The categories of open positions in PolymarketDataService: every call   *)
(* of getOpenPositions resolves the category of each event of its          *)
(* positions with a few workers that share one queue, and all calls share  *)
(* a cache with a time to live and a map of the fetches in flight.         *)
(*                                                                         *)
(* A step is what runs between two awaits.  The tags service is the venue: *)
(* any request may fail, and any answer may be no list of tags.            *)
(***************************************************************************)
EXTENDS Integers, FiniteSets

CONSTANTS
    Calls,        \* calls of getOpenPositions going on at once; reused
    Events,       \* event ids
    Categories,   \* what mapTagsToCategory can return, "Other" included
    CategoryOf,   \* [Events -> Categories]: what the tags of an event map to
    Concurrency   \* categoryFetchConcurrency

ASSUME CategoriesAssumption ==
    "Other" \in Categories /\ "none" \notin Categories
ASSUME CategoryOfAssumption == CategoryOf \in [Events -> Categories]
ASSUME EventsAssumption == IsFiniteSet(Events) /\ "idle" \notin Events
\* A configured value below 1 passes resolvePositiveNumberConfig and yields no
\* worker at all; the model is of the values that yield one.
ASSUME ConcurrencyAssumption == Concurrency \in Nat \ {0}

Workers == Calls \X (1..Concurrency)
NoWorker == <<>>

VARIABLES
    misread,    \* events whose cache entry is of an answer with status 200
                \* that was no list of tags, an observation
    asked,      \* [Calls -> SUBSET Events], {} when there is no such call
    queue,      \* [Calls -> SUBSET Events] not yet shifted
    active,     \* workers whose loop has not ended
    at,         \* [Workers -> Events or "idle"]: the event it awaits
    inFlight,   \* [Events -> Workers or NoWorker]: whose promise is in the map
    started,    \* workers that started the fetch they await
    requests,   \* workers whose tags request has no answer yet
    resolved,   \* [Workers -> Categories or "none"]: what its await will give
    cache,      \* [Events -> Categories or "none"]
    expired,    \* events whose cache entry is past expiresAt
    answer      \* [Calls -> [Events -> Categories or "none"]]

vars == <<misread, asked, queue, active, at, inFlight, started, requests,
          resolved, cache, expired, answer>>

TypeOK ==
    /\ misread \in SUBSET Events
    /\ asked \in [Calls -> SUBSET Events]
    /\ queue \in [Calls -> SUBSET Events]
    /\ active \in SUBSET Workers
    /\ at \in [Workers -> Events \cup {"idle"}]
    /\ inFlight \in [Events -> Workers \cup {NoWorker}]
    /\ started \in SUBSET Workers
    /\ requests \in SUBSET Workers
    /\ resolved \in [Workers -> Categories \cup {"none"}]
    /\ cache \in [Events -> Categories \cup {"none"}]
    /\ expired \in SUBSET Events
    /\ answer \in [Calls -> [Events -> Categories \cup {"none"}]]

Init ==
    /\ misread = {}
    /\ asked = [c \in Calls |-> {}]
    /\ queue = [c \in Calls |-> {}]
    /\ active = {}
    /\ at = [w \in Workers |-> "idle"]
    /\ inFlight = [e \in Events |-> NoWorker]
    /\ started = {}
    /\ requests = {}
    /\ resolved = [w \in Workers |-> "none"]
    /\ cache = [e \in Events |-> "none"]
    /\ expired = {}
    /\ answer = [c \in Calls |-> [e \in Events |-> "none"]]

-----------------------------------------------------------------------------
\* Mutant: one worker too few, none for a single event.
WorkerCount_OffByOne(E) ==
    IF Concurrency < Cardinality(E) THEN Concurrency ELSE Cardinality(E) - 1
WorkerCount(E) ==
    IF Concurrency < Cardinality(E) THEN Concurrency ELSE Cardinality(E)

\* A call of getOpenPositions has its positions, whose events are E, and starts
\* the workers of fetchCategoriesByEventId.
StartCall(c, E) ==
    /\ asked[c] = {}
    /\ E # {}
    /\ asked' = [asked EXCEPT ![c] = E]
    /\ queue' = [queue EXCEPT ![c] = E]
    /\ active' = active \cup {<<c, i>> : i \in 1..WorkerCount(E)}
    /\ UNCHANGED <<misread, at, inFlight, started, requests, resolved, cache,
                   expired, answer>>

Hit(e) == cache[e] # "none" /\ e \notin expired

\* getCachedCategory deletes an entry it finds expired.
DropExpired(e) ==
    /\ cache' = [cache EXCEPT ![e] = IF e \in expired THEN "none" ELSE @]
    /\ expired' = expired \ {e}

\* Mutant: each miss starts a fetch of its own.
Joins_Never(e) == FALSE
Joins(e) == inFlight[e] # NoWorker

\* A miss joins the fetch in flight, which may have resolved a moment ago, or
\* starts one.
JoinOrStart(w, e) ==
    IF Joins(e)
    THEN /\ resolved' = [resolved EXCEPT ![w] = resolved[inFlight[e]]]
         /\ UNCHANGED <<inFlight, started, requests>>
    ELSE /\ inFlight' = [inFlight EXCEPT ![e] = w]
         /\ started' = started \cup {w}
         /\ requests' = requests \cup {w}
         /\ UNCHANGED resolved

\* A worker shifts the next event of its call and awaits its category, which
\* the cache may give at once.
Shift(w, e) ==
    /\ w \in active
    /\ at[w] = "idle"
    /\ e \in queue[w[1]]
    /\ queue' = [queue EXCEPT ![w[1]] = @ \ {e}]
    /\ at' = [at EXCEPT ![w] = e]
    /\ DropExpired(e)
    /\ IF Hit(e)
       THEN /\ resolved' = [resolved EXCEPT ![w] = cache[e]]
            /\ UNCHANGED <<inFlight, started, requests>>
       ELSE JoinOrStart(w, e)
    /\ misread' = misread \ (expired \cap {e})
    /\ UNCHANGED <<asked, active, answer>>

\* Mutant: who joined a fetch is not told when it is through.
Awaiting_OwnerOnly(w) == {w}
\* Whoever awaits the fetch of worker w: w itself and those that joined it.
Awaiting(w) == {v \in Workers : /\ at[v] = at[w]
                                /\ resolved[v] = "none"
                                /\ v = w \/ v \notin requests}

Resolve(w, category) ==
    /\ requests' = requests \ {w}
    /\ resolved' = [v \in Workers |-> IF v \in Awaiting(w) THEN category
                                      ELSE resolved[v]]

CacheSet(e, category) ==
    /\ cache' = [cache EXCEPT ![e] = category]
    /\ expired' = expired \ {e}

\* fetchAndCacheCategory, its answer come with status 200.
FetchAnswered(w, category) ==
    /\ w \in requests
    /\ CacheSet(at[w], category)
    /\ Resolve(w, category)
    /\ UNCHANGED <<asked, queue, active, at, inFlight, started, answer>>

FetchSucceeds(w) ==
    /\ FetchAnswered(w, CategoryOf[at[w]])
    /\ misread' = misread \ {at[w]}

\* A body that is no array counts as no tags, and is kept like any other.
FetchMalformed(w) ==
    /\ FetchAnswered(w, "Other")
    /\ misread' = misread \cup {at[w]}

\* Mutant: caches the fallback too.
KeepFailure_Cached(w) == CacheSet(at[w], "Other")
KeepFailure(w) == UNCHANGED <<cache, expired>>

FetchFails(w) ==
    /\ w \in requests
    /\ KeepFailure(w)
    /\ Resolve(w, "Other")
    /\ UNCHANGED <<misread, asked, queue, active, at, inFlight, started,
                   answer>>

\* Mutant: the finally block is missing.
Forget_Omitted(w) == UNCHANGED inFlight /\ started' = started \ {w}
\* The finally block, which only who started a fetch is in, deletes the entry
\* of the event, whosever it is.
Forget(w) ==
    /\ inFlight' = IF w \in started THEN [inFlight EXCEPT ![at[w]] = NoWorker]
                   ELSE inFlight
    /\ started' = started \ {w}

\* The await of a worker returns, and the category is noted for the call.
Resume(w) ==
    /\ resolved[w] # "none"
    /\ answer' = [answer EXCEPT ![w[1]][at[w]] = resolved[w]]
    /\ Forget(w)
    /\ at' = [at EXCEPT ![w] = "idle"]
    /\ resolved' = [resolved EXCEPT ![w] = "none"]
    /\ UNCHANGED <<misread, asked, queue, active, requests, cache, expired>>

WorkerEnds(w) ==
    /\ w \in active
    /\ at[w] = "idle"
    /\ queue[w[1]] = {}
    /\ active' = active \ {w}
    /\ UNCHANGED <<misread, asked, queue, at, inFlight, started, requests,
                   resolved, cache, expired, answer>>

WorkersEnded(c) == asked[c] # {} /\ \A w \in active : w[1] # c

\* Promise.all resolves: getOpenPositions gives each position the category of
\* its event, or 'Other' for one that has none, and returns.
Return(c) ==
    /\ WorkersEnded(c)
    /\ asked' = [asked EXCEPT ![c] = {}]
    /\ queue' = [queue EXCEPT ![c] = {}]
    /\ answer' = [answer EXCEPT ![c] = [e \in Events |-> "none"]]
    /\ UNCHANGED <<misread, active, at, inFlight, started, requests, resolved,
                   cache, expired>>

\* Time passes an entry's expiresAt.
Expire(e) ==
    /\ cache[e] # "none"
    /\ expired' = expired \cup {e}
    /\ UNCHANGED <<misread, asked, queue, active, at, inFlight, started,
                   requests, resolved, cache, answer>>

WorkerStep(w) == (\E e \in Events : Shift(w, e)) \/ Resume(w) \/ WorkerEnds(w)

RequestEnds(w) == FetchSucceeds(w) \/ FetchMalformed(w) \/ FetchFails(w)

Next ==
    \/ \E c \in Calls, E \in SUBSET Events : StartCall(c, E)
    \/ \E w \in Workers : WorkerStep(w) \/ RequestEnds(w)
    \/ \E c \in Calls : Return(c)
    \/ \E e \in Events : Expire(e)

\* The event loop runs what is ready, and a tags request is answered or fails.
\* (A worker is never ready while its request has no answer, so one condition
\* says both of it.)
Fairness ==
    /\ \A w \in Workers : WF_vars(WorkerStep(w) \/ RequestEnds(w))
    /\ \A c \in Calls : WF_vars(Return(c))

Spec == Init /\ [][Next]_vars
FairSpec == Spec /\ Fairness

-----------------------------------------------------------------------------
(* Properties. *)

\* However many calls miss one event at once, the tags service is asked for it
\* once at a time.
SingleFlight ==
    \A v, w \in requests : at[v] = at[w] => v = w

\* The map holds a fetch exactly as long as the worker that started it awaits
\* it: no later call joins a promise of the past, and no worker deletes the
\* entry of another.
InFlightIsOwned ==
    /\ \A e \in Events : inFlight[e] # NoWorker =>
          inFlight[e] \in started /\ at[inFlight[e]] = e
    /\ \A w \in started : inFlight[at[w]] = w

\* What the last answer with status 200 about an event was taken to say.
Said(e) == IF e \in misread THEN "Other" ELSE CategoryOf[e]

\* A request that fails costs its waiters the category but is not remembered,
\* whoever joins, resumes or lets an entry expire meanwhile: what the cache
\* holds is what an answer with status 200 was taken to say.  (That is 'Other',
\* for the whole time to live, when the body was no list of tags.)
FailuresNotCached ==
    \A e \in Events : cache[e] \in {"none", Said(e)}

\* When the workers of a call are through, every event it asked for has an
\* answer, of that event or the fallback: the shared queue loses none, though
\* the workers take from it and await in any order.
EveryEventAnswered ==
    \A c \in Calls : \A e \in asked[c] :
        IF WorkersEnded(c) THEN answer[c][e] \in {CategoryOf[e], "Other"}
        ELSE answer[c][e] \in {CategoryOf[e], "Other", "none"}

\* A call returns, whatever fetches of other calls its workers wait for.
CallsReturn == \A c \in Calls : asked[c] # {} ~> asked[c] = {}
=============================================================================
