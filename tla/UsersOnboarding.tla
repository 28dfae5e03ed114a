-------------------------- MODULE UsersOnboarding --------------------------
(***************************************************************************)
(* Onboarding requests against the tables DG3_user and                     *)
(* dg3_user_interests: sign-in, onboarding steps, the choice of a username *)
(* and the calibration, any number of them at once, of the same user or of *)
(* several.                                                                *)
(*                                                                         *)
(* The database is Postgres at its default level, READ COMMITTED: every    *)
(* statement reads the rows committed when it started and writes later,    *)
(* when it holds the locks it needs.  A statement is therefore two steps,  *)
(* one that takes its snapshot and one that writes.  Waiting for a lock is *)
(* not a step of its own, it delays the second.  Any statement may fail,   *)
(* for a lost connection, a deadlock or a constraint of the schema (which  *)
(* is not in the repository); its answer may also be lost after it has     *)
(* committed.                                                              *)
(*                                                                         *)
(* Usernames are opaque; Canonical gives the lower-case form of one.  The  *)
(* columns email and avatar_url, which are kept like the username, and the *)
(* existing_user flag, which onAuth computes from emails with every error  *)
(* caught, decide nothing here and are left out; so are the read-only      *)
(* requests (session, username availability).                              *)
(***************************************************************************)
EXTENDS Integers

CONSTANTS
    Requests,    \* bound: requests that are ever made
    Users,
    Known,       \* users that had signed in before
    Names,       \* usernames that pass the validation of the bodies
    Canonical,   \* LOWER() of a username
    Claimable,   \* usernames of the right format that are not reserved
    NoName,      \* the username NULL
    MaxStreams,  \* streams that a calibration may select
    Calls,       \* bound: what clients ask for
    NoOne        \* no request, or no call

Steps == {"auth", "identity", "calibrate", "done"}
CallType ==
    [kind : {"auth", "step", "identity"}, user : Users,
     name : Names \cup {NoName}, wallet : BOOLEAN, step : Steps,
     streams : Nat]

ASSUME UsersAssumption == Known \subseteq Users /\ Users \cap Requests = {}
ASSUME NamesAssumption ==
    /\ NoName \notin Names
    /\ Canonical \in [Names -> Names]
    /\ Claimable \subseteq Names
ASSUME StreamsAssumption == MaxStreams \in Nat \ {0}
ASSUME CallsAssumption == Calls \subseteq CallType
ASSUME NoOneAssumption == NoOne \notin Requests \cup CallType

\* A row is known by who made it: the request that inserted it, or the
\* user, if the row was there before.
Ids == Requests \cup Known
Row == [user : Users, name : Names \cup {NoName}, wallet : BOOLEAN,
        complete : BOOLEAN, step : Steps, completed : BOOLEAN]

Stages == {"idle", "delete", "insert", "read", "write", "recheck", "answered"}
Answers == {"none", "user", "null", "invalid", "conflict", "notFound", "error"}

VARIABLES
    rows,       \* the rows of DG3_user, by id
    interests,  \* the calibrations whose selection is in dg3_user_interests
    told,       \* calibrations the personalisation worker was told of
    call,       \* what a request asks for
    stage,      \* what it does next
    answer,     \* what it was answered
    mine,       \* snapshot: the rows of its user
    taken,      \* snapshot: another user's row has its username
    old,        \* snapshot: the selections its DELETE removes
    \* history, for the properties only:
    wrote,      \* ids whose statement on DG3_user committed
    committed,  \* calibrations whose transaction committed
    before,     \* what of wrote or committed a request could see
    namedBy,    \* the request that last wrote the username of a row
    latest      \* the last calibration committed for a user

tables == <<rows, interests, told>>
requests == <<call, stage, answer, mine, taken, old>>
history == <<wrote, committed, before, namedBy, latest>>
vars == <<tables, requests, history>>

TypeOK ==
    /\ DOMAIN rows \subseteq Ids
    /\ rows \in [DOMAIN rows -> Row]
    /\ interests \subseteq Requests
    /\ told \subseteq Requests
    /\ call \in [Requests -> CallType \cup {NoOne}]
    /\ stage \in [Requests -> Stages]
    /\ answer \in [Requests -> Answers]
    /\ mine \in [Requests -> SUBSET Ids]
    /\ taken \in [Requests -> BOOLEAN]
    /\ old \in [Requests -> SUBSET Requests]
    /\ wrote \subseteq Ids
    /\ committed \subseteq Requests
    /\ before \in [Requests -> SUBSET Ids]
    /\ namedBy \in [Ids -> Requests \cup {NoOne}]
    /\ latest \in [Users -> Requests \cup {NoOne}]
    /\ \A r \in Requests : stage[r] # "idle" => call[r] \in CallType

Init ==
    /\ rows = [u \in Known |->
                 [user |-> u, name |-> NoName, wallet |-> FALSE,
                  complete |-> FALSE, step |-> "auth", completed |-> FALSE]]
    /\ interests = {}
    /\ told = {}
    /\ call = [r \in Requests |-> NoOne]
    /\ stage = [r \in Requests |-> "idle"]
    /\ answer = [r \in Requests |-> "none"]
    /\ mine = [r \in Requests |-> {}]
    /\ taken = [r \in Requests |-> FALSE]
    /\ old = [r \in Requests |-> {}]
    /\ wrote = Known
    /\ committed = {}
    /\ before = [r \in Requests |-> {}]
    /\ namedBy = [i \in Ids |-> NoOne]
    /\ latest = [u \in Users |-> NoOne]

RowsOf(u) == {i \in DOMAIN rows : rows[i].user = u}

\* Mutant: compares as written.
TakenByOther_CaseSensitive(u, name) ==
    \E i \in DOMAIN rows : rows[i].user # u /\ rows[i].name = name
\* isUsernameTakenByOtherUser, and the NOT EXISTS of the identity statement.
TakenByOther(u, name) ==
    \E i \in DOMAIN rows :
        /\ rows[i].name # NoName
        /\ rows[i].user # u
        /\ Canonical[rows[i].name] = Canonical[name]

\* Mutant: a request without a username clears it.
Coalesce_Overwrites(name, stored) == name
\* COALESCE($n, username)
Coalesce(name, stored) == IF name = NoName THEN stored ELSE name

Calibrates(c) == c.kind = "step" /\ c.step = "calibrate"

Goto(r, s) == stage' = [stage EXCEPT ![r] = s]

Reply(r, a) ==
    /\ Goto(r, "answered")
    /\ answer' = [answer EXCEPT ![r] = a]

\* The answer of a statement that committed may be lost on the way.
ReplyOrLose(r, a) == \E b \in {a, "error"} : Reply(r, b)

-----------------------------------------------------------------------------
\* normalizeAndValidateStreams and normalizeUsernameOrThrow: a selection or a
\* username that does not pass is refused before the database is asked.
StreamsRefused(c) == Calibrates(c) /\ c.streams \notin 1..MaxStreams
UsernameRefused(c) == c.kind = "identity" /\ c.name \notin Claimable

\* Mutant: a calibration without streams leaves the interests as they are.
FirstStage_NoStreams(c) ==
    IF Calibrates(c) /\ c.streams = 0 THEN "read"
    ELSE IF StreamsRefused(c) \/ UsernameRefused(c) THEN "answered"
    ELSE IF Calibrates(c) THEN "delete"
    ELSE "read"
\* What a request does first.
FirstStage(c) ==
    IF StreamsRefused(c) \/ UsernameRefused(c) THEN "answered"
    ELSE IF Calibrates(c) THEN "delete"
    ELSE "read"

Arrive(r, c) ==
    /\ stage[r] = "idle"
    /\ call' = [call EXCEPT ![r] = c]
    /\ Goto(r, FirstStage(c))
    /\ answer' = [answer EXCEPT ![r] =
                    IF FirstStage(c) = "answered" THEN "invalid" ELSE "none"]
    /\ UNCHANGED <<tables, mine, taken, old, history>>

\* Mutant: deletes the selection of nobody.
Selected_None(r) == {}
\* The selections that the DELETE of a calibration finds.
Selected(r) == {q \in interests : call[q].user = call[r].user}

\* Mutant: the DELETE commits by itself.
DeleteInterests_Autocommit(r) ==
    /\ stage[r] = "delete"
    /\ old' = [old EXCEPT ![r] = Selected(r)]
    /\ interests' = interests \ Selected(r)
    /\ before' = [before EXCEPT ![r] = committed]
    /\ Goto(r, "insert")
    /\ UNCHANGED <<rows, told, call, answer, mine, taken, wrote, committed,
                   namedBy, latest>>
\* replaceUserInterests: BEGIN and DELETE.  What it deletes stays visible to
\* the others until the commit.
DeleteInterests(r) ==
    /\ stage[r] = "delete"
    /\ old' = [old EXCEPT ![r] = Selected(r)]
    /\ before' = [before EXCEPT ![r] = committed]
    /\ Goto(r, "insert")
    /\ UNCHANGED <<tables, call, answer, mine, taken, wrote, committed,
                   namedBy, latest>>

\* The INSERTs and the COMMIT.
CommitInterests(r) ==
    /\ stage[r] = "insert"
    /\ interests' = (interests \ old[r]) \cup {r}
    /\ \/ Goto(r, "read") /\ UNCHANGED answer
       \/ Reply(r, "error")
    /\ committed' = committed \cup {r}
    /\ latest' = [latest EXCEPT ![call[r].user] = r]
    /\ UNCHANGED <<rows, told, call, mine, taken, old, wrote, before, namedBy>>

\* The snapshot of a statement on DG3_user.
ReadUser(r) ==
    /\ stage[r] = "read"
    /\ mine' = [mine EXCEPT ![r] = RowsOf(call[r].user)]
    /\ taken' = [taken EXCEPT ![r] =
                   call[r].kind = "identity"
                     /\ TakenByOther(call[r].user, call[r].name)]
    /\ before' = [before EXCEPT ![r] =
                    IF Calibrates(call[r]) THEN @ ELSE wrote]
    /\ Goto(r, "write")
    /\ UNCHANGED <<tables, call, answer, old, wrote, committed, namedBy, latest>>

\* Mutant: an empty wallet address replaces a stored one.
Signed_WalletOverwritten(c, row) ==
    [row EXCEPT !.name = Coalesce(c.name, @), !.wallet = c.wallet]
\* What the statements of a request do to a row that is there.
Signed(c, row) ==
    [row EXCEPT !.name = Coalesce(c.name, @), !.wallet = c.wallet \/ @]
Stepped(c, row) ==
    [row EXCEPT !.name = Coalesce(c.name, @), !.complete = (c.step = "done"),
                !.step = c.step]
Completed(c, row) ==
    [row EXCEPT !.name = Coalesce(c.name, @), !.complete = TRUE,
                !.step = "done", !.completed = TRUE]
\* Mutant: an identity request leaves the flag alone.
Identified_StaysComplete(c, row) ==
    [row EXCEPT !.name = c.name, !.step = "identity"]
Identified(c, row) ==
    [row EXCEPT !.name = c.name, !.complete = FALSE, !.step = "identity"]
Updated(c, row) ==
    IF c.kind = "auth" THEN Signed(c, row)
    ELSE IF c.kind = "identity" THEN Identified(c, row)
    ELSE IF Calibrates(c) THEN Completed(c, row)
    ELSE Stepped(c, row)

Inserted(c) ==
    [user |-> c.user, name |-> c.name, wallet |-> c.wallet,
     complete |-> FALSE, step |-> "auth", completed |-> FALSE]

\* History: r wrote its username, if it has one, to the given rows.
Named(r, ids) ==
    /\ wrote' = wrote \cup {r}
    /\ namedBy' = [i \in Ids |-> IF i \in ids /\ call[r].name # NoName
                                 THEN r ELSE namedBy[i]]
    /\ UNCHANGED <<committed, before, latest>>

\* Mutant: inserts whatever was updated.
NothingUpdated_Unchecked(r) == TRUE
\* NOT EXISTS (SELECT 1 FROM updated)
NothingUpdated(r) == mine[r] = {}

\* ensureOnAuth for a user without a row: the INSERT.
InsertUser(r) ==
    /\ stage[r] = "write" /\ call[r].kind = "auth" /\ NothingUpdated(r)
    /\ rows' = [i \in DOMAIN rows \cup {r} |->
                  IF i = r THEN Inserted(call[r]) ELSE rows[i]]
    /\ Named(r, {r})
    /\ ReplyOrLose(r, "user")
    /\ UNCHANGED <<interests, told, call, mine, taken, old>>

\* The UPDATEs: of ensureOnAuth, updateOnboardingStep, completeOnboarding
\* and updateOnboardingIdentity.
UpdateUser(r) ==
    /\ stage[r] = "write" /\ mine[r] # {} /\ ~taken[r]
    /\ rows' = [i \in DOMAIN rows |-> IF i \in mine[r]
                                      THEN Updated(call[r], rows[i])
                                      ELSE rows[i]]
    /\ Named(r, mine[r])
    /\ ReplyOrLose(r, "user")
    /\ told' = IF Calibrates(call[r]) /\ answer'[r] = "user"
               THEN told \cup {r} ELSE told
    /\ UNCHANGED <<interests, call, mine, taken, old>>

\* No row to update: a step answers null, a calibration still tells the
\* personalisation worker, an identity asks why.
UpdateNothing(r) ==
    /\ stage[r] = "write" /\ call[r].kind # "auth"
    /\ mine[r] = {} \/ taken[r]
    /\ IF call[r].kind = "identity"
       THEN Goto(r, "recheck") /\ UNCHANGED <<answer, told>>
       ELSE /\ Reply(r, "null")
            /\ told' = IF Calibrates(call[r]) THEN told \cup {r} ELSE told
    /\ UNCHANGED <<rows, interests, call, mine, taken, old, history>>

\* updateOnboardingIdentity after a statement that returned no row.
Recheck(r) ==
    /\ stage[r] = "recheck"
    /\ Reply(r, IF TakenByOther(call[r].user, call[r].name)
                THEN "conflict" ELSE "notFound")
    /\ UNCHANGED <<tables, call, mine, taken, old, history>>

\* A statement, or a transaction as a whole, fails and is rolled back.
Fail(r) ==
    /\ stage[r] \in {"delete", "insert", "read", "write", "recheck"}
    /\ Reply(r, "error")
    /\ UNCHANGED <<tables, call, mine, taken, old, history>>

Next ==
    \E r \in Requests :
        \/ \E c \in Calls : Arrive(r, c)
        \/ DeleteInterests(r)
        \/ CommitInterests(r)
        \/ ReadUser(r)
        \/ InsertUser(r)
        \/ UpdateUser(r)
        \/ UpdateNothing(r)
        \/ Recheck(r)
        \/ Fail(r)

Spec == Init /\ [][Next]_vars

-----------------------------------------------------------------------------
\* The flag and the step of a row agree, and a user who completed by
\* calibrating, or of whom the personalisation worker was told, has a
\* selection of interests, whichever of the two statements of a calibration
\* failed and whatever ran in between.
CompletedHaveInterests ==
    /\ \A r \in told : \E q \in interests : call[q].user = call[r].user
    /\ \A i \in DOMAIN rows :
         /\ rows[i].complete <=> rows[i].step = "done"
         /\ rows[i].completed =>
              \E q \in interests : call[q].user = rows[i].user

\* A user's interests hold the whole selection of the last calibration that
\* committed.  What is left of another one is there only because that one
\* committed after the last one had run its DELETE: calibrations that do not
\* overlap replace each other.
InterestsOfLatest ==
    \A u \in Users : latest[u] # NoOne =>
        /\ latest[u] \in interests
        /\ \A q \in interests :
             call[q].user = u => q \notin before[latest[u]]

\* A user gets a second row only from sign-ins that overlap: the statement
\* of an insert did not see the other row.
OneRowUnlessOverlap ==
    \A i, j \in DOMAIN rows :
        i # j /\ rows[i].user = rows[j].user /\ i \in Requests =>
            j \notin before[i]

\* When two users share a username, in whatever case, no identity request
\* gave it to the one after it could see it at the other: the later write
\* overlapped, or came by a request that checks nothing (sign-in, step,
\* calibration).
NamesClaimedOnce ==
    \A i, j \in DOMAIN rows :
        /\ rows[i].user # rows[j].user
        /\ rows[i].name # NoName /\ rows[j].name # NoName
        /\ Canonical[rows[i].name] = Canonical[rows[j].name]
        /\ call[namedBy[i]].kind = "identity"
        => namedBy[j] \notin before[namedBy[i]]

\* No request makes a user lose a username, a wallet or the time of the
\* completion, and nobody's row disappears.
NothingForgotten ==
    [][\A i \in DOMAIN rows :
         /\ i \in DOMAIN rows'
         /\ rows[i].name # NoName => rows'[i].name # NoName
         /\ rows[i].wallet => rows'[i].wallet
         /\ rows[i].completed => rows'[i].completed]_vars

\* users.service.spec.ts:250, "returns conflict when username is taken at
\* write time": an identity request whose statement found its username at
\* another user is not told that its own user does not exist.
TakenAtWriteIsConflict ==
    \A r \in Requests :
        stage[r] = "answered" /\ taken[r] /\ mine[r] # {} =>
            answer[r] \in {"conflict", "error"}
=============================================================================
