----------------------- MODULE UsersOnboardingProofs -----------------------
(* What UsersOnboarding keeps, for any number of users and requests. *)
EXTENDS UsersOnboarding, TLAPS

-----------------------------------------------------------------------------
(* What the statements do to one row. *)

\* Every update of a row by its own user's request yields a row of that
\* user; it forgets nothing, keeps flag and step together, and completes by
\* calibration only for a calibration.
LEMMA UpdatedRow ==
    ASSUME NEW c \in CallType, NEW row \in Row,
           c.kind = "identity" => c.name # NoName
    PROVE  /\ Updated(c, row) \in Row
           /\ Updated(c, row).user = row.user
           /\ Updated(c, row).name = Coalesce(c.name, row.name)
           /\ row.wallet => Updated(c, row).wallet
           /\ row.completed => Updated(c, row).completed
           /\ Updated(c, row).completed => row.completed \/ Calibrates(c)
           /\ (row.complete <=> row.step = "done")
                => (Updated(c, row).complete <=> Updated(c, row).step = "done")
<1> DEFINE Wanted(new) ==
        /\ new \in Row
        /\ new.user = row.user
        /\ new.name = Coalesce(c.name, row.name)
        /\ row.wallet => new.wallet
        /\ row.completed => new.completed
        /\ new.completed => row.completed \/ Calibrates(c)
        /\ (row.complete <=> row.step = "done")
             => (new.complete <=> new.step = "done")
<1>1. CASE c.kind = "auth"
  <2>1. Updated(c, row) = Signed(c, row)
    BY <1>1 DEF Updated
  <2>2. Wanted(Signed(c, row))
    BY DEF Signed, Row, CallType, Coalesce
  <2> QED BY <2>1, <2>2
<1>2. CASE c.kind = "identity"
  <2>1. Updated(c, row) = Identified(c, row)
    BY <1>2 DEF Updated, Calibrates
  <2>2. Wanted(Identified(c, row))
    BY <1>2 DEF Identified, Row, CallType, Coalesce, Steps
  <2> QED BY <2>1, <2>2
<1>3. CASE Calibrates(c)
  <2>1. Updated(c, row) = Completed(c, row)
    BY <1>3 DEF Updated, Calibrates
  <2>2. Wanted(Completed(c, row))
    BY <1>3 DEF Completed, Row, CallType, Coalesce, Steps
  <2> QED BY <2>1, <2>2
<1>4. CASE c.kind = "step" /\ ~Calibrates(c)
  <2>1. Updated(c, row) = Stepped(c, row)
    BY <1>4 DEF Updated, Calibrates
  <2>2. Wanted(Stepped(c, row))
    BY DEF Stepped, Row, CallType, Coalesce, Steps
  <2> QED BY <2>1, <2>2
<1> QED BY <1>1, <1>2, <1>3, <1>4 DEF CallType

\* A row that ensureOnAuth inserts.
LEMMA InsertedRow ==
    ASSUME NEW c \in CallType
    PROVE  /\ Inserted(c) \in Row
           /\ Inserted(c).user = c.user
           /\ Inserted(c).name = c.name
           /\ ~Inserted(c).completed
           /\ Inserted(c).complete <=> Inserted(c).step = "done"
BY DEF Inserted, Row, CallType, Steps

-----------------------------------------------------------------------------
(* Types. *)

\* Only a calibration replaces interests, and an identity request that got
\* past the first check has a username.
CallsFit == \A r \in Requests :
    /\ stage[r] \in {"delete", "insert"} => Calibrates(call[r])
    /\ stage[r] \in {"read", "write", "recheck"} /\ call[r].kind = "identity"
         => call[r].name # NoName

\* What a snapshot calls its own are rows of the request's user, and a request
\* that inserted a row is through.
OwnRows ==
  /\ \A r \in Requests : r \in DOMAIN rows => stage[r] = "answered"
  /\ \A r \in Requests : stage[r] = "write" =>
       \A i \in mine[r] : i \in DOMAIN rows /\ rows[i].user = call[r].user

Typed == TypeOK /\ CallsFit /\ OwnRows

LEMMA TypedInit == Init => Typed
<1> SUFFICES ASSUME Init PROVE Typed
  OBVIOUS
<1>1. rows \in [Known -> Row] /\ DOMAIN rows = Known
  BY UsersAssumption DEF Init, Row, Steps
<1>2. TypeOK
  BY <1>1, UsersAssumption DEF Init, TypeOK, Ids, Stages, Answers
<1> QED BY <1>1, <1>2, UsersAssumption DEF Typed, CallsFit, OwnRows, Init

LEMMA TypedStep == Typed /\ [Next]_vars => Typed'
<1> SUFFICES ASSUME Typed, [Next]_vars PROVE Typed'
  OBVIOUS
<1> USE DEF Typed
<1>1. ASSUME NEW r \in Requests, NEW c \in Calls, Arrive(r, c)
      PROVE  Typed'
  <2>1. c \in CallType /\ FirstStage(c) \in Stages
    BY CallsAssumption DEF FirstStage, Stages
  <2>2. TypeOK'
    BY <1>1, <2>1 DEF Arrive, Goto, TypeOK, tables, history, Answers
  <2>3. /\ FirstStage(c) \notin {"write", "insert"}
        /\ FirstStage(c) = "delete" => Calibrates(c)
        /\ FirstStage(c) \in {"read", "write", "recheck"}
             /\ c.kind = "identity" => c.name # NoName
    BY NamesAssumption DEF FirstStage, StreamsRefused, UsernameRefused,
                              Calibrates
  <2>4. CallsFit' /\ OwnRows'
    BY <1>1, <2>3 DEF Arrive, Goto, TypeOK, CallsFit, OwnRows, tables,
                      Calibrates
  <2> QED BY <2>2, <2>4
<1>2. ASSUME NEW r \in Requests, DeleteInterests(r)
      PROVE  Typed'
  <2>1. TypeOK'
    BY <1>2 DEF DeleteInterests, Selected, Goto, TypeOK, tables, Stages, Ids
  <2>2. CallsFit' /\ OwnRows'
    BY <1>2 DEF DeleteInterests, Goto, TypeOK, CallsFit, OwnRows, tables,
                Calibrates
  <2> QED BY <2>1, <2>2
<1>3. ASSUME NEW r \in Requests, CommitInterests(r)
      PROVE  Typed'
  <2>1. TypeOK'
    BY <1>3 DEF CommitInterests, Reply, Goto, TypeOK, Stages, Answers
  <2>2. CallsFit' /\ OwnRows'
    BY <1>3 DEF CommitInterests, Reply, Goto, TypeOK, CallsFit, OwnRows,
                Calibrates
  <2> QED BY <2>1, <2>2
<1>4. ASSUME NEW r \in Requests, ReadUser(r)
      PROVE  Typed'
  <2>1. TypeOK'
    BY <1>4 DEF ReadUser, RowsOf, TakenByOther, Goto, TypeOK, tables, Stages,
                Ids
  <2>2. CallsFit' /\ OwnRows'
    BY <1>4 DEF ReadUser, RowsOf, Goto, TypeOK, CallsFit, OwnRows, tables,
                Calibrates
  <2> QED BY <2>1, <2>2
<1>5. ASSUME NEW r \in Requests, InsertUser(r)
      PROVE  Typed'
  <2>1. call[r] \in CallType
    BY <1>5 DEF InsertUser, TypeOK
  <2>2. /\ DOMAIN rows' = DOMAIN rows \cup {r}
        /\ \A i \in DOMAIN rows' :
             rows'[i] = IF i = r THEN Inserted(call[r]) ELSE rows[i]
        /\ rows' \in [DOMAIN rows' -> Row]
    BY <1>5, <2>1, InsertedRow DEF InsertUser, TypeOK
  <2>3. TypeOK'
    BY <1>5, <2>2 DEF InsertUser, Named, ReplyOrLose, Reply, Goto, TypeOK,
                      Stages, Answers, Ids
  <2>4. CallsFit'
    BY <1>5 DEF InsertUser, ReplyOrLose, Reply, Goto, TypeOK, CallsFit,
                Calibrates
  <2>5. OwnRows'
    BY <1>5, <2>1, <2>2, InsertedRow DEF InsertUser, ReplyOrLose, Reply, Goto,
                TypeOK, OwnRows, NothingUpdated
  <2> QED BY <2>3, <2>4, <2>5
<1>6. ASSUME NEW r \in Requests, UpdateUser(r)
      PROVE  Typed'
  <2>1. call[r] \in CallType /\ (call[r].kind = "identity" => call[r].name # NoName)
    BY <1>6 DEF UpdateUser, TypeOK, CallsFit
  <2>2. /\ DOMAIN rows' = DOMAIN rows
        /\ \A i \in DOMAIN rows :
             /\ rows'[i] = IF i \in mine[r] THEN Updated(call[r], rows[i])
                           ELSE rows[i]
             /\ rows'[i] \in Row
             /\ rows'[i].user = rows[i].user
        /\ rows' \in [DOMAIN rows' -> Row]
    BY <1>6, <2>1, UpdatedRow DEF UpdateUser, TypeOK
  <2>3. TypeOK'
    BY <1>6, <2>2 DEF UpdateUser, Named, ReplyOrLose, Reply, Goto, TypeOK,
                      Stages, Answers, Ids
  <2>4. CallsFit'
    BY <1>6 DEF UpdateUser, ReplyOrLose, Reply, Goto, TypeOK, CallsFit,
                Calibrates
  <2>5. OwnRows'
    BY <1>6, <2>2 DEF UpdateUser, ReplyOrLose, Reply, Goto, TypeOK, OwnRows
  <2> QED BY <2>3, <2>4, <2>5
<1>7. ASSUME NEW r \in Requests, UpdateNothing(r)
      PROVE  Typed'
  <2>1. TypeOK'
    BY <1>7 DEF UpdateNothing, Reply, Goto, TypeOK, Stages, Answers, history
  <2>2. CallsFit' /\ OwnRows'
    BY <1>7 DEF UpdateNothing, Reply, Goto, TypeOK, CallsFit, OwnRows,
                Calibrates
  <2> QED BY <2>1, <2>2
<1>8. ASSUME NEW r \in Requests, Recheck(r) \/ Fail(r)
      PROVE  Typed'
  <2>1. TypeOK'
    BY <1>8 DEF Recheck, Fail, Reply, Goto, TypeOK, Stages, Answers, history,
                tables
  <2>2. CallsFit' /\ OwnRows'
    BY <1>8 DEF Recheck, Fail, Reply, Goto, TypeOK, CallsFit, OwnRows,
                Calibrates, tables
  <2> QED BY <2>1, <2>2
<1>9. CASE UNCHANGED vars
  BY <1>9 DEF vars, tables, requests, history, TypeOK, CallsFit, OwnRows,
              Calibrates
<1> QED BY <1>1, <1>2, <1>3, <1>4, <1>5, <1>6, <1>7, <1>8, <1>9 DEF Next

\* Tables, requests and history keep their types.
THEOREM UsersTypeCorrect == Spec => []TypeOK
<1>1. Typed => TypeOK
  BY DEF Typed
<1> QED BY <1>1, TypedInit, TypedStep, PTL DEF Spec

-----------------------------------------------------------------------------
(* What the history sets say of a request, and what it saw of them. *)

Order == \A r \in Requests :
    /\ stage[r] \in {"idle", "delete", "insert"} => r \notin committed
    /\ stage[r] \in {"idle", "delete", "insert", "read", "write"} =>
         r \notin wrote
    /\ stage[r] = "idle" => before[r] = {}
    /\ stage[r] \in {"read", "write"} /\ Calibrates(call[r]) =>
         r \in committed
    /\ r \in committed => Calibrates(call[r])
    /\ stage[r] # "idle" /\ Calibrates(call[r]) => before[r] \subseteq committed
    /\ stage[r] # "idle" /\ ~Calibrates(call[r]) => before[r] \subseteq wrote
    /\ r \in DOMAIN rows => r \in wrote /\ call[r].kind = "auth"

LEMMA OrderInit == Init => Order
BY UsersAssumption DEF Init, Order

LEMMA OrderStep == Typed /\ Order /\ [Next]_vars => Order'
<1> SUFFICES ASSUME Typed, Order, [Next]_vars PROVE Order'
  OBVIOUS
<1> USE DEF Typed, TypeOK
<1>1. ASSUME NEW r \in Requests, NEW c \in Calls, Arrive(r, c)
      PROVE  Order'
  <2>1. /\ FirstStage(c) \notin {"insert", "write"}
        /\ FirstStage(c) = "read" => ~Calibrates(c)
        /\ r \notin DOMAIN rows
    BY <1>1 DEF FirstStage, Arrive, OwnRows
  <2> QED BY <1>1, <2>1 DEF Order, Arrive, Goto, tables, history, Calibrates
<1>2. ASSUME NEW r \in Requests, DeleteInterests(r)
      PROVE  Order'
  BY <1>2 DEF Order, CallsFit, DeleteInterests, Goto, tables, Calibrates
<1>3. ASSUME NEW r \in Requests, CommitInterests(r)
      PROVE  Order'
  BY <1>3 DEF Order, CallsFit, CommitInterests, Reply, Goto, Calibrates
<1>4. ASSUME NEW r \in Requests, ReadUser(r)
      PROVE  Order'
  BY <1>4 DEF Order, ReadUser, Goto, tables, Calibrates
<1>5. ASSUME NEW r \in Requests, InsertUser(r)
      PROVE  Order'
  BY <1>5 DEF Order, InsertUser, Named, ReplyOrLose, Reply, Goto, Calibrates
<1>6. ASSUME NEW r \in Requests, UpdateUser(r)
      PROVE  Order'
  BY <1>6 DEF Order, UpdateUser, Named, ReplyOrLose, Reply, Goto, Calibrates
<1>7. ASSUME NEW r \in Requests, UpdateNothing(r)
      PROVE  Order'
  BY <1>7 DEF Order, UpdateNothing, Reply, Goto, history, Calibrates
<1>8. ASSUME NEW r \in Requests, Recheck(r) \/ Fail(r)
      PROVE  Order'
  BY <1>8 DEF Order, Recheck, Fail, Reply, Goto, history, tables, Calibrates
<1>9. CASE UNCHANGED vars
  BY <1>9 DEF vars, tables, requests, history, Order, Calibrates
<1> QED BY <1>1, <1>2, <1>3, <1>4, <1>5, <1>6, <1>7, <1>8, <1>9 DEF Next

-----------------------------------------------------------------------------
(* The interests of a user. *)

\* The selections in the table, and what the transactions under way are going
\* to remove, belong to calibrations that committed.  A calibration removes
\* whatever of its user's selections it could see.
Removals ==
    /\ interests \subseteq committed
    /\ \A r \in Requests : stage[r] = "insert" =>
         /\ \A q \in old[r] :
              q \in committed /\ call[q].user = call[r].user
         /\ \A q \in interests :
              q \in before[r] /\ call[q].user = call[r].user => q \in old[r]

\* Where a calibration committed there are interests.
Witnessed ==
    /\ told \subseteq committed
    /\ \A r \in committed :
         \E q \in interests : call[q].user = call[r].user
    /\ \A i \in DOMAIN rows :
         /\ rows[i].complete <=> rows[i].step = "done"
         /\ rows[i].completed =>
              \E q \in committed : call[q].user = rows[i].user

LatestOfUser ==
    /\ \A u \in Users : latest[u] # NoOne =>
         latest[u] \in committed /\ call[latest[u]].user = u
    /\ InterestsOfLatest

Selections == Removals /\ Witnessed /\ LatestOfUser

LEMMA SelectionsInit == Init => Selections
BY DEF Init, Selections, Removals, Witnessed, LatestOfUser, InterestsOfLatest

\* A step that leaves the tables of interests and the calls of committed
\* calibrations alone.
LEMMA SelectionsUndisturbed ==
    ASSUME Typed, Order, Selections,
           \A q \in Requests : q \in committed => call'[q] = call[q],
           \A q \in Requests : stage'[q] = "insert" =>
              /\ stage[q] = "insert" /\ call'[q] = call[q]
              /\ before'[q] = before[q] /\ old'[q] = old[q],
           \A q \in Requests : q \in committed => before'[q] = before[q],
           UNCHANGED <<interests, committed, latest>>
    PROVE  /\ Removals' /\ LatestOfUser'
           /\ \A r \in committed' :
                \E q \in interests' : call'[q].user = call'[r].user
<1> USE DEF Typed, TypeOK, Selections
<1>1. Removals'
  BY DEF Removals
<1>2. LatestOfUser'
  BY DEF Removals, LatestOfUser, InterestsOfLatest
<1>3. \A r \in committed' : \E q \in interests' : call'[q].user = call'[r].user
  BY DEF Removals, Witnessed
<1> QED BY <1>1, <1>2, <1>3

LEMMA SelectionsStep == Typed /\ Order /\ Selections /\ [Next]_vars => Selections'
<1> SUFFICES ASSUME Typed, Order, Selections, [Next]_vars PROVE Selections'
  OBVIOUS
<1> USE DEF Typed, TypeOK
<1>1. ASSUME NEW r \in Requests, NEW c \in Calls, Arrive(r, c)
      PROVE  Selections'
  <2>1. r \notin committed /\ FirstStage(c) # "insert"
    BY <1>1 DEF Order, Arrive, FirstStage
  <2>2. /\ \A q \in Requests : q \in committed => call'[q] = call[q]
        /\ \A q \in Requests : stage'[q] = "insert" =>
              stage[q] = "insert" /\ call'[q] = call[q]
    BY <1>1, <2>1 DEF Arrive, Goto
  <2>3. UNCHANGED <<rows, interests, told, old, before, committed, latest>>
    BY <1>1 DEF Arrive, tables, history
  <2>4. Witnessed'
    BY <2>2, <2>3 DEF Witnessed, Selections, Removals
  <2> QED BY <2>2, <2>3, <2>4, SelectionsUndisturbed DEF Selections
<1>2. ASSUME NEW r \in Requests, DeleteInterests(r)
      PROVE  Selections'
  <2>1. r \notin committed
    BY <1>2 DEF Order, DeleteInterests
  <2>2. Removals'
    BY <1>2 DEF Selections, Removals, DeleteInterests, Selected, Goto, tables
  <2>3. Witnessed'
    BY <1>2 DEF Selections, Witnessed, DeleteInterests, tables
  <2>4. LatestOfUser'
    BY <1>2, <2>1 DEF Selections, LatestOfUser, InterestsOfLatest,
                      DeleteInterests, tables
  <2> QED BY <2>2, <2>3, <2>4 DEF Selections
<1>3. ASSUME NEW r \in Requests, CommitInterests(r)
      PROVE  Selections'
  <2> DEFINE u == call[r].user
  <2>1. /\ r \notin committed /\ before[r] \subseteq committed
        /\ u \in Users
    BY <1>3 DEF Order, CommitInterests, CallsFit, CallType
  <2>2. /\ interests' = (interests \ old[r]) \cup {r}
        /\ committed' = committed \cup {r}
        /\ latest' = [latest EXCEPT ![u] = r]
        /\ UNCHANGED <<rows, told, call, old, before>>
        /\ \A q \in Requests : stage'[q] = "insert" =>
              stage[q] = "insert" /\ q # r
    BY <1>3 DEF CommitInterests, Reply, Goto
  <2>3. \A q \in old[r] : q \in committed /\ call[q].user = u
    BY <1>3 DEF Selections, Removals, CommitInterests
  <2>4. Removals'
    <3>1. interests' \subseteq committed'
      BY <2>2 DEF Selections, Removals
    <3>2. ASSUME NEW q \in Requests, stage'[q] = "insert"
          PROVE  /\ \A p \in old'[q] :
                      p \in committed' /\ call'[p].user = call'[q].user
                 /\ r \notin before'[q]
                 /\ \A p \in interests' :
                      p \in before'[q] /\ call'[p].user = call'[q].user =>
                        p \in old'[q]
      BY <2>1, <2>2, <3>2 DEF Selections, Removals, Order, CallsFit
    <3> QED BY <3>1, <3>2 DEF Removals
  <2>5. Witnessed'
    <3>1. ASSUME NEW q \in committed'
          PROVE  \E p \in interests' : call'[p].user = call'[q].user
      <4>1. CASE call[q].user = u
        BY <2>2, <4>1
      <4>2. CASE call[q].user # u
        BY <2>2, <2>3, <4>2 DEF Selections, Witnessed
      <4> QED BY <4>1, <4>2
    <3> QED BY <2>2, <3>1 DEF Selections, Witnessed
  <2>6. LatestOfUser'
    <3>1. ASSUME NEW v \in Users, latest'[v] # NoOne
          PROVE  /\ latest'[v] \in committed' /\ call'[latest'[v]].user = v
                 /\ latest'[v] \in interests'
                 /\ \A q \in interests' :
                      call'[q].user = v => q \notin before'[latest'[v]]
      <4>1. CASE v = u
        BY <1>3, <2>1, <2>2, <4>1 DEF Selections, Removals, CommitInterests
      <4>2. CASE v # u
        BY <2>2, <2>3, <3>1, <4>2 DEF Selections, LatestOfUser,
                                      InterestsOfLatest
      <4> QED BY <4>1, <4>2
    <3> QED BY <3>1 DEF LatestOfUser, InterestsOfLatest
  <2> QED BY <2>4, <2>5, <2>6 DEF Selections
<1>4. ASSUME NEW r \in Requests, ReadUser(r)
      PROVE  Selections'
  <2>1. /\ UNCHANGED <<rows, interests, told, call, old, committed, latest>>
        /\ \A q \in Requests : stage'[q] = "insert" => stage[q] = "insert" /\ q # r
        /\ \A q \in Requests : q \in committed \/ q # r => before'[q] = before[q]
    BY <1>4 DEF ReadUser, Goto, tables, Order
  <2>2. Witnessed'
    BY <2>1 DEF Selections, Witnessed
  <2> QED BY <2>1, <2>2, SelectionsUndisturbed DEF Selections
<1>5. ASSUME NEW r \in Requests, InsertUser(r)
      PROVE  Selections'
  <2>1. /\ UNCHANGED <<interests, told, call, old, before, committed, latest>>
        /\ \A q \in Requests : stage'[q] = "insert" => stage[q] = "insert"
    BY <1>5 DEF InsertUser, Named, ReplyOrLose, Reply, Goto
  <2>2. \A i \in DOMAIN rows' : rows'[i] = IF i = r THEN Inserted(call[r])
                                           ELSE rows[i]
    BY <1>5 DEF InsertUser
  <2>3. Witnessed'
    BY <1>5, <2>1, <2>2, InsertedRow DEF Selections, Witnessed, InsertUser
  <2> QED BY <2>1, <2>3, SelectionsUndisturbed DEF Selections
<1>6. ASSUME NEW r \in Requests, UpdateUser(r)
      PROVE  Selections'
  <2>1. /\ UNCHANGED <<interests, call, old, before, committed, latest>>
        /\ \A q \in Requests : stage'[q] = "insert" => stage[q] = "insert"
        /\ told' \subseteq told \cup {q \in {r} : Calibrates(call[r])}
    BY <1>6 DEF UpdateUser, Named, ReplyOrLose, Reply, Goto
  <2>2. Calibrates(call[r]) => r \in committed
    BY <1>6 DEF UpdateUser, Order
  <2>3. call[r] \in CallType /\ (call[r].kind = "identity" => call[r].name # NoName)
    BY <1>6 DEF UpdateUser, CallsFit
  <2>4. ASSUME NEW i \in DOMAIN rows
        PROVE  /\ rows'[i].complete <=> rows'[i].step = "done"
               /\ rows'[i].completed =>
                    \E q \in committed : call[q].user = rows'[i].user
    <3>1. rows'[i] = IF i \in mine[r] THEN Updated(call[r], rows[i]) ELSE rows[i]
      BY <1>6 DEF UpdateUser
    <3>2. i \in mine[r] => rows[i].user = call[r].user
      BY <1>6 DEF UpdateUser, OwnRows
    <3> QED BY <2>2, <2>3, <3>1, <3>2, UpdatedRow DEF Selections, Witnessed
  <2>5. Witnessed'
    BY <1>6, <2>1, <2>2, <2>4 DEF Selections, Witnessed, UpdateUser
  <2> QED BY <2>1, <2>5, SelectionsUndisturbed DEF Selections
<1>7. ASSUME NEW r \in Requests, UpdateNothing(r)
      PROVE  Selections'
  <2>1. /\ UNCHANGED <<rows, interests, call, old, before, committed, latest>>
        /\ \A q \in Requests : stage'[q] = "insert" => stage[q] = "insert"
        /\ told' \subseteq told \cup {q \in {r} : Calibrates(call[r])}
        /\ Calibrates(call[r]) => r \in committed
    BY <1>7 DEF UpdateNothing, Reply, Goto, history, Order
  <2>2. Witnessed'
    BY <2>1 DEF Selections, Witnessed
  <2> QED BY <2>1, <2>2, SelectionsUndisturbed DEF Selections
<1>8. ASSUME NEW r \in Requests, Recheck(r) \/ Fail(r)
      PROVE  Selections'
  <2>1. /\ UNCHANGED <<tables, call, old, history>>
        /\ \A q \in Requests : stage'[q] = "insert" => stage[q] = "insert"
    BY <1>8 DEF Recheck, Fail, Reply, Goto
  <2>2. Witnessed'
    BY <2>1 DEF Selections, Witnessed, tables, history
  <2> QED BY <2>1, <2>2, SelectionsUndisturbed DEF Selections, tables, history
<1>9. CASE UNCHANGED vars
  BY <1>9 DEF vars, tables, requests, history, Selections, Removals,
              Witnessed, LatestOfUser, InterestsOfLatest
<1> QED BY <1>1, <1>2, <1>3, <1>4, <1>5, <1>6, <1>7, <1>8, <1>9 DEF Next

\* Calibrations that do not overlap replace each other, and the last one to
\* commit is in the table as a whole.
THEOREM InterestsCorrect == Spec => []InterestsOfLatest
<1>1. Selections => InterestsOfLatest
  BY DEF Selections, LatestOfUser
<1> QED BY <1>1, TypedInit, TypedStep, OrderInit, OrderStep, SelectionsInit,
           SelectionsStep, PTL DEF Spec

\* A completed calibration, and a notice to the worker, have interests behind
\* them.
THEOREM CompletedCorrect == Spec => []CompletedHaveInterests
<1>1. Typed /\ Selections => CompletedHaveInterests
  BY DEF Typed, TypeOK, Selections, Removals, Witnessed, CompletedHaveInterests
<1> QED BY <1>1, TypedInit, TypedStep, OrderInit, OrderStep, SelectionsInit,
           SelectionsStep, PTL DEF Spec

-----------------------------------------------------------------------------
(* Rows and usernames. *)

\* A request about to write on DG3_user holds every row of its user that was
\* written before its snapshot.  An identity request that found its username
\* free may write it although another has it now, but not one that had it
\* when the snapshot was taken.
Snapshots == \A r \in Requests : stage[r] = "write" /\ ~Calibrates(call[r]) =>
    /\ \A j \in DOMAIN rows :
         rows[j].user = call[r].user /\ j \in before[r] => j \in mine[r]
    /\ call[r].kind = "identity" /\ ~taken[r] =>
         \A j \in DOMAIN rows :
            /\ rows[j].user # call[r].user /\ rows[j].name # NoName
            /\ Canonical[rows[j].name] = Canonical[call[r].name]
            => namedBy[j] \notin before[r]

\* Whoever named a row wrote.
Namers == \A i \in DOMAIN rows : rows[i].name # NoName =>
    namedBy[i] \in Requests /\ namedBy[i] \in wrote

RowsInv == Snapshots /\ Namers /\ OneRowUnlessOverlap /\ NamesClaimedOnce

LEMMA RowsInit == Init => RowsInv
BY UsersAssumption DEF Init, RowsInv, Snapshots, Namers, OneRowUnlessOverlap,
                       NamesClaimedOnce

\* A step that leaves DG3_user and its history alone, and takes no snapshot
\* of it.
LEMMA RowsUndisturbed ==
    ASSUME Typed, Order, RowsInv, UNCHANGED <<rows, namedBy, wrote>>,
           \A q \in Requests : q \in wrote =>
              call'[q] = call[q] /\ before'[q] = before[q],
           \A q \in Requests : stage'[q] = "write" =>
              /\ stage[q] = "write" /\ call'[q] = call[q]
              /\ before'[q] = before[q]
              /\ mine'[q] = mine[q] /\ taken'[q] = taken[q]
    PROVE  RowsInv'
<1> USE DEF Typed, TypeOK, RowsInv
<1>1. Snapshots'
  BY DEF Snapshots, Calibrates
<1>2. Namers'
  BY DEF Namers
<1>3. OneRowUnlessOverlap'
  BY DEF OneRowUnlessOverlap, Order
<1>4. NamesClaimedOnce'
  BY DEF NamesClaimedOnce, Namers
<1> QED BY <1>1, <1>2, <1>3, <1>4

LEMMA RowsStep == Typed /\ Order /\ RowsInv /\ [Next]_vars => RowsInv'
<1> SUFFICES ASSUME Typed, Order, RowsInv, [Next]_vars PROVE RowsInv'
  OBVIOUS
<1> USE DEF Typed, TypeOK
<1>1. ASSUME NEW r \in Requests, NEW c \in Calls, Arrive(r, c)
      PROVE  RowsInv'
  <2>1. r \notin wrote /\ FirstStage(c) # "write"
    BY <1>1 DEF Arrive, Order, FirstStage
  <2>2. \A q \in Requests : stage'[q] = "write" => q # r /\ stage[q] = "write"
    BY <1>1, <2>1 DEF Arrive, Goto
  <2> QED BY <1>1, <2>1, <2>2, RowsUndisturbed DEF Arrive, tables, history
<1>2. ASSUME NEW r \in Requests, DeleteInterests(r)
      PROVE  RowsInv'
  <2>1. r \notin wrote
    BY <1>2 DEF DeleteInterests, Order
  <2>2. \A q \in Requests : stage'[q] = "write" => q # r /\ stage[q] = "write"
    BY <1>2 DEF DeleteInterests, Goto
  <2> QED BY <1>2, <2>1, <2>2, RowsUndisturbed DEF DeleteInterests, tables
<1>3. ASSUME NEW r \in Requests, CommitInterests(r)
      PROVE  RowsInv'
  <2>1. \A q \in Requests : stage'[q] = "write" => stage[q] = "write"
    BY <1>3 DEF CommitInterests, Reply, Goto
  <2> QED BY <1>3, <2>1, RowsUndisturbed DEF CommitInterests
<1>4. ASSUME NEW r \in Requests, ReadUser(r)
      PROVE  RowsInv'
  <2> USE DEF RowsInv
  <2>1. /\ r \notin wrote
        /\ UNCHANGED <<rows, namedBy, wrote, call>>
        /\ \A q \in Requests : q # r =>
             /\ before'[q] = before[q] /\ mine'[q] = mine[q]
             /\ taken'[q] = taken[q] /\ stage'[q] = stage[q]
    BY <1>4 DEF ReadUser, Order, tables, Goto
  <2>2. /\ mine'[r] = RowsOf(call[r].user)
        /\ call[r].kind = "identity" /\ ~taken'[r] =>
             ~TakenByOther(call[r].user, call[r].name)
    BY <1>4 DEF ReadUser
  <2>3. Snapshots'
    <3>1. ASSUME NEW q \in Requests, q # r, stage'[q] = "write",
                 ~Calibrates(call'[q])
          PROVE  /\ \A j \in DOMAIN rows' :
                      rows'[j].user = call'[q].user /\ j \in before'[q] =>
                        j \in mine'[q]
                 /\ call'[q].kind = "identity" /\ ~taken'[q] =>
                      \A j \in DOMAIN rows' :
                        /\ rows'[j].user # call'[q].user
                        /\ rows'[j].name # NoName
                        /\ Canonical[rows'[j].name] = Canonical[call'[q].name]
                        => namedBy'[j] \notin before'[q]
      BY <2>1, <3>1 DEF Snapshots, Calibrates
    <3>2. /\ \A j \in DOMAIN rows' :
               rows'[j].user = call'[r].user => j \in mine'[r]
          /\ call'[r].kind = "identity" /\ ~taken'[r] =>
               \A j \in DOMAIN rows' :
                 ~ /\ rows'[j].user # call'[r].user
                   /\ rows'[j].name # NoName
                   /\ Canonical[rows'[j].name] = Canonical[call'[r].name]
      BY <2>1, <2>2 DEF RowsOf, TakenByOther
    <3> QED BY <3>1, <3>2 DEF Snapshots
  <2>4. Namers'
    BY <2>1 DEF Namers
  <2>5. OneRowUnlessOverlap'
    BY <2>1 DEF OneRowUnlessOverlap, Order
  <2>6. NamesClaimedOnce'
    BY <2>1 DEF NamesClaimedOnce, Namers
  <2> QED BY <2>3, <2>4, <2>5, <2>6
<1>5. ASSUME NEW r \in Requests, InsertUser(r)
      PROVE  RowsInv'
  <2> USE DEF RowsInv
  <2>1. /\ DOMAIN rows' = DOMAIN rows \cup {r}
        /\ \A i \in DOMAIN rows' :
             rows'[i] = IF i = r THEN Inserted(call[r]) ELSE rows[i]
        /\ call[r] \in CallType /\ call[r].kind = "auth" /\ mine[r] = {}
        /\ ~Calibrates(call[r])
        /\ r \notin wrote /\ r \notin committed /\ r \notin DOMAIN rows
    BY <1>5 DEF InsertUser, NothingUpdated, Order, Calibrates, OwnRows
  <2>2. /\ UNCHANGED <<call, before, mine, taken>>
        /\ wrote' = wrote \cup {r}
        /\ \A i \in DOMAIN rows : namedBy'[i] = namedBy[i]
        /\ call[r].name # NoName => namedBy'[r] = r
        /\ \A q \in Requests : stage'[q] = "write" => stage[q] = "write"
    BY <1>5, <2>1 DEF InsertUser, Named, ReplyOrLose, Reply, Goto, Ids
  <2>3. \A q \in Requests : ~Calibrates(call[q]) /\ stage[q] # "idle" =>
           r \notin before[q]
    BY <2>1 DEF Order
  <2>4. /\ Inserted(call[r]).user = call[r].user
        /\ Inserted(call[r]).name = call[r].name
    BY <2>1, InsertedRow
  <2>5. Snapshots'
    BY <2>1, <2>2, <2>3, <2>4 DEF Snapshots, Calibrates
  <2>6. Namers'
    BY <2>1, <2>2, <2>4 DEF Namers
  <2>7. OneRowUnlessOverlap'
    <3>1. \A j \in DOMAIN rows : rows[j].user = call[r].user => j \notin before[r]
      BY <1>5, <2>1 DEF Snapshots, InsertUser
    <3>2. \A i \in DOMAIN rows : i \in Requests => r \notin before[i]
      BY <2>3 DEF Order, OwnRows, Calibrates
    <3> QED BY <2>1, <2>2, <2>4, <3>1, <3>2 DEF OneRowUnlessOverlap
  <2>8. NamesClaimedOnce'
    <3>1. \A i \in DOMAIN rows : rows[i].name # NoName
              /\ call[namedBy[i]].kind = "identity" =>
            r \notin before[namedBy[i]]
      BY <2>3 DEF Namers, Order, Calibrates
    <3> QED BY <2>1, <2>2, <2>4, <3>1 DEF NamesClaimedOnce
  <2> QED BY <2>5, <2>6, <2>7, <2>8
<1>6. ASSUME NEW r \in Requests, UpdateUser(r)
      PROVE  RowsInv'
  <2> USE DEF RowsInv
  <2>1. /\ call[r] \in CallType
        /\ call[r].kind = "identity" => call[r].name # NoName
        /\ r \notin wrote
        /\ \A i \in mine[r] : i \in DOMAIN rows /\ rows[i].user = call[r].user
        /\ stage[r] = "write" /\ ~taken[r]
    BY <1>6 DEF UpdateUser, CallsFit, Order, OwnRows
  <2>2. /\ UNCHANGED <<call, before, mine, taken>>
        /\ DOMAIN rows' = DOMAIN rows
        /\ wrote' = wrote \cup {r}
        /\ \A q \in Requests : stage'[q] = "write" => stage[q] = "write"
    BY <1>6 DEF UpdateUser, Named, ReplyOrLose, Reply, Goto
  <2>3. ASSUME NEW i \in DOMAIN rows
        PROVE  /\ rows'[i].user = rows[i].user
               /\ i \in mine[r] /\ call[r].name # NoName =>
                    rows'[i].name = call[r].name /\ namedBy'[i] = r
               /\ i \notin mine[r] \/ call[r].name = NoName =>
                    rows'[i].name = rows[i].name /\ namedBy'[i] = namedBy[i]
    <3>1. /\ rows'[i] = IF i \in mine[r] THEN Updated(call[r], rows[i])
                        ELSE rows[i]
          /\ namedBy'[i] = IF i \in mine[r] /\ call[r].name # NoName
                           THEN r ELSE namedBy[i]
      BY <1>6 DEF UpdateUser, Named
    <3> QED BY <2>1, <3>1, UpdatedRow DEF Coalesce
  <2>4. \A q \in Requests : ~Calibrates(call[q]) /\ stage[q] # "idle" =>
           r \notin before[q]
    BY <2>1 DEF Order
  <2>5. Snapshots'
    <3>1. ASSUME NEW q \in Requests, stage'[q] = "write",
                 ~Calibrates(call'[q]), NEW j \in DOMAIN rows'
          PROVE  /\ rows'[j].user = call'[q].user /\ j \in before'[q] =>
                      j \in mine'[q]
                 /\ call'[q].kind = "identity" /\ ~taken'[q] =>
                      (/\ rows'[j].user # call'[q].user
                       /\ rows'[j].name # NoName
                       /\ Canonical[rows'[j].name] = Canonical[call'[q].name]
                       => namedBy'[j] \notin before'[q])
      <4>1. stage[q] = "write" /\ ~Calibrates(call[q]) /\ r \notin before[q]
        BY <2>2, <2>4, <3>1 DEF Calibrates
      <4> QED BY <2>2, <2>3, <3>1, <4>1 DEF Snapshots
    <3> QED BY <3>1 DEF Snapshots
  <2>6. Namers'
    BY <2>2, <2>3 DEF Namers
  <2>7. OneRowUnlessOverlap'
    BY <2>2, <2>3 DEF OneRowUnlessOverlap
  <2>8. NamesClaimedOnce'
    <3>1. ASSUME NEW i \in DOMAIN rows, NEW j \in DOMAIN rows,
                 rows[i].user # rows[j].user,
                 rows'[i].name # NoName, rows'[j].name # NoName,
                 Canonical[rows'[i].name] = Canonical[rows'[j].name],
                 call[namedBy'[i]].kind = "identity"
          PROVE  namedBy'[j] \notin before[namedBy'[i]]
      <4>1. CASE i \in mine[r] /\ call[r].name # NoName
        <5>1. j \notin mine[r] /\ call[r].kind = "identity"
          BY <2>1, <2>3, <3>1, <4>1
        <5>2. ~Calibrates(call[r])
          BY <5>1 DEF Calibrates
        <5> QED BY <2>1, <2>3, <3>1, <4>1, <5>1, <5>2 DEF Snapshots
      <4>2. CASE ~(i \in mine[r] /\ call[r].name # NoName)
        <5>1. /\ rows'[i].name = rows[i].name /\ namedBy'[i] = namedBy[i]
              /\ r \notin before[namedBy[i]]
          BY <2>3, <2>4, <3>1, <4>2 DEF Namers, Order, Calibrates
        <5> QED BY <2>3, <3>1, <5>1 DEF NamesClaimedOnce
      <4> QED BY <4>1, <4>2
    <3> QED BY <2>2, <2>3, <3>1 DEF NamesClaimedOnce
  <2> QED BY <2>5, <2>6, <2>7, <2>8
<1>7. ASSUME NEW r \in Requests, UpdateNothing(r) \/ Recheck(r) \/ Fail(r)
      PROVE  RowsInv'
  <2>1. \A q \in Requests : stage'[q] = "write" => stage[q] = "write"
    BY <1>7 DEF UpdateNothing, Recheck, Fail, Reply, Goto
  <2> QED BY <1>7, <2>1, RowsUndisturbed DEF UpdateNothing, Recheck, Fail,
             history, tables
<1>8. CASE UNCHANGED vars
  BY <1>8, RowsUndisturbed DEF vars, tables, requests, history
<1> QED BY <1>1, <1>2, <1>3, <1>4, <1>5, <1>6, <1>7, <1>8 DEF Next

\* Only sign-ins that overlap give a user a second row.
THEOREM OneRowCorrect == Spec => []OneRowUnlessOverlap
<1>1. RowsInv => OneRowUnlessOverlap
  BY DEF RowsInv
<1> QED BY <1>1, TypedInit, TypedStep, OrderInit, OrderStep, RowsInit,
           RowsStep, PTL DEF Spec

\* No identity request takes a username that it could see at another user.
THEOREM NamesCorrect == Spec => []NamesClaimedOnce
<1>1. RowsInv => NamesClaimedOnce
  BY DEF RowsInv
<1> QED BY <1>1, TypedInit, TypedStep, OrderInit, OrderStep, RowsInit,
           RowsStep, PTL DEF Spec

\* Nothing a user once had is lost.
THEOREM NothingLost == Spec => NothingForgotten
<1> DEFINE Kept == \A i \in DOMAIN rows :
        /\ i \in DOMAIN rows'
        /\ rows[i].name # NoName => rows'[i].name # NoName
        /\ rows[i].wallet => rows'[i].wallet
        /\ rows[i].completed => rows'[i].completed
<1>1. Typed /\ [Next]_vars => [Kept]_vars
  <2> SUFFICES ASSUME Typed, Next PROVE Kept
    OBVIOUS
  <2> USE DEF Typed, TypeOK
  <2>1. ASSUME NEW r \in Requests, InsertUser(r)
        PROVE  Kept
    BY <2>1 DEF InsertUser, OwnRows
  <2>2. ASSUME NEW r \in Requests, UpdateUser(r)
        PROVE  Kept
    <3>1. call[r] \in CallType /\ (call[r].kind = "identity" => call[r].name # NoName)
      BY <2>2 DEF UpdateUser, CallsFit
    <3>2. /\ DOMAIN rows' = DOMAIN rows
          /\ \A i \in DOMAIN rows :
               rows'[i] = IF i \in mine[r] THEN Updated(call[r], rows[i])
                         ELSE rows[i]
      BY <2>2 DEF UpdateUser
    <3> QED BY <3>1, <3>2, UpdatedRow DEF Coalesce
  <2>3. rows' = rows => Kept
    OBVIOUS
  <2> QED BY <2>1, <2>2, <2>3 DEF Next, Arrive, DeleteInterests,
             CommitInterests, ReadUser, UpdateNothing, Recheck, Fail, tables
<1> QED BY <1>1, TypedInit, TypedStep, PTL DEF Spec, NothingForgotten
=============================================================================
