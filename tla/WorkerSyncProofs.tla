-------------------------- MODULE WorkerSyncProofs --------------------------
(***************************************************************************)
(* Proofs about WorkerSync, for any number of wallets, assets, sizes,      *)
(* prices and message handlers.                                            *)
(***************************************************************************)
EXTENDS WorkerSync, TLAPS

\* What a table of rows holds, asset by asset.
LEMMA SharesOfType ==
  ASSUME NEW table \in [Assets -> Row \cup {NoRow}]
  PROVE  SharesOf(table) \in [Assets -> Sizes]
BY NoRowAssumption DEF SharesOf, Row, Sizes

\* A patch changes no row's shares, and neither makes nor removes a row.
LEMMA PatchedRow ==
  ASSUME NEW row \in Row \cup {NoRow}, NEW size \in Shares, NEW p \in Prices
  PROVE  /\ Patched(row, size, p) \in Row \cup {NoRow}
         /\ Patched(row, size, p) = NoRow <=> row = NoRow
         /\ row # NoRow => Patched(row, size, p).shares = row.shares
<1>1. CASE row = NoRow
  BY <1>1 DEF Patched
<1>2. CASE row # NoRow
  <2>1. row \in Row
    BY <1>2
  <2>2. Patched(row, size, p) =
          [shares |-> row.shares, price |-> p, pnlOf |-> <<size, p>>]
    BY <1>2, <2>1 DEF Patched, Row
  <2>3. Patched(row, size, p) \in Row
    BY <2>1, <2>2 DEF Row
  <2>4. QED
    BY <1>2, <2>2, <2>3, NoRowAssumption
<1>3. QED
  BY <1>1, <1>2

\* The same of a whole table, one of whose rows is patched.
LEMMA PatchedTable ==
  ASSUME NEW table \in [Assets -> Row \cup {NoRow}], NEW a \in Assets,
         NEW size \in Shares, NEW p \in Prices
  PROVE  LET patched == [table EXCEPT ![a] = Patched(@, size, p)]
         IN  /\ patched \in [Assets -> Row \cup {NoRow}]
             /\ SharesOf(patched) = SharesOf(table)
<1> DEFINE patched == [table EXCEPT ![a] = Patched(@, size, p)]
<1>1. patched[a] = Patched(table[a], size, p)
      /\ \A b \in Assets : b # a => patched[b] = table[b]
  OBVIOUS
<1>2. /\ patched[a] \in Row \cup {NoRow}
      /\ patched[a] = NoRow <=> table[a] = NoRow
      /\ table[a] # NoRow => patched[a].shares = table[a].shares
  BY <1>1, PatchedRow
<1>3. patched \in [Assets -> Row \cup {NoRow}]
  BY <1>2
<1>4. \A b \in Assets : SharesOf(patched)[b] = SharesOf(table)[b]
  BY <1>1, <1>2 DEF SharesOf
<1>5. SharesOf(patched) = SharesOf(table)
  BY <1>4 DEF SharesOf
<1>6. QED
  BY <1>3, <1>5

\* Rows that the mapper makes are rows, of positive size.
LEMMA MappedType ==
  ASSUME NEW size \in [Assets -> Sizes], NEW price \in [Assets -> Prices]
  PROVE  Mapped(size, price) \in [Assets -> Row \cup {NoRow}]
BY SharesAssumption DEF Mapped, Row, Sizes

\* An answer lists nothing that is not held, and nothing below the threshold.
LEMMA AnswersType ==
  ASSUME NEW held \in [Assets -> Sizes], NEW size \in Answers(held)
  PROVE  /\ size \in [Assets -> Sizes]
         /\ \A a \in Assets : size[a] # 0 =>
               size[a] = held[a] /\ held[a] >= Threshold
<1>1. PICK A \in Listings(held) :
         size = [a \in Assets |-> IF a \in A THEN held[a] ELSE 0]
  BY DEF Answers
<1>2. A \subseteq Listable(held)
  BY DEF Listings
<1>3. QED
  BY <1>1, <1>2 DEF Listable, Sizes

-----------------------------------------------------------------------------
LEMMA TypeInit == Init => TypeOK
BY WalletsAssumption, BoundsAssumption
   DEF Init, TypeOK, Wallets, Sizes, Steps, NoRows

LEMMA TypeStep == TypeOK /\ [Next]_vars => TypeOK'
<1> SUFFICES ASSUME TypeOK, [Next]_vars PROVE TypeOK'
  OBVIOUS
<1> USE DEF TypeOK
<1> USE WalletsAssumption, BoundsAssumption DEF Wallets, Steps
<1>a. NoRows \in [Assets -> Row \cup {NoRow}]
      /\ [a \in Assets |-> 0] \in [Assets -> Sizes]
  BY DEF NoRows, Sizes
<1>b. \A ok \in BOOLEAN : NextWallet(ok) =>
        /\ at' \in 0..NumWallets /\ step' \in Steps /\ retries' \in 0..MaxRetries
        /\ mapped' \in [Assets -> Row \cup {NoRow}]
        /\ snapshot' \in [Assets -> Sizes]
  BY <1>a DEF NextWallet
<1>1. CASE StartCycle
  BY <1>1 DEF StartCycle
<1>2. ASSUME NEW w \in Wallets, FetchAnswers(w) PROVE TypeOK'
  <2>1. PICK size \in Answers(holdings[w]), price \in [Assets -> Prices] :
           mapped' = Mapped(size, price)
    BY <1>2 DEF FetchAnswers
  <2>2. mapped' \in [Assets -> Row \cup {NoRow}]
    BY <2>1, AnswersType, MappedType
  <2>3. QED
    BY <1>2, <2>2 DEF FetchAnswers, Goto
<1>3. ASSUME NEW w \in Wallets, UpsertPositions(w) PROVE TypeOK'
  <2>1. Upserted(rows[w], mapped) \in [Assets -> Row \cup {NoRow}]
    BY DEF Upserted
  <2>2. QED
    BY <1>3, <2>1 DEF UpsertPositions, Goto
<1>4. ASSUME NEW w \in Wallets, DeletePositionOrphans(w) PROVE TypeOK'
  <2>1. WithoutOrphans(rows[w], mapped) \in [Assets -> Row \cup {NoRow}]
    BY DEF WithoutOrphans
  <2>2. QED
    BY <1>4, <2>1 DEF DeletePositionOrphans, Goto
<1>5. ASSUME NEW w \in Wallets, SumExposure(w) PROVE TypeOK'
  <2>1. SharesOf(rows[w]) \in [Assets -> Sizes]
    BY SharesOfType
  <2>2. QED
    BY <1>5, <2>1 DEF SumExposure
<1>6. ASSUME NEW w \in Wallets, WriteExposure(w) PROVE TypeOK'
  <2>1. SharesOf(mapped) \in [Assets -> Sizes]
    BY SharesOfType
  <2>2. QED
    BY <1>6, <1>b, <2>1 DEF WriteExposure, Written
<1>7. CASE FetchNotOk
  BY <1>7, <1>a DEF FetchNotOk, Goto
<1>8. CASE DeadlockRetry
  BY <1>8, <1>a DEF DeadlockRetry
<1>9. CASE WalletFails
  BY <1>9, <1>b DEF WalletFails
<1>10. ASSUME NEW h \in Handlers, NEW a \in Assets, NEW p \in Prices,
              SelectPositions(h, a, p)
       PROVE  TypeOK'
  <2>1. [w \in Wallets |-> SharesOf(rows[w])[a]] \in [Wallets -> Sizes]
    BY SharesOfType
  <2>2. QED
    BY <1>10, <2>1 DEF SelectPositions, loopVars
<1>11. ASSUME NEW h \in Handlers, HandlerStep(h) PROVE TypeOK'
  <2>1. ASSUME NEW w \in Wallets, UpdatePositionPricePatch(h, w) PROVE TypeOK'
    <3> DEFINE patch == patching[h]
    <3>1. /\ patch.asset \in Assets /\ patch.price \in Prices
          /\ patch.todo \in [Wallets -> Sizes] /\ patch.todo[w] \in Shares
      BY <2>1 DEF UpdatePositionPricePatch, Sizes
    <3>2. rows' \in [Wallets -> [Assets -> Row \cup {NoRow}]]
      BY <2>1, <3>1, PatchedTable DEF UpdatePositionPricePatch
    <3>3. patching' = [patching EXCEPT ![h] =
                         [patch EXCEPT !.todo = [@ EXCEPT ![w] = 0]]]
      BY <2>1 DEF UpdatePositionPricePatch
    <3>4. [patch EXCEPT !.todo = [@ EXCEPT ![w] = 0]] \in
             [asset : Assets, price : Prices, todo : [Wallets -> Sizes]]
      <4>1. patch \in [asset : Assets, price : Prices,
                       todo : [Wallets -> Sizes]]
        BY <2>1 DEF UpdatePositionPricePatch
      <4>2. [patch.todo EXCEPT ![w] = 0] \in [Wallets -> Sizes]
        BY <4>1 DEF Sizes
      <4> HIDE DEF patch
      <4>3. QED
        BY <4>1, <4>2
    <3> DEFINE Patch == [asset : Assets, price : Prices, todo : [Wallets -> Sizes]]
               next == [patch EXCEPT !.todo = [@ EXCEPT ![w] = 0]]
    <3>5. patching' \in [Handlers -> {NoRow} \cup Patch]
      <4>1. next \in Patch /\ patching' = [patching EXCEPT ![h] = next]
        BY <3>3, <3>4
      <4>2. patching \in [Handlers -> {NoRow} \cup Patch]
        OBVIOUS
      <4> HIDE DEF next, Patch
      <4>3. QED
        BY <4>1, <4>2
    <3>6. QED
      BY <2>1, <3>2, <3>5 DEF UpdatePositionPricePatch, loopVars
  <2>2. CASE HandlerEnds(h)
    BY <2>2 DEF HandlerEnds, loopVars
  <2>3. QED
    BY <1>11, <2>1, <2>2 DEF HandlerStep
<1>12. ASSUME NEW w \in Wallets, NEW held \in Portfolios[w], Trade(w, held)
       PROVE  TypeOK'
  BY <1>12, PortfoliosAssumption DEF Trade, loopVars
<1>13. CASE UNCHANGED vars
  BY <1>13 DEF vars, loopVars
<1>14. QED
  BY <1>1, <1>2, <1>3, <1>4, <1>5, <1>6, <1>7, <1>8, <1>9, <1>10, <1>11,
     <1>12, <1>13 DEF Next

\* The worker's tables and its two writers stay within their types: no row of
\* size zero is ever stored, and no loop runs past the last wallet.
THEOREM SyncTypeCorrect == Spec => []TypeOK
BY TypeInit, TypeStep, PTL DEF Spec

-----------------------------------------------------------------------------
(* The strengthening: how far the sync of the wallet at hand has come. *)

SyncUnderWay ==
    IF at = 0 THEN step = "fetch" ELSE
      /\ step \in {"delete", "sum", "write"} => synced[at] = Partial
      /\ step = "delete" =>
           \A a \in Assets : mapped[a] # NoRow =>
              rows[at][a] # NoRow /\ rows[at][a].shares = mapped[a].shares
      /\ step \in {"sum", "write"} => SharesOf(rows[at]) = SharesOf(mapped)
      /\ step = "write" => snapshot = SharesOf(mapped)

SyncInv == SyncUnderWay /\ RowsOfLastSync /\ ExposureOfLastSync

\* Rows may change without SyncInv noticing as long as no row appears, goes or
\* changes its shares.
LEMMA SameShares ==
  ASSUME TypeOK, SyncInv, UNCHANGED <<exposure, loopVars, synced>>,
         \A w \in Wallets :
            /\ SharesOf(rows[w])' = SharesOf(rows[w])
            /\ \A a \in Assets :
                  rows[w][a] # NoRow =>
                     rows[w][a]' # NoRow /\ rows[w][a]'.shares = rows[w][a].shares
  PROVE  SyncInv'
<1>1. RowsOfLastSync' /\ ExposureOfLastSync'
  BY DEF SyncInv, RowsOfLastSync, ExposureOfLastSync
<1>2. SyncUnderWay'
  <2>1. at # 0 => at \in Wallets
    BY WalletsAssumption DEF TypeOK, Wallets
  <2>2. SharesOf(mapped)' = SharesOf(mapped)
    BY DEF SharesOf, loopVars
  <2>3. QED
    BY <2>1, <2>2 DEF SyncInv, SyncUnderWay, loopVars
<1>3. QED
  BY <1>1, <1>2 DEF SyncInv

LEMMA SyncInit == Init => SyncInv
BY DEF Init, SyncInv, SyncUnderWay, RowsOfLastSync, ExposureOfLastSync

LEMMA SyncStep == TypeOK /\ SyncInv /\ [Next]_vars => SyncInv'
<1> SUFFICES ASSUME TypeOK, SyncInv, [Next]_vars PROVE SyncInv'
  OBVIOUS
<1>a. at # 0 => at \in Wallets
  BY WalletsAssumption DEF TypeOK, Wallets
<1>1. CASE StartCycle
  BY <1>1 DEF StartCycle, SyncInv, SyncUnderWay, RowsOfLastSync,
              ExposureOfLastSync, SharesOf, TypeOK
<1>2. ASSUME NEW w \in Wallets, FetchAnswers(w) PROVE SyncInv'
  BY <1>2 DEF FetchAnswers, Goto, SyncInv, SyncUnderWay, RowsOfLastSync,
              ExposureOfLastSync, SharesOf, Wallets
<1>3. ASSUME NEW w \in Wallets, UpsertPositions(w) PROVE SyncInv'
  <2>1. \A v \in Wallets : v # w => rows[v]' = rows[v] /\ synced[v]' = synced[v]
    BY <1>3 DEF UpsertPositions, TypeOK
  <2>2. rows[w]' = Upserted(rows[w], mapped) /\ synced[w]' = Partial
    BY <1>3 DEF UpsertPositions, TypeOK
  <2>3. RowsOfLastSync' /\ ExposureOfLastSync'
    <3>1. \A v \in Wallets : v # w => /\ SharesOf(rows[v])' = SharesOf(rows[v])
                                      /\ exposure[v]' = exposure[v]
      BY <1>3, <2>1 DEF UpsertPositions, SharesOf
    <3>2. QED
      BY <2>1, <2>2, <3>1 DEF SyncInv, RowsOfLastSync, ExposureOfLastSync
  <2>4. SyncUnderWay'
    <3>1. /\ at' = w /\ step' = "delete" /\ mapped' = mapped
      BY <1>3 DEF UpsertPositions, Goto
    <3>2. \A a \in Assets : mapped[a] # NoRow =>
             rows[w]'[a] # NoRow /\ rows[w]'[a].shares = mapped[a].shares
      BY <2>2 DEF Upserted
    <3>3. QED
      BY <2>2, <3>1, <3>2 DEF SyncUnderWay, Wallets
  <2>5. QED
    BY <2>3, <2>4 DEF SyncInv
<1>4. ASSUME NEW w \in Wallets, DeletePositionOrphans(w) PROVE SyncInv'
  <2>1. \A v \in Wallets : v # w => rows[v]' = rows[v] /\ synced[v]' = synced[v]
    BY <1>4 DEF DeletePositionOrphans, TypeOK
  <2>2. rows[w]' = WithoutOrphans(rows[w], mapped) /\ synced[w]' = Partial
    BY <1>4 DEF DeletePositionOrphans, TypeOK
  <2>3. RowsOfLastSync' /\ ExposureOfLastSync'
    <3>1. \A v \in Wallets : v # w => /\ SharesOf(rows[v])' = SharesOf(rows[v])
                                      /\ exposure[v]' = exposure[v]
      BY <1>4, <2>1 DEF DeletePositionOrphans, SharesOf
    <3>2. QED
      BY <2>1, <2>2, <3>1 DEF SyncInv, RowsOfLastSync, ExposureOfLastSync
  <2>4. SharesOf(rows[w])' = SharesOf(mapped)
    <3>1. \A a \in Assets : mapped[a] # NoRow =>
             rows[w][a] # NoRow /\ rows[w][a].shares = mapped[a].shares
      BY <1>4 DEF DeletePositionOrphans, SyncInv, SyncUnderWay, Wallets
    <3>2. QED
      BY <2>2, <3>1 DEF SharesOf, WithoutOrphans
  <2>5. SyncUnderWay'
    <3>1. at' = w /\ step' = "sum" /\ SharesOf(mapped)' = SharesOf(mapped)
      BY <1>4 DEF DeletePositionOrphans, Goto, SharesOf
    <3>2. SharesOf(rows[at])' = SharesOf(mapped)
      BY <2>4, <3>1 DEF SharesOf
    <3>3. QED
      BY <2>2, <3>1, <3>2 DEF SyncUnderWay, Wallets
  <2>6. QED
    BY <2>3, <2>5 DEF SyncInv
<1>5. ASSUME NEW w \in Wallets, SumExposure(w) PROVE SyncInv'
  BY <1>5 DEF SumExposure, SyncInv, SyncUnderWay, RowsOfLastSync,
              ExposureOfLastSync, SharesOf, Wallets
<1>6. ASSUME NEW w \in Wallets, WriteExposure(w) PROVE SyncInv'
  <2>1. /\ synced[w] = Partial
        /\ SharesOf(rows[w]) = SharesOf(mapped)
        /\ snapshot = SharesOf(mapped)
    BY <1>6 DEF WriteExposure, SyncInv, SyncUnderWay, Wallets
  <2>2. exposure[w]' = SharesOf(mapped) /\ synced[w]' = SharesOf(mapped)
    BY <1>6, <2>1 DEF WriteExposure, Written, TypeOK
  <2>3. \A v \in Wallets : v # w => exposure[v]' = exposure[v]
                                     /\ synced[v]' = synced[v]
    BY <1>6 DEF WriteExposure, TypeOK
  <2>4. RowsOfLastSync' /\ ExposureOfLastSync'
    <3>1. \A v \in Wallets : SharesOf(rows[v])' = SharesOf(rows[v])
      BY <1>6 DEF WriteExposure, SharesOf
    <3>2. QED
      BY <2>1, <2>2, <2>3, <3>1
         DEF SyncInv, RowsOfLastSync, ExposureOfLastSync
  <2>5. SyncUnderWay'
    BY <1>6 DEF WriteExposure, NextWallet, SyncUnderWay
  <2>6. QED
    BY <2>4, <2>5 DEF SyncInv
<1>7. CASE FetchNotOk
  BY <1>7 DEF FetchNotOk, Goto, SyncInv, SyncUnderWay, RowsOfLastSync,
              ExposureOfLastSync, SharesOf
<1>8. CASE DeadlockRetry
  BY <1>8 DEF DeadlockRetry, SyncInv, SyncUnderWay, RowsOfLastSync,
              ExposureOfLastSync, SharesOf
<1>9. CASE WalletFails
  BY <1>9 DEF WalletFails, NextWallet, SyncInv, SyncUnderWay, RowsOfLastSync,
              ExposureOfLastSync, SharesOf
<1>10. ASSUME NEW h \in Handlers, NEW a \in Assets, NEW p \in Prices,
              SelectPositions(h, a, p)
       PROVE  SyncInv'
  BY <1>10, SameShares DEF SelectPositions, SharesOf
<1>11. ASSUME NEW h \in Handlers, NEW v \in Wallets,
              UpdatePositionPricePatch(h, v)
       PROVE  SyncInv'
  <2> DEFINE patch == patching[h]
  <2>1. /\ patch.asset \in Assets /\ patch.price \in Prices
        /\ patch.todo[v] \in Shares
    BY <1>11 DEF UpdatePositionPricePatch, TypeOK, Sizes
  <2>2. /\ rows[v] \in [Assets -> Row \cup {NoRow}]
        /\ rows[v]' = [rows[v] EXCEPT ![patch.asset] =
                          Patched(@, patch.todo[v], patch.price)]
        /\ \A w \in Wallets : w # v => rows[w]' = rows[w]
    BY <1>11 DEF UpdatePositionPricePatch, TypeOK
  <2>3. SharesOf(rows[v]') = SharesOf(rows[v])
    BY <2>1, <2>2, PatchedTable
  <2>4. \A a \in Assets : rows[v][a] # NoRow =>
           rows[v]'[a] # NoRow /\ rows[v]'[a].shares = rows[v][a].shares
    BY <2>1, <2>2, PatchedRow
  <2>5. UNCHANGED <<exposure, loopVars, synced>>
    BY <1>11 DEF UpdatePositionPricePatch
  <2> HIDE DEF patch
  <2>6. QED
    BY <2>2, <2>3, <2>4, <2>5, SameShares DEF SharesOf
<1>12. ASSUME NEW h \in Handlers, HandlerEnds(h) PROVE SyncInv'
  BY <1>12, SameShares DEF HandlerEnds, SharesOf
<1>13. ASSUME NEW w \in Wallets, NEW held \in Portfolios[w], Trade(w, held)
       PROVE  SyncInv'
  BY <1>13, SameShares DEF Trade, SharesOf
<1>14. CASE UNCHANGED vars
  BY <1>14, SameShares DEF vars, SharesOf
<1>15. QED
  BY <1>1, <1>2, <1>3, <1>4, <1>5, <1>6, <1>7, <1>8, <1>9, <1>10, <1>11,
     <1>12, <1>13, <1>14 DEF Next, HandlerStep

\* Between two syncs of a wallet its rows are those it was synced with: no
\* number of late message handlers brings back a deleted row or moves a size.
THEOREM RowsCorrect == Spec => []RowsOfLastSync
BY TypeInit, TypeStep, SyncInit, SyncStep, PTL DEF Spec, SyncInv

\* And the exposure in the summary is that of those rows.
THEOREM ExposureCorrect == Spec => []ExposureOfLastSync
BY TypeInit, TypeStep, SyncInit, SyncStep, PTL DEF Spec, SyncInv
=============================================================================
