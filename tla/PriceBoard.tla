----------------------------- MODULE PriceBoard -----------------------------
(***************************************************************************)
(* What the positions-prices namespace promises its clients, without       *)
(* sockets, timers, listeners or caches: one board of prices, and for each *)
(* watching client a cell per asset it watches that shows the board's      *)
(* price or is marked stale.                                               *)
(***************************************************************************)
CONSTANTS Clients, Assets, Prices

VARIABLES
    board,    \* [Assets -> Prices or "none"]
    cells     \* [Clients -> [Assets -> "none" (not watched), "stale", price]]

boardVars == <<board, cells>>

Shown(a) == IF board[a] = "none" THEN "stale" ELSE board[a]

Init ==
    /\ board = [a \in Assets |-> "none"]
    /\ cells = [c \in Clients |-> [a \in Assets |-> "none"]]

\* The venue quotes: every client that watches the asset sees it at once.
Tick(a, p) ==
    /\ board' = [board EXCEPT ![a] = p]
    /\ cells' = [c \in Clients |->
                    IF cells[c][a] = "none" THEN cells[c]
                    ELSE [cells[c] EXCEPT ![a] = p]]

\* The venue is lost: every watched cell of every client is marked.
Outage ==
    /\ cells' = [c \in Clients |-> [a \in Assets |->
                    IF cells[c][a] = "none" THEN "none" ELSE "stale"]]
    /\ UNCHANGED board

Refresh(c) ==
    /\ cells' = [cells EXCEPT ![c] = [a \in Assets |->
                    IF cells[c][a] = "none" THEN "none" ELSE Shown(a)]]
    /\ UNCHANGED board

Join(c, A) ==
    /\ \A a \in Assets : cells[c][a] = "none"
    /\ cells' = [cells EXCEPT ![c] = [a \in Assets |->
                    IF a \in A THEN Shown(a) ELSE "none"]]
    /\ UNCHANGED board

Leave(c) ==
    /\ cells' = [cells EXCEPT ![c] = [a \in Assets |-> "none"]]
    /\ UNCHANGED board

Next ==
    \/ \E a \in Assets, p \in Prices : Tick(a, p)
    \/ Outage
    \/ \E c \in Clients : Refresh(c) \/ Leave(c)
    \/ \E c \in Clients, A \in SUBSET Assets : Join(c, A)

Spec == Init /\ [][Next]_boardVars

\* A cell that is not marked shows the board's price, so no two clients see
\* different prices of one asset that neither is told to distrust.
CellsAgree ==
    \A c \in Clients, a \in Assets :
        cells[c][a] \notin {"none", "stale"} => cells[c][a] = board[a]
=============================================================================
