---------------------------- MODULE MCWorkerSync ----------------------------
(* WorkerSync with two wallets, the first of which may fail for ever, and  *)
(* one handler.  A size of 1 is below the threshold and the limit is one   *)
(* position: the second wallet holds nothing, a position and one too small *)
(* to be listed, or two of which the answer has one.                       *)
EXTENDS WorkerSync

CONSTANTS a1, a2, p1, h1

MCAssets == {a1, a2}
MCShares == {1, 2, 3}
Held(n1, n2) == [a \in MCAssets |-> IF a = a1 THEN n1 ELSE n2]
MCPortfolios == <<{Held(0, 0), Held(2, 0)},
                  {Held(0, 0), Held(2, 1), Held(3, 2)}>>
MCOnePrice == {p1}
MCOneHandler == {h1}
MCLastWallet == {2}
=============================================================================
