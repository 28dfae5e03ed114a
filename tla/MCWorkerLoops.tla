--------------------------- MODULE MCWorkerLoops ----------------------------
(* WorkerLoops on two wallets, the first of which may fail for ever, with  *)
(* two trades each, the more profitable of them undated, a reward and      *)
(* other activity, of which an answer lists one.                           *)
EXTENDS WorkerLoops

CONSTANTS b1, b2, r1, x1

MCBalances == {b1, b2}
MCRewards == {r1}
MCActivities == {r1, x1}
MCUndated == {1}
MCServed == {2}
MCFollowed == {{"A"}, {"C"}, {"D"}}
=============================================================================
