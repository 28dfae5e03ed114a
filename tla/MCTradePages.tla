---------------------------- MODULE MCTradePages ----------------------------
(* TradePages on four trades, of which one has no timestamp. *)
EXTENDS TradePages, TLC

CONSTANTS t1, t2, t3, t4

MCTrades == {t1, t2, t3, t4}
MCUndated == {t4}
MCPerPages == {1, 2}
MCProfits == {-1, 1}

\* Trades with a timestamp are interchangeable.
MCSymmetry == Permutations(MCTrades \ MCUndated)
=============================================================================
