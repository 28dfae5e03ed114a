--------------------------- MODULE MCMarketStream ---------------------------
(* MarketStream on two assets, two listeners and two sockets. *)
EXTENDS MarketStream, TLC

CONSTANTS a1, a2, l1, l2, s1, s2, p1, p2

MCAssets == {a1, a2}
MCListeners == {l1, l2}
MCSockets == {s1, s2}
MCPrices == {p1, p2}

\* Assets, listeners, sockets and prices are interchangeable.
MCSymmetry == Permutations(MCAssets) \cup Permutations(MCListeners)
                \cup Permutations(MCSockets) \cup Permutations(MCPrices)
=============================================================================
