---------------------------- MODULE MCPriceFeed -----------------------------
(* PriceFeed on two clients; the configurations choose the other bounds. *)
EXTENDS PriceFeed

CONSTANTS a1, c1, c2, s1, s2, p1, p2

MCOneAsset == {a1}
MCClients == {c1, c2}
MCTwoSockets == {s1, s2}
MCOneSocket == {s1}
MCTwoPrices == {p1, p2}
MCOnePrice == {p1}
=============================================================================
