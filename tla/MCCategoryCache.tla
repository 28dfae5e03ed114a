--------------------------- MODULE MCCategoryCache --------------------------
(* CategoryCache for two calls with two workers each. *)
EXTENDS CategoryCache, TLC

CONSTANTS e1, e2

MCEvents == {e1, e2}
MCCalls == {"c1", "c2"}
MCCategories == {"Sports", "Politics", "Other"}
MCCategoryOf == e1 :> "Sports" @@ e2 :> "Politics"
=============================================================================
