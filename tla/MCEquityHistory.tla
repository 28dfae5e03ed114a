--------------------------- MODULE MCEquityHistory ---------------------------
(* EquityHistory with periods of two and three points beside 'all'.        *)
EXTENDS EquityHistory

MCValues == {0, 5}
MCWindowOf == [p \in {"short", "long", "all"} |->
                  IF p = "short" THEN 2 ELSE IF p = "long" THEN 3 ELSE All]
=============================================================================
