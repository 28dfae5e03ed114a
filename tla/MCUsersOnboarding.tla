------------------------- MODULE MCUsersOnboarding -------------------------
(* UsersOnboarding with two users, three spellings of usernames (two of    *)
(* them the same name) and the calls at which they can disagree.           *)
EXTENDS UsersOnboarding, TLC

CONSTANTS r1, r2, r3, u1, u2, lower, upper, other, reserved

MCRequests == {r1, r2, r3}
MCUsers == {u1, u2}
MCOneKnown == {u1}
MCNames == {lower, upper, other, reserved}
MCClaimable == {lower, upper, other}
MCCanonical == [n \in MCNames |-> IF n = upper THEN lower ELSE n]

Call(kind, names, steps, counts) ==
    [kind : {kind}, user : MCUsers, name : names, wallet : {FALSE},
     step : steps, streams : counts]

\* Sign-ins with and without a username and a wallet; steps back and
\* forward; calibrations with too few, enough and too many streams; and
\* claims of a username in two spellings and of a reserved one.
MCCalls ==
    Call("auth", {NoName, lower}, {"auth"}, {0})
        \cup {[c EXCEPT !.wallet = TRUE] :
                c \in Call("auth", {NoName}, {"auth"}, {0})}
        \cup Call("step", {NoName}, {"done"}, {0})
        \cup Call("step", {NoName}, {"calibrate"}, {0, 1, 6})
        \cup Call("identity", {lower, upper, reserved}, {"identity"}, {0})

\* Claims of one name, and a rename.
MCRenames ==
    Call("identity", {lower, other}, {"identity"}, {0})

MCSymmetry == Permutations(MCRequests)
=============================================================================
