--------------------------- MODULE MCPointToPoint ---------------------------
(* Task 9 on three targets; every plan asks a question of its own.          *)
EXTENDS PointToPoint

CONSTANTS a, b

MCPlayers == {a, b}
MCFollowed == {a}
MCTrials == 1 .. 2
Both == MCFollowed \cup {Admin}
MCPlans == {
    \* the second set of targets begins
    [phases |-> <<"shared">>, hits |-> 4, losses |-> 0, lossy |-> {},
     drawing |-> {Admin}, leavers |-> {}],
    \* the admin loses a cursor
    [phases |-> <<"shared">>, hits |-> 1, losses |-> 2, lossy |-> {Admin},
     drawing |-> {Admin}, leavers |-> {}],
    \* two pages play
    [phases |-> <<"shared">>, hits |-> 3, losses |-> 0, lossy |-> {},
     drawing |-> Both, leavers |-> {}],
    \* a participant leaves
    [phases |-> <<"shared">>, hits |-> 1, losses |-> 0, lossy |-> {},
     drawing |-> {Admin}, leavers |-> MCPlayers],
    \* one trial after the other
    [phases |-> <<"shared", "baseline">>, hits |-> 1, losses |-> 0, lossy |-> {},
     drawing |-> Both, leavers |-> {}],
    [phases |-> <<"washout", "shared">>, hits |-> 1, losses |-> 0, lossy |-> {},
     drawing |-> Both, leavers |-> {}],
    \* a solo game, and a page that stands still in it
    [phases |-> <<"baseline">>, hits |-> 2, losses |-> 2, lossy |-> MCFollowed,
     drawing |-> MCFollowed, leavers |-> {}],
    \* the admin watches a solo game whose player leaves
    [phases |-> <<"baseline">>, hits |-> 1, losses |-> 2, lossy |-> {Admin},
     drawing |-> {Admin}, leavers |-> MCPlayers]}
\* The second set of trial 1 begins with the last target of the first one,
\* that of trial 2 repeats it.
MCShuffle ==
    <<[n \in 0 .. 1 |-> IF n = 0 THEN <<0, 1, 2>> ELSE <<2, 0, 1>>],
      [n \in 0 .. 1 |-> <<0, 1, 2>>]>>
=============================================================================
