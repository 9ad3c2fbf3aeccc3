---------------------------- MODULE MCPassSearch ----------------------------
(***************************************************************************)
(* Model-checking instances of PassSearch: a day of 62 units, orbits of 8  *)
(* and 12, so that no ground track repeats every day. Windows of 2, 6 and  *)
(* 16 units are narrower and wider than the distance between two orbits.   *)
(***************************************************************************)
EXTENDS PassSearch

First == [ t0 |-> 20, raan |-> 0, quarter |-> 2 ]
Second == [ t0 |-> 23, raan |-> 17, quarter |-> 3 ]
MCEphemerides == { << >>, << First >>, << First, Second >> }
MCLatitudes == -2 .. 2
MCLongitudes == { 0, 5, 11, 18, 23, 29, 34, 40, 47, 53, 58, 61 }
MCTolerances == {1, 3, 8}
MCHeights == {0, 1}
MCTimes == { 5, 20, 25, 41 }
=============================================================================
