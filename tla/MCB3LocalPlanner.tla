--------------------------- MODULE MCB3LocalPlanner ---------------------------
(***************************************************************************)
(* A small instance of B3LocalPlanner: two routes to one goal.  The direct *)
(* one clears until the external force has ramped, and then fails on its   *)
(* last two steps; the detour strides past the tolerance and fails, ever   *)
(* more, from its second waypoint on.                                      *)
(***************************************************************************)
EXTENDS B3LocalPlanner

CONSTANTS direct, detour, Onset

MCRoute == {direct, detour}
MCDuration == [r \in MCRoute |-> IF r = direct THEN 3 ELSE 2]
MCWaypoint == [r \in MCRoute |->
  IF r = direct THEN [d \in 0 .. 3 |-> d]
                ELSE [d \in 0 .. 2 |-> IF d = 0 THEN 0 ELSE d + 1]]
MCPosition == 0 .. 3

MCMargin(r, d, t) ==
  IF r = direct THEN IF t >= Onset /\ d >= 2 THEN 1 ELSE 3
                ELSE 3 - 2 * d
=============================================================================
