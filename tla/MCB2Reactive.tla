----------------------------- MODULE MCB2Reactive -----------------------------
(***************************************************************************)
(* Every waypoint of small accelerations and biases, some past the limit   *)
(* by themselves; the force ramps up against the motion and stays.         *)
(***************************************************************************)
EXTENDS B2Reactive

MCWaypoint == [accel : -3 .. 3, bias : -5 .. 5]
MCAccel == -6 .. 6
MCForce(t) == IF t < 2 THEN -t ELSE -2
=============================================================================
