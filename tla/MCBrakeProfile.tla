---------------------------- MODULE MCBrakeProfile ----------------------------
(***************************************************************************)
(* Two joints, of which velocities up to 4 can be braked within the        *)
(* horizon and 5 cannot.  The torque limits forbid configurations past two *)
(* walls, hard braking in a weak region and a stretch of both joints.      *)
(***************************************************************************)
EXTENDS BrakeProfile

MCStartQ == {-3, 0, 2}
MCStartV == -5 .. 5

MCSafe(x) ==
  /\ \A i \in Joint : x.q[i] \in -15 .. 9
  /\ \A i \in Joint : x.q[i] \in 4 .. 6 => Abs(x.v[i]) < 2
  /\ \E i \in Joint : x.q[i] \notin -8 .. -6
=============================================================================
