-------------------------------- MODULE BrakeLaw --------------------------------
(***************************************************************************)
(* One step of Level 4's brake, LocalPlanner._brake_profile in             *)
(* local_planner.py, and the profile it leads to in closed form.           *)
(*                                                                         *)
(* Time is counted in control steps, velocity in distance per step and     *)
(* position in half units, so that the mid-step term of the code's         *)
(* integration (dt^2/2 times the acceleration) is an integer.              *)
(***************************************************************************)
EXTENDS Integers

CONSTANTS
  Joint,
  Accel,      \* qddot_box, as a change of velocity per step
  Horizon     \* horizon_steps

ASSUME BrakeAssumption ==
  /\ Accel \in Nat \ {0}
  /\ Horizon \in Nat /\ Horizon >= 2

State == [q : [Joint -> Int], v : [Joint -> Int]]
Last == Horizon - 1

-----------------------------------------------------------------------------
Abs(x) == IF x < 0 THEN -x ELSE x
Sign(x) == IF x > 0 THEN 1 ELSE IF x < 0 THEN -1 ELSE 0

\* Mutation: no deceleration limit against negative velocities.
ClipAbove(x) == IF x > Accel THEN Accel ELSE x

\* np.clip(x, -qddot_box, qddot_box)
Clip(x) == IF x > Accel THEN Accel ELSE IF x < -Accel THEN -Accel ELSE x

VelocityAfter(v) ==
  LET new == v - Clip(v) IN IF Sign(new) = Sign(v) THEN new ELSE 0

\* Mutation: the half-step term is left out.
PositionEuler(q, v) == q + 2 * v

PositionAfter(q, v) == q + 2 * v - Clip(v)

Step(x) == [q |-> [i \in Joint |-> PositionAfter(x.q[i], x.v[i])],
            v |-> [i \in Joint |-> VelocityAfter(x.v[i])]]

\* r(x) <= N - 1
RestsInTime(x) == \A i \in Joint : Abs(x.v[i]) <= Last * Accel

-----------------------------------------------------------------------------
(***************************************************************************)
(* The closed form: full deceleration as long as the speed lasts, then one *)
(* partial step, then rest.  BrakeProfile checks and proves that this is   *)
(* what the recursion computes; the studies that judge whole profiles use  *)
(* it in its place.                                                        *)
(***************************************************************************)
\* The steps a speed is decelerated in full.
Full(speed) == speed \div Accel

Speed(speed, k) == IF k * Accel <= speed THEN speed - k * Accel ELSE 0

Travel(speed, k) ==
  LET n == Full(speed) IN
  IF k <= n THEN 2 * k * speed - Accel * k * k
            ELSE 2 * n * speed - Accel * n * n + (speed - n * Accel)

After(x, k) ==
  [q |-> [i \in Joint |-> x.q[i] + Sign(x.v[i]) * Travel(Abs(x.v[i]), k)],
   v |-> [i \in Joint |-> Sign(x.v[i]) * Speed(Abs(x.v[i]), k)]]
=============================================================================
