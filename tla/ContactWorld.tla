------------------------------ MODULE ContactWorld ------------------------------
(***************************************************************************)
(* The contact-plane platform of code/experiments/                         *)
(* wmi_theorem3_hypothesis_fallback.py and wmi_fallback_family.py: an      *)
(* environment is a virtual surface of height z and stiffness k, a         *)
(* hypothesis a box of them; the margin of a trajectory under a box, and   *)
(* the manoeuvres the two studies judge by it.                             *)
(*                                                                         *)
(* The arm is any function: the height of its end-effector, the row of its *)
(* Jacobian that lifts it, and the torque it needs with a payload and no   *)
(* contact (dynamics.py).                                                  *)
(***************************************************************************)
EXTENDS BrakeLaw

CONSTANTS
  Height(_),       \* Height(q): arm.ee_position(q)[1]
  Lift(_, _),      \* Lift(i, q): arm.jacobian(q)[1, i]
  Inverse(_, _, _),\* Inverse(i, p, m): required torque of joint i without contact
  Outward(_, _),   \* Outward(i, q): the unit vector along +J_z(q)^T, 0 if there is none
  TauMax, Delta    \* torque limits and cert.delta_tau, by joint

Point == [q : [Joint -> Int], v : [Joint -> Int], a : [Joint -> Int]]
Env == [z : Int, k : Nat]
Box == [zlo : Int, zhi : Int, klo : Nat, khi : Nat]

\* What the studies take the arm for.  The bounds are integers only to be counted.
Arm ==
  /\ \A q \in [Joint -> Int] : Height(q) \in Int
  /\ \A q \in [Joint -> Int], i \in Joint : Lift(i, q) \in Int /\ Outward(i, q) \in Int
  /\ \A p \in Point, i \in Joint, m \in Int : Inverse(i, p, m) \in Int
  /\ TauMax \in [Joint -> Int] /\ Delta \in [Joint -> Nat]

Larger(a, b) == IF a > b THEN a ELSE b

-----------------------------------------------------------------------------
PointBox(e) == [zlo |-> e.z, zhi |-> e.z, klo |-> e.k, khi |-> e.k]

Contains(box, e) == e.z \in box.zlo .. box.zhi /\ e.k \in box.klo .. box.khi

ForceScalar(q, z, k) == k * Larger(0, z - Height(q))

\* force_scalar_range: the force grows with both z and k.
Least(q, box) == ForceScalar(q, box.zlo, box.klo)
Most(q, box) == ForceScalar(q, box.zhi, box.khi)

Required(i, p, m, s) == Inverse(i, p, m) - Lift(i, p.q) * s

\* The torque is affine in the force: its modulus is largest at an end.
Worst(i, p, box, m) ==
  Larger(Abs(Required(i, p, m, Least(p.q, box))), Abs(Required(i, p, m, Most(p.q, box))))

Margin(i, p, box, m) == TauMax[i] - Worst(i, p, box, m) - Delta[i]

\* rho(traj) >= level
Rho(traj, box, m, level) ==
  \A j \in DOMAIN traj, i \in Joint : Margin(i, traj[j], box, m) >= level

\* Mutation: the threshold covers the weak side of the hypothesis only.
SwingDown(q, box, asserted) == ForceScalar(q, asserted.z, asserted.k) - Least(q, box)

\* What the hypothesis itself can explain, as a force.
Swing(q, box, asserted) ==
  LET s == ForceScalar(q, asserted.z, asserted.k)
  IN Larger(Abs(Most(q, box) - s), Abs(s - Least(q, box)))

\* x > beta_at(q): the largest lift and the largest delta_tau, whichever joints'.
OverBeta(x, q, box, asserted) ==
  \A i, l \in Joint : x > Abs(Lift(i, q)) * Swing(q, box, asserted) + Delta[l]

-----------------------------------------------------------------------------
(***************************************************************************)
(* The manoeuvres.  A point of the brake is its state and deceleration.    *)
(***************************************************************************)
Braking(y) == [q |-> y.q, v |-> y.v, a |-> [i \in Joint |-> -Clip(y.v[i])]]

BrakePoints(x) == [k \in 0 .. Last |-> Braking(After(x, k))]

\* Membership of X_f^box.
InTerminalSet(x, box, m) == RestsInTime(x) /\ Rho(BrakePoints(x), box, m, 0)

\* Ground truth: the same of the one environment there is.
BrakeSafeUnder(x, e, m) == InTerminalSet(x, PointBox(e), m)

\* Continue at the current velocity.
CoastPoints(x) ==
  [k \in 0 .. Last |->
     [q |-> [i \in Joint |-> x.q[i] + 2 * k * x.v[i]], v |-> x.v, a |-> [i \in Joint |-> 0]]]

\* brake_profile: past the horizon the last point is held.
ExtendedBrake(x, steps) ==
  [k \in 0 .. steps - 1 |->
     IF k < Horizon THEN BrakePoints(x)[k]
     ELSE [BrakePoints(x)[Last] EXCEPT !.a = [i \in Joint |-> 0]]]

\* r(x)
RestStep(x) == CHOOSE r \in 0 .. Horizon : 
  /\ \A i \in Joint : Abs(x.v[i]) <= r * Accel
  /\ \A n \in 0 .. r - 1 : \E i \in Joint : Abs(x.v[i]) > n * Accel

\* The acceleration along the way out at step n of it: away for half of the steps,
\* then against it; the last step has none.
Thrust(n, out) == IF n = out - 1 THEN 0 ELSE IF n < out \div 2 THEN Accel ELSE -Accel

\* The way out along u, from rest at q.  The position adds the new velocity and the
\* half-step term.
Withdrawal(q, u, out) ==
  LET away[n \in 0 .. out] ==
        IF n = 0 THEN [q |-> q, v |-> [i \in Joint |-> 0]]
        ELSE LET y == away[n - 1]
                 w == [i \in Joint |-> y.v[i] + Thrust(n - 1, out) * u[i]]
             IN [q |-> [i \in Joint |-> y.q[i] + 2 * w[i] + Thrust(n - 1, out) * u[i]], v |-> w]
  IN away

\* retreat_profile: brake, withdraw in the steps that are left.
RetreatPoints(x, steps) ==
  LET brake == ExtendedBrake(x, steps)
      r == RestStep(x)
      out == steps - r
      u == [i \in Joint |-> Outward(i, brake[r].q)]
      away == Withdrawal(brake[r].q, u, out)
  IN IF r >= steps - 2 \/ \A i \in Joint : u[i] = 0 THEN brake
     ELSE [k \in 0 .. steps - 1 |->
             IF k < r THEN brake[k]
             ELSE [q |-> away[k - r].q, v |-> away[k - r].v,
                   a |-> [i \in Joint |-> Thrust(k - r, out) * u[i]]]]
=============================================================================
