-------------------------- MODULE MCFallbackStudies --------------------------
(***************************************************************************)
(* An arm of two joints above a surface.  The first joint lowers the       *)
(* end-effector, the second raises it; the heavier the payload, the more   *)
(* torque both need.  A plan dips towards the surface and rises again.     *)
(***************************************************************************)
EXTENDS FallbackStudies

CONSTANTS j1, j2

MCHeight(q) == q[j1] - q[j2]
MCLift(i, q) == IF i = j1 THEN 1 ELSE IF q[j1] > 8 THEN -1 ELSE -2
MCOutward(i, q) == IF i = j1 THEN 1 ELSE -1
MCInverse(i, p, m) == IF i = j1 THEN (1 + m) * p.a[j1] + 2 * m ELSE p.a[j2] - 2 * m + p.v[j1]
MCTauMax == [i \in {j1, j2} |-> IF i = j1 THEN 9 ELSE 14]
MCDelta == [i \in {j1, j2} |-> 1]

Both(x, y) == [i \in {j1, j2} |-> IF i = j1 THEN x ELSE y]

MCSamples ==
  {[q |-> Both(x, y), v |-> Both(v, w)] :
     x \in {4, 7, 11}, y \in {0, 2}, v \in {-4, -1, 3}, w \in {0, 2}}

\* A dip with accelerations of one unit, its lowest point at the given height.
Dip(low) ==
  LET q == <<8, 7, 4, 1, 0, 1, 4, 7, 8>>
      v == <<0, -1, -2, -1, 0, 1, 2, 1, 0>>
      a == <<-1, -1, 1, 1, 1, 1, -1, -1, 0>>
  IN [n \in 0 .. 8 |-> [q |-> Both(low + q[n + 1], 0),
                        v |-> Both(v[n + 1], 0), a |-> Both(a[n + 1], 0)]]

MCPlans == <<Dip(9), Dip(7), Dip(5), Dip(3)>>

MCAsserted == [z |-> 6, k |-> 2]
MCHypotheses ==
  {[zlo |-> 6 - band, zhi |-> 6 + band, klo |-> 2 - frac, khi |-> 2 + frac] :
     band \in 0 .. 2, frac \in 0 .. 1}
MCBound == [zlo |-> 3, zhi |-> 8, klo |-> 0, khi |-> 3]
MCTruths == {[z |-> z, k |-> k] : z \in {5, 6, 7, 8, 10}, k \in {2, 3}}
=============================================================================
