------------------------- MODULE MCGravityFeedforward -------------------------
(***************************************************************************)
(* Two joints, of which one has an integral gain that reaches its clamp in *)
(* two updates.  The messages name both joints, one of them, or one        *)
(* without a position.                                                     *)
(***************************************************************************)
EXTENDS GravityFeedforward

CONSTANTS j1, j2

MCJoint == {j1, j2}
MCPosition == {1, 2}
MCVelocity == {0, 1}
MCIGain == [i \in MCJoint |-> IF i = j1 THEN 2 ELSE 0]
MCIClamp == [i \in MCJoint |-> 3]

Wants(p, u) == [q |-> p, v |-> u]
MCContent == {
  [i \in MCJoint |-> Wants(2, 0)],
  [i \in {j1} |-> Wants(1, 1)],
  [i \in MCJoint |-> IF i = j1 THEN Wants(Unset, 1) ELSE Wants(1, 0)]}
=============================================================================
