-------------------------- MODULE MCReferenceRollout --------------------------
(***************************************************************************)
(* Four cycles with a horizon of two: the route ends inside the rollout,   *)
(* so that the hold at its goal comes into view as well.  A force is there *)
(* from some cycle on, as in the experiments.                              *)
(***************************************************************************)
EXTENDS ReferenceRollout

\* The rollout is over: the only legal deadlock.
Finished == phase = "done" /\ UNCHANGED vars
MCInit == Init /\ push \in {c .. Cycles - 1 : c \in 0 .. Cycles}
MCSpec == MCInit /\ [][Next \/ Finished]_vars
=============================================================================
