------------------------------ MODULE RunContract ------------------------------
(***************************************************************************)
(* What the sweeps rely on in run_one: calls follow each other, each is    *)
(* refused, returns, raises or dies with the harness, and one that returns *)
(* had its goal executed with success.                                     *)
(***************************************************************************)
VARIABLES
  calling,   \* a call is in progress
  last,      \* what became of the latest
  arrived    \* its goal was executed with success, by its own launch

vars == <<calling, last, arrived>>

Init == calling = FALSE /\ last = "none" /\ arrived = FALSE

Call == ~calling /\ calling' = TRUE /\ last' = "running" /\ arrived' = FALSE

\* The bag directory exists.
Refuse == ~calling /\ calling' = FALSE /\ last' = "raised" /\ arrived' = FALSE

\* The action server is done; it may outlive a harness that died.
Arrive == ~arrived /\ arrived' = TRUE /\ UNCHANGED <<calling, last>>

Ends(how) == calling /\ calling' = FALSE /\ last' = how /\ UNCHANGED arrived

Return == arrived /\ Ends("returned")

Next == Call \/ Refuse \/ Arrive \/ Return \/ Ends("raised") \/ Ends("died")

Spec == Init /\ [][Next]_vars
=============================================================================
