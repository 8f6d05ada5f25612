--------------------------- MODULE MCRouteCascade -----------------------------
(***************************************************************************)
(* Two dilations, of which the grid holds one: every verdict of the        *)
(* certificate on every route, with every configuration.                   *)
(***************************************************************************)
EXTENDS RouteCascade

\* The route is decided: the only legal deadlock.
Finished == pc = "done" /\ UNCHANGED vars
MCSpec == CascadeInit /\ [][Next \/ Finished]_vars
=============================================================================
