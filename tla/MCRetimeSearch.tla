---------------------------- MODULE MCRetimeSearch ----------------------------
(***************************************************************************)
(* Two cells of four dilations and two halvings: every set of feasible     *)
(* dilations, with every set of closed-form candidates.                    *)
(***************************************************************************)
EXTENDS RetimeSearch

MCWidth == [k \in 0 .. Iterations |-> Span \div 2 ^ k]

\* The search has stopped: the only legal deadlock.
Finished == pc = "done" /\ UNCHANGED vars
MCSpec == Init /\ [][Next \/ Finished]_vars
=============================================================================
