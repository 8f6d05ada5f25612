-------------------------- MODULE MCExperimentHarness --------------------------
(***************************************************************************)
(* Calls of run_one, with a stutter when the last is over and nothing is   *)
(* left to happen.                                                         *)
(***************************************************************************)
EXTENDS ExperimentHarness

Finished == run = MaxRuns /\ at = "idle" /\ UNCHANGED vars

MCSpec == Init /\ [][Next \/ Finished]_vars /\ WF_vars(Proceed)
=============================================================================
