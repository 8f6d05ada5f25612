------------------------------- MODULE MCCampaign -------------------------------
(***************************************************************************)
(* A small instance of Campaign: two payloads, a route of four cycles,     *)
(* joint states that settle, overshoot or lack a joint, diagnostics of two *)
(* episodes, and forces that ramp before or during the run.                *)
(***************************************************************************)
EXTENDS Campaign

Sample(t, e) == [at |-> t, whole |-> e >= 0, err |-> e]

\* The last of three samples: the settle window holds the last two.
MCJoints == {<<Sample(0, a), Sample(2, b), Sample(3, c)>> : a \in {0, 2}, b, c \in {-1, 0, 2}}

Joint(js) == [joints |-> js, sent |-> {1}, routes |-> {2}, diag |-> <<>>, routed |-> FALSE]
Settled == Joint(<<Sample(0, 2), Sample(2, 0), Sample(3, 0)>>)

MCDiag == {[i \in 1 .. 3 |-> [at |-> i, stamp |-> i, acts |-> i \in acts,
                              margin |-> IF i = 2 /\ acts = {2} THEN None ELSE i, bind |-> 1]] :
             acts \in {{}, {2}, {1, 3}}}

MCRecordings ==
  [n \in {"B1", "B2", "B3"} |->
     IF n = "B1" THEN {Joint(o) : o \in UNION {Read(js) : js \in MCJoints}}
     ELSE {[Settled EXCEPT !.diag = o] : o \in UNION {Read(d) : d \in MCDiag}}]

MCRamps ==
  {[pose |-> p, warn |-> 2, cross |-> 3, fail |-> 3] : p \in {0, 3}}
    \cup {[pose |-> 2, warn |-> 0, cross |-> 0, fail |-> 0]}

MCPayloads == <<0, 3>>
MCLatencies == {0, 1}
MCStretches == {1, 2}
=============================================================================
