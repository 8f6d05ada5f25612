----------------------------- MODULE RouteCascade -----------------------------
(***************************************************************************)
(* Levels 1 to 3 at planning time, stage by stage: addTrajectorySegment    *)
(* (horizon_trajectory_operator.cpp), which first slows the delivered      *)
(* route for tracking, and plan_route (local_planner.py), which honours    *)
(* the ablation flags.  The two share the cascade; config tells them       *)
(* apart.                                                                  *)
(*                                                                         *)
(* A margin is abstracted to the verdict of the certificate: the set of    *)
(* routes that clear under the forces each would meet itself.  The routes  *)
(* of the cascade are named relative to the pretracked one.  The reshape   *)
(* QP is linearised about, and sees the forces of, the route it starts     *)
(* from: that it is solved says nothing of the verdict on its result.      *)
(***************************************************************************)
EXTENDS RouteChoice, RetimeContract

CONSTANT NoDilation

ASSUME NoDilationAssumption == NoDilation \notin Int

VARIABLES
  roomy,      \* the dilations of the delivered route with the relative margin
  pc,         \* the stage
  pre         \* the dilation pretracking has applied

vars == <<facts, decision, roomy, pc, pre>>

Stage == {"pretrack", "judge", "retime", "reshape",
          "reroute", "reroute_retime", "reroute_reshape", "done"}

TypeOK ==
  /\ FactsOK
  /\ decision \in Decision
  /\ roomy \subseteq 0 .. Span
  /\ pc \in Stage
  /\ pre \in 0 .. Span

-----------------------------------------------------------------------------
Goto(stage) == pc' = stage /\ UNCHANGED <<facts, decision, roomy, pre>>

Install(l, r, t) ==
  /\ decision' = Decided(l, r, t)
  /\ pc' = "done"
  /\ UNCHANGED <<facts, roomy, pre>>

\* Mutation: a dilation is applied although none has the relative margin.
PretrackAnyway ==
  /\ pc = "pretrack"
  /\ pre' = IF config.pretrack THEN Span ELSE 0
  /\ pc' = "judge"
  /\ UNCHANGED <<facts, decision, roomy>>

\* The delivered route is slowed until it leaves the feedback its share.
Pretrack ==
  /\ pc = "pretrack"
  /\ IF config.pretrack /\ 0 \notin roomy
       THEN \E d \in RetimeOutcomes(roomy, Grid, NoDilation) :
              pre' = IF d = NoDilation THEN 0 ELSE d
       ELSE pre' = 0
  /\ pc' = "judge"
  /\ UNCHANGED <<facts, decision, roomy>>

\* The whole route as it is, and the two ablations that never adapt.
JudgeRoute ==
  /\ pc = "judge"
  /\ LET ok == Plain("primary") \in clear
     IN  \/ (~config.predict \/ ok) /\ Install(0, Plain("primary"), FALSE)
         \/ config.predict /\ ~ok /\ ~config.act /\ Install(0, Plain("primary"), TRUE)
         \/ config.predict /\ ~ok /\ config.act /\ Goto("retime")

RetimeStage(here, b, l, next) ==
  /\ pc = here
  /\ \/ /\ 1 \in config.allow
        /\ \E d \in RetimeOutcomes({e \in 1 .. Span : Slowed(b, e) \in clear}, Grid, NoDilation) :
             IF d = NoDilation THEN Goto(next) ELSE Install(l, Slowed(b, d), TRUE)
     \/ 1 \notin config.allow /\ Goto(next)

\* Mutation: the QP's own verdict, taken with the forces of the nominal route.
AcceptsSolved(b) == 2 \in config.allow /\ b \in solved

\* The certificate is evaluated again along the reshaped route.
Accepts(b) == 2 \in config.allow /\ b \in solved /\ Bent(b) \in clear

Retime == RetimeStage("retime", "primary", 1, "reshape")

\* Mutation: a via route is taken before the primary one is reshaped.
RerouteBeforeReshape ==
  /\ pc = "reshape"
  /\ \/ /\ 3 \in config.allow /\ config.candidate /\ Plain("via") \in clear
        /\ Install(3, Plain("via"), TRUE)
     \/ /\ ~(3 \in config.allow /\ config.candidate /\ Plain("via") \in clear)
        /\ \/ Accepts("primary") /\ Install(2, Bent("primary"), TRUE)
           \/ ~Accepts("primary") /\ Goto("reroute")

Reshape ==
  /\ pc = "reshape"
  /\ \/ Accepts("primary") /\ Install(2, Bent("primary"), TRUE)
     \/ ~Accepts("primary") /\ Goto("reroute")

KeepPrimary == Install(0, Plain("primary"), TRUE)

Reroute ==
  /\ pc = "reroute"
  /\ LET open == 3 \in config.allow /\ config.candidate
     IN  \/ open /\ Plain("via") \in clear /\ Install(3, Plain("via"), TRUE)
         \/ open /\ Plain("via") \notin clear /\ Goto("reroute_retime")
         \/ ~open /\ KeepPrimary

RerouteRetime == RetimeStage("reroute_retime", "via", 3, "reroute_reshape")

\* Mutation: an exhausted cascade leaves the via route behind.
RerouteKeepsVia ==
  /\ pc = "reroute_reshape"
  /\ \/ Accepts("via") /\ Install(3, Bent("via"), TRUE)
     \/ ~Accepts("via") /\ Install(0, Plain("via"), TRUE)

RerouteReshape ==
  /\ pc = "reroute_reshape"
  /\ \/ Accepts("via") /\ Install(3, Bent("via"), TRUE)
     \/ ~Accepts("via") /\ KeepPrimary

-----------------------------------------------------------------------------
\* addTrajectorySegment pretracks and has no ablation flags; plan_route does
\* not pretrack.
InCpp(c) == c.pretrack /\ c.predict /\ c.act /\ c.allow = {1, 2, 3}
InPython(c) == ~c.pretrack

CascadeInit ==
  /\ Init
  /\ InCpp(config) \/ InPython(config)
  /\ roomy \in SUBSET (0 .. Span)
  /\ InPython(config) => roomy = {}
  /\ pc = "pretrack"
  /\ pre = 0

Next == Pretrack \/ JudgeRoute \/ Retime \/ Reshape \/ Reroute \/ RerouteRetime \/ RerouteReshape

CascadeSpec == CascadeInit /\ [][Next]_vars

-----------------------------------------------------------------------------
\* Whatever a level above 0 hands on clears the certificate under the forces it
\* will itself meet, not those of the route it was made from ("reported
\* m_phys=2.55 using stale forces, true m_phys=-0.14", local_planner.py).
AdaptedClears == decision.level > 0 => decision.route \in clear

\* A via route is followed only when nothing short of it clears: not one dilation
\* of the grid, and no reshape that is solved (Theorem 3's necessity of
\* rerouting).
RerouteIsNecessary ==
  decision.level = 3 =>
    /\ Plain("primary") \notin clear
    /\ 1 \in config.allow => \A d \in Grid : Slowed("primary", d) \notin clear
    /\ 2 \in config.allow => "primary" \notin solved \/ Bent("primary") \notin clear

\* With the cascade exhausted the primary route is kept, and with it the slowing
\* of pretracking: it has the relative margin, or no dilation of the grid has.
FallBackIsPretracked ==
  (pc = "done" /\ config.pretrack /\ decision.level = 0)
    => /\ decision.route = Plain("primary")
       /\ pre \in roomy \/ (Grid \cap roomy = {} /\ pre = 0)

\* The stages together take the one step of RouteChoice.
ImplementsChoice == Spec
=============================================================================
