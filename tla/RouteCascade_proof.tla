-------------------------- MODULE RouteCascade_proof --------------------------
(***************************************************************************)
(* What TLAPS proves of levels 1 to 3 at planning time, for every number   *)
(* of dilations, every grid and every verdict of the certificate.  The     *)
(* stages implement the one step of RouteChoice, and what RouteChoice      *)
(* promises is thereby a promise of the stages.                            *)
(***************************************************************************)
EXTENDS RouteCascade, TLAPS

Passed(n) == \A j \in Rank : j < n => Exhausted(j)

Open == 3 \in config.allow /\ config.candidate

\* What a stage may rely on: nothing preferred to it clears.
StagesOK ==
  /\ pc # "done" => decision = Undecided
  /\ pc \in {"retime", "reshape", "reroute", "reroute_retime", "reroute_reshape"} => Adapts
  /\ pc = "retime" => Passed(1)
  /\ pc = "reshape" => Passed(2)
  /\ pc = "reroute" => Passed(3)
  /\ pc = "reroute_retime" => Passed(4) /\ Open
  /\ pc = "reroute_reshape" => Passed(5) /\ Open

PretrackOK ==
  /\ (pc # "pretrack" /\ config.pretrack)
       => pre \in roomy \/ (Grid \cap roomy = {} /\ pre = 0)
  /\ (pc = "done" /\ decision.level = 0) => decision.route = Plain("primary")

IInv == TypeOK /\ StagesOK /\ PretrackOK

-----------------------------------------------------------------------------
\* The routes of the cascade are routes.
LEMMA RoutesAreRoutes ==
  ASSUME NEW b \in Base
  PROVE  /\ Plain(b) \in Route /\ Bent(b) \in Route
         /\ \A d \in 1 .. Span : Slowed(b, d) \in Route
  BY DilationAssumption DEF Route, Plain, Bent, Slowed

\* A rank is exhausted with those before it, or is the first that is not.
LEMMA PassedOn ==
  ASSUME NEW n \in Rank, Passed(n), Exhausted(n)
  PROVE  Passed(n + 1)
  BY DEF Passed, Rank

LEMMA PlainRank ==
  ASSUME NEW k \in {0, 3}, Permitted(k)
  PROVE  /\ Plain(BaseOf(k)) \in clear => Plain(BaseOf(k)) \in Offers(k)
         /\ Plain(BaseOf(k)) \notin clear => Exhausted(k)
  BY DEF Exhausted, Sure, Offers

LEMMA RetimeRank ==
  ASSUME NEW k \in {1, 4}, Permitted(k)
  PROVE  /\ \A d \in 1 .. Span : Slowed(BaseOf(k), d) \in Offers(k)
         /\ (\A d \in Grid : Slowed(BaseOf(k), d) \notin clear) => Exhausted(k)
  BY DEF Exhausted, Sure, Offers, Slowed

LEMMA ReshapeRank ==
  ASSUME NEW k \in {2, 5}, Permitted(k)
  PROVE  /\ BaseOf(k) \in solved => Bent(BaseOf(k)) \in Offers(k)
         /\ ~(BaseOf(k) \in solved /\ Bent(BaseOf(k)) \in clear) => Exhausted(k)
  BY DEF Exhausted, Sure, Offers

LEMMA ForbiddenRank ==
  ASSUME NEW k \in Rank, ~Permitted(k)
  PROVE  Exhausted(k)
  BY DEF Exhausted, Sure, Offers

-----------------------------------------------------------------------------
\* A retiming stage moves on only when its rank is exhausted, and installs only
\* a dilation that clears.
LEMMA RetimeStageOutcome ==
  ASSUME NEW here, NEW next, NEW k \in {1, 4},
         Permitted(k) <=> 1 \in config.allow,
         RetimeStage(here, BaseOf(k), LevelOf(k), next)
  PROVE  \/ Goto(next) /\ Exhausted(k)
         \/ \E r \in Offers(k) \cap clear : Install(LevelOf(k), r, TRUE)
  <1> DEFINE good == {e \in 1 .. Span : Slowed(BaseOf(k), e) \in clear}
  <1>1. CASE 1 \notin config.allow
    <2>1. Exhausted(k)
      BY <1>1, ForbiddenRank DEF Rank
    <2> QED
      BY <1>1, <2>1 DEF RetimeStage
  <1>2. CASE 1 \in config.allow
    <2>1. PICK d \in RetimeOutcomes(good, Grid, NoDilation) :
            IF d = NoDilation THEN Goto(next) ELSE Install(LevelOf(k), Slowed(BaseOf(k), d), TRUE)
      BY <1>2 DEF RetimeStage
    <2>2. CASE d = NoDilation
      <3>1. d \notin good
        BY <2>2, DilationAssumption, NoDilationAssumption
      <3>2. Grid \cap good = {}
        BY <3>1 DEF RetimeOutcomes
      <3>3. \A e \in Grid : Slowed(BaseOf(k), e) \notin clear
        BY <3>2, DilationAssumption
      <3>4. Exhausted(k)
        BY <1>2, <3>3, RetimeRank
      <3> QED
        BY <2>1, <2>2, <3>4
    <2>3. CASE d # NoDilation
      <3>1. d \in good
        BY <2>3 DEF RetimeOutcomes
      <3>2. Slowed(BaseOf(k), d) \in Offers(k) \cap clear
        BY <1>2, <3>1, RetimeRank
      <3> QED
        BY <2>1, <2>3, <3>2
    <2> QED
      BY <2>2, <2>3
  <1> QED
    BY <1>1, <1>2

\* A reshaping stage installs only a reshape that clears; its rank is otherwise
\* exhausted.
LEMMA ReshapeOutcome ==
  ASSUME NEW k \in {2, 5}, Permitted(k) <=> 2 \in config.allow
  PROVE  /\ Accepts(BaseOf(k)) => Bent(BaseOf(k)) \in Offers(k) \cap clear
         /\ ~Accepts(BaseOf(k)) => Exhausted(k)
  BY ReshapeRank, ForbiddenRank DEF Accepts, Rank

\* Installing a route of rank k, those before it exhausted, is one Choose.
LEMMA InstallChooses ==
  ASSUME decision = Undecided, Adapts, NEW k \in Rank, Passed(k),
         NEW l, l = LevelOf(k), NEW t \in BOOLEAN, t <=> k # 0,
         NEW r \in Offers(k) \cap clear, Install(l, r, t)
  PROVE  Choose
  <1>1. t = (k # 0)
    OBVIOUS
  <1>2. decision' = Decided(LevelOf(k), r, k # 0)
    BY <1>1 DEF Install
  <1>3. Adapt
    BY <1>2 DEF Adapt, Passed
  <1> QED
    BY <1>3 DEF Choose, Install

\* Keeping the primary route with every rank exhausted is one Choose.
LEMMA KeepingChooses ==
  ASSUME decision = Undecided, Adapts, Passed(6), KeepPrimary
  PROVE  Choose
  BY DEF Choose, FallBack, Passed, Rank, KeepPrimary, Install

-----------------------------------------------------------------------------
\* A step of a stage: it chooses, or hands over with its own rank exhausted.
LEMMA StageSteps ==
  ASSUME IInv, Next
  PROVE  /\ Choose \/ UNCHANGED <<facts, decision>>
         /\ pc' # "done" => UNCHANGED decision
         /\ pc' = "retime" => Passed(1) /\ Adapts
         /\ pc' = "reshape" => Passed(2) /\ Adapts
         /\ pc' = "reroute" => Passed(3) /\ Adapts
         /\ pc' = "reroute_retime" => Passed(4) /\ Adapts /\ Open
         /\ pc' = "reroute_reshape" => Passed(5) /\ Adapts /\ Open
  <1>1. CASE Pretrack
    BY <1>1 DEF Pretrack
  <1>2. CASE JudgeRoute
    <2> USE DEF JudgeRoute
    <2>0. decision = Undecided
      BY <1>2 DEF IInv, StagesOK
    <2>1. CASE /\ ~config.predict \/ Plain("primary") \in clear
               /\ Install(0, Plain("primary"), FALSE)
      <3>1. CASE Adapts
        <4>1. Plain("primary") \in Offers(0) \cap clear
          BY <2>1, <3>1 DEF Adapts, Offers, Permitted, BaseOf
        <4>2. Passed(0) /\ 0 \in Rank /\ LevelOf(0) = 0
          BY DEF Passed, Rank, LevelOf
        <4>3. Choose
          BY <2>0, <2>1, <3>1, <4>1, <4>2, InstallChooses
        <4> QED
          BY <2>1, <4>3 DEF Install
      <3>2. CASE ~Adapts
        <4>1. LeaveAlone
          BY <2>1, <3>2 DEF LeaveAlone, Install, Decided
        <4> QED
          BY <2>0, <2>1, <4>1 DEF Install, Choose
      <3> QED
        BY <3>1, <3>2
    <2>2. CASE /\ config.predict /\ Plain("primary") \notin clear /\ ~config.act
               /\ Install(0, Plain("primary"), TRUE)
      <3>1. LeaveAlone
        BY <2>2 DEF LeaveAlone, Install, Decided, Adapts
      <3> QED
        BY <2>0, <2>2, <3>1 DEF Install, Choose
    <2>3. CASE /\ config.predict /\ Plain("primary") \notin clear /\ config.act
               /\ Goto("retime")
      <3>1. Exhausted(0)
        BY <2>3, PlainRank DEF Permitted, BaseOf
      <3>2. Passed(1)
        BY <3>1, PassedOn DEF Passed, Rank
      <3> QED
        BY <2>3, <3>2 DEF Goto, Adapts
    <2> QED
      BY <1>2, <2>1, <2>2, <2>3
  <1>3. CASE Retime
    <2>1. decision = Undecided /\ Adapts /\ Passed(1)
      BY <1>3 DEF Retime, RetimeStage, IInv, StagesOK
    <2>2. /\ BaseOf(1) = "primary" /\ LevelOf(1) = 1
          /\ Permitted(1) <=> 1 \in config.allow
      BY DEF BaseOf, LevelOf, Permitted
    <2>3. \/ Goto("reshape") /\ Exhausted(1)
          \/ \E r \in Offers(1) \cap clear : Install(1, r, TRUE)
      <3>1. RetimeStage("retime", BaseOf(1), LevelOf(1), "reshape")
        BY <1>3, <2>2 DEF Retime
      <3> QED
        BY <2>2, <3>1, RetimeStageOutcome
    <2>4. CASE Goto("reshape") /\ Exhausted(1)
      <3>1. Passed(2)
        BY <2>1, <2>4, PassedOn DEF Rank
      <3> QED
        BY <2>1, <2>4, <3>1 DEF Goto
    <2>5. CASE \E r \in Offers(1) \cap clear : Install(1, r, TRUE)
      <3>1. PICK r \in Offers(1) \cap clear : Install(1, r, TRUE)
        BY <2>5
      <3>2. 1 \in Rank /\ 1 # 0
        BY DEF Rank
      <3>3. Choose
        BY <2>1, <2>2, <3>1, <3>2, InstallChooses
      <3> QED
        BY <3>1, <3>3 DEF Install
    <2> QED
      BY <2>3, <2>4, <2>5
  <1>4. CASE Reshape
    <2>1. decision = Undecided /\ Adapts /\ Passed(2)
      BY <1>4 DEF Reshape, IInv, StagesOK
    <2>2. /\ BaseOf(2) = "primary" /\ LevelOf(2) = 2
          /\ Permitted(2) <=> 2 \in config.allow
      BY DEF BaseOf, LevelOf, Permitted
    <2>3. CASE Accepts("primary") /\ Install(2, Bent("primary"), TRUE)
      <3>0. Bent("primary") \in Offers(2) \cap clear /\ 2 \in Rank /\ 2 # 0
        BY <2>2, <2>3, ReshapeOutcome DEF Rank
      <3>1. Choose
        <4>1. Install(2, Bent("primary"), TRUE) /\ LevelOf(2) = 2
          BY <2>2, <2>3
        <4> QED
          BY <2>1, <3>0, <4>1, InstallChooses
      <3> QED
        BY <2>3, <3>1 DEF Install
    <2>4. CASE ~Accepts("primary") /\ Goto("reroute")
      <3>1. Passed(3)
        BY <2>1, <2>2, <2>4, ReshapeOutcome, PassedOn DEF Rank
      <3> QED
        BY <2>1, <2>4, <3>1 DEF Goto
    <2> QED
      BY <1>4, <2>3, <2>4 DEF Reshape
  <1>5. CASE Reroute
    <2>1. decision = Undecided /\ Adapts /\ Passed(3)
      BY <1>5 DEF Reroute, IInv, StagesOK
    <2>2. /\ BaseOf(3) = "via" /\ LevelOf(3) = 3
          /\ Permitted(3) <=> Open
      BY DEF BaseOf, LevelOf, Permitted, Open
    <2>3. CASE Open /\ Plain("via") \in clear /\ Install(3, Plain("via"), TRUE)
      <3>0. Plain("via") \in Offers(3) \cap clear /\ 3 \in Rank /\ 3 # 0
        BY <2>2, <2>3, PlainRank DEF Rank
      <3>1. Choose
        <4>1. Install(3, Plain("via"), TRUE) /\ LevelOf(3) = 3
          BY <2>2, <2>3
        <4> QED
          BY <2>1, <3>0, <4>1, InstallChooses
      <3> QED
        BY <2>3, <3>1 DEF Install
    <2>4. CASE Open /\ Plain("via") \notin clear /\ Goto("reroute_retime")
      <3>1. Passed(4)
        BY <2>1, <2>2, <2>4, PlainRank, PassedOn DEF Rank
      <3> QED
        BY <2>1, <2>4, <3>1 DEF Goto
    <2>5. CASE ~Open /\ KeepPrimary
      <3>1. \A k \in {3, 4, 5} : ~Permitted(k)
        BY <2>5 DEF Permitted, Open
      <3>2. Passed(6)
        BY <2>1, <3>1, ForbiddenRank DEF Passed, Rank
      <3>3. Choose
        BY <2>1, <2>5, <3>2, KeepingChooses
      <3> QED
        BY <2>5, <3>3 DEF KeepPrimary, Install
    <2> QED
      BY <1>5, <2>3, <2>4, <2>5 DEF Reroute, Open
  <1>6. CASE RerouteRetime
    <2>1. decision = Undecided /\ Adapts /\ Passed(4) /\ Open
      BY <1>6 DEF RerouteRetime, RetimeStage, IInv, StagesOK
    <2>2. /\ BaseOf(4) = "via" /\ LevelOf(4) = 3
          /\ Permitted(4) <=> 1 \in config.allow
      BY <2>1 DEF BaseOf, LevelOf, Permitted, Open
    <2>3. \/ Goto("reroute_reshape") /\ Exhausted(4)
          \/ \E r \in Offers(4) \cap clear : Install(3, r, TRUE)
      <3>1. RetimeStage("reroute_retime", BaseOf(4), LevelOf(4), "reroute_reshape")
        BY <1>6, <2>2 DEF RerouteRetime
      <3> QED
        BY <2>2, <3>1, RetimeStageOutcome
    <2>4. CASE Goto("reroute_reshape") /\ Exhausted(4)
      <3>1. Passed(5)
        BY <2>1, <2>4, PassedOn DEF Rank
      <3> QED
        BY <2>1, <2>4, <3>1 DEF Goto
    <2>5. CASE \E r \in Offers(4) \cap clear : Install(3, r, TRUE)
      <3>1. PICK r \in Offers(4) \cap clear : Install(3, r, TRUE)
        BY <2>5
      <3>2. 4 \in Rank /\ 4 # 0
        BY DEF Rank
      <3>3. Choose
        BY <2>1, <2>2, <3>1, <3>2, InstallChooses
      <3> QED
        BY <3>1, <3>3 DEF Install
    <2> QED
      BY <2>3, <2>4, <2>5
  <1>7. CASE RerouteReshape
    <2>1. decision = Undecided /\ Adapts /\ Passed(5) /\ Open
      BY <1>7 DEF RerouteReshape, IInv, StagesOK
    <2>2. /\ BaseOf(5) = "via" /\ LevelOf(5) = 3
          /\ Permitted(5) <=> 2 \in config.allow
      BY <2>1 DEF BaseOf, LevelOf, Permitted, Open
    <2>3. CASE Accepts("via") /\ Install(3, Bent("via"), TRUE)
      <3>0. Bent("via") \in Offers(5) \cap clear /\ 5 \in Rank /\ 5 # 0
        BY <2>2, <2>3, ReshapeOutcome DEF Rank
      <3>1. Choose
        <4>1. Install(3, Bent("via"), TRUE) /\ LevelOf(5) = 3
          BY <2>2, <2>3
        <4> QED
          BY <2>1, <3>0, <4>1, InstallChooses
      <3> QED
        BY <2>3, <3>1 DEF Install
    <2>4. CASE ~Accepts("via") /\ KeepPrimary
      <3>1. Passed(6)
        BY <2>1, <2>2, <2>4, ReshapeOutcome, PassedOn DEF Rank
      <3>2. Choose
        BY <2>1, <2>4, <3>1, KeepingChooses
      <3> QED
        BY <2>4, <3>2 DEF KeepPrimary, Install
    <2> QED
      BY <1>7, <2>3, <2>4 DEF RerouteReshape
  <1> QED
    BY <1>1, <1>2, <1>3, <1>4, <1>5, <1>6, <1>7 DEF Next

-----------------------------------------------------------------------------
\* A step keeps the types: what is installed is a route, what pretracking
\* applies a dilation.
LEMMA TypesAreKept ==
  ASSUME IInv, [Next]_vars
  PROVE  TypeOK'
  <1> USE DEF TypeOK, FactsOK
  <1>0. TypeOK
    BY DEF IInv
  <1>install. \A l \in 0 .. 3, r \in Route, t \in BOOLEAN : Install(l, r, t) => TypeOK'
    BY <1>0 DEF Install, Decided, Decision, Stage, facts
  <1> HIDE DEF TypeOK
  <1>values. TRUE \in BOOLEAN /\ FALSE \in BOOLEAN
    OBVIOUS
  <1>1. \A l \in 0 .. 3, r \in Route :
          Install(l, r, TRUE) \/ Install(l, r, FALSE) => TypeOK'
    BY <1>install, <1>values, Zenon
  <1>2. \A stage \in Stage : Goto(stage) => TypeOK'
    BY <1>0 DEF Goto, facts, TypeOK
  <1>3. \A b \in Base : Plain(b) \in Route /\ Bent(b) \in Route
    BY RoutesAreRoutes
  <1>levels. 0 \in 0 .. 3 /\ 1 \in 0 .. 3 /\ 2 \in 0 .. 3 /\ 3 \in 0 .. 3
    OBVIOUS
  <1>stages. /\ {"retime", "reshape", "reroute"} \subseteq Stage
             /\ {"reroute_retime", "reroute_reshape"} \subseteq Stage
    BY DEF Stage
  <1>4. "primary" \in Base /\ "via" \in Base
    BY DEF Base
  <1>5. ASSUME NEW here, NEW b \in Base, NEW l \in 0 .. 3, NEW next \in Stage,
               RetimeStage(here, b, l, next)
        PROVE  TypeOK'
    <2> DEFINE good == {e \in 1 .. Span : Slowed(b, e) \in clear}
    <2>1. CASE Goto(next)
      BY <1>2, <2>1
    <2>2. CASE \E d \in RetimeOutcomes(good, Grid, NoDilation) :
                 d # NoDilation /\ Install(l, Slowed(b, d), TRUE)
      <3>1. PICK d \in 1 .. Span : Install(l, Slowed(b, d), TRUE)
        BY <2>2 DEF RetimeOutcomes
      <3>2. Slowed(b, d) \in Route
        BY <3>1, RoutesAreRoutes
      <3> QED
        BY <1>1, <3>1, <3>2
    <2> QED
      BY <1>5, <2>1, <2>2 DEF RetimeStage
  <1>6. KeepPrimary => TypeOK'
    BY <1>1, <1>3, <1>4, <1>levels, Zenon DEF KeepPrimary
  <1> USE DEF TypeOK
  <1>7. CASE Pretrack
    <2>1. pre' \in 0 .. Span
      <3>1. CASE config.pretrack /\ 0 \notin roomy
        <4>1. PICK d \in RetimeOutcomes(roomy, Grid, NoDilation) :
                pre' = IF d = NoDilation THEN 0 ELSE d
          BY <1>7, <3>1 DEF Pretrack
        <4>2. d # NoDilation => d \in 0 .. Span
          BY <1>0, <4>1 DEF RetimeOutcomes
        <4> QED
          BY <4>1, <4>2, DilationAssumption
      <3>2. CASE ~(config.pretrack /\ 0 \notin roomy)
        BY <1>7, <3>2, DilationAssumption DEF Pretrack
      <3> QED
        BY <3>1, <3>2
    <2> QED
      BY <1>0, <1>7, <2>1 DEF Pretrack, Stage, facts
  <1> HIDE DEF TypeOK
  <1>8. CASE JudgeRoute
    BY <1>1, <1>2, <1>3, <1>4, <1>8, <1>levels, <1>stages, Zenon DEF JudgeRoute
  <1>9. CASE Retime
    BY <1>4, <1>5, <1>9 DEF Retime, Stage
  <1>10. CASE Reshape
    BY <1>1, <1>2, <1>3, <1>4, <1>10, <1>levels, <1>stages, Zenon DEF Reshape
  <1>11. CASE Reroute
    BY <1>1, <1>2, <1>3, <1>4, <1>6, <1>11, <1>levels, <1>stages, Zenon DEF Reroute
  <1>12. CASE RerouteRetime
    BY <1>4, <1>5, <1>12 DEF RerouteRetime, Stage
  <1>13. CASE RerouteReshape
    BY <1>1, <1>3, <1>4, <1>6, <1>13, <1>levels, <1>stages, Zenon DEF RerouteReshape
  <1>14. CASE UNCHANGED vars
    BY <1>0, <1>14 DEF vars, facts, TypeOK
  <1> QED
    BY <1>7, <1>8, <1>9, <1>10, <1>11, <1>12, <1>13, <1>14 DEF Next

\* After pretracking the dilation it applied stays, and only a route of level 0
\* is the primary one as it is.
LEMMA PretrackIsKept ==
  ASSUME IInv, [Next]_vars
  PROVE  PretrackOK'
  <1> USE DEF PretrackOK, TypeOK
  <1>0. PretrackOK /\ TypeOK
    BY DEF IInv
  <1>1. CASE Pretrack
    <2>1. pc' = "judge" /\ UNCHANGED <<config, roomy>>
      BY <1>1 DEF Pretrack, facts
    <2>2. CASE config.pretrack /\ 0 \notin roomy
      <3>1. PICK d \in RetimeOutcomes(roomy, Grid, NoDilation) :
              pre' = IF d = NoDilation THEN 0 ELSE d
        BY <1>1, <2>2 DEF Pretrack
      <3>2. d \in roomy => d # NoDilation
        BY <1>0, NoDilationAssumption, DilationAssumption
      <3>3. d \notin roomy => d = NoDilation /\ Grid \cap roomy = {}
        BY <3>1 DEF RetimeOutcomes
      <3> QED
        BY <2>1, <3>1, <3>2, <3>3
    <2>3. CASE ~(config.pretrack /\ 0 \notin roomy)
      BY <1>1, <2>1, <2>3 DEF Pretrack
    <2> QED
      BY <2>2, <2>3
  <1> DEFINE Kept == /\ pc # "pretrack" /\ UNCHANGED <<config, roomy, pre>>
                     /\ (pc' = "done" /\ decision'.level = 0)
                          => decision'.route = Plain("primary")
  <1>2. Kept => PretrackOK'
    BY <1>0
  <1> HIDE DEF PretrackOK, TypeOK
  <1>3. \A stage : Goto(stage) /\ pc # "pretrack" /\ stage # "done" => Kept
    BY DEF Goto, facts
  <1>install. \A l \in 0 .. 3 : \A r, t : 
                (/\ pc # "pretrack"
                 /\ Install(l, r, t)
                 /\ l = 0 => r = Plain("primary")) => Kept
    BY DEF Install, Decided, facts
  <1>values. 0 \in 0 .. 3 /\ \A l \in 1 .. 3 : l \in 0 .. 3 /\ l # 0
    OBVIOUS
  <1>levels. 1 \in 1 .. 3 /\ 2 \in 1 .. 3 /\ 3 \in 1 .. 3
    OBVIOUS
  <1>4. (/\ pc # "pretrack"
         /\ Install(0, Plain("primary"), TRUE) \/ Install(0, Plain("primary"), FALSE))
          => Kept
    BY <1>install, <1>values, Zenon
  <1>5. \A l \in 1 .. 3 : \A r : Install(l, r, TRUE) /\ pc # "pretrack" => Kept
    BY <1>install, <1>values, Zenon
  <1>6. \A here, b, next : \A l \in {1, 3} :
          RetimeStage(here, b, l, next) /\ here # "pretrack" /\ next # "done" => Kept
    BY <1>3, <1>5, <1>levels, Zenon DEF RetimeStage
  <1> HIDE DEF Kept
  <1>7. CASE JudgeRoute
    BY <1>2, <1>3, <1>4, <1>7 DEF JudgeRoute
  <1>8. CASE Retime \/ RerouteRetime
    BY <1>2, <1>6, <1>8 DEF Retime, RerouteRetime
  <1>9. CASE Reshape
    BY <1>2, <1>3, <1>5, <1>9, <1>levels, Zenon DEF Reshape
  <1>10. CASE Reroute
    BY <1>2, <1>3, <1>4, <1>5, <1>10, <1>levels, Zenon DEF Reroute, KeepPrimary
  <1>11. CASE RerouteReshape
    BY <1>2, <1>4, <1>5, <1>11, <1>levels, Zenon DEF RerouteReshape, KeepPrimary
  <1>12. CASE UNCHANGED vars
    BY <1>0, <1>12 DEF vars, facts, PretrackOK
  <1> QED
    BY <1>1, <1>7, <1>8, <1>9, <1>10, <1>11, <1>12 DEF Next

\* What a stage relies on holds when it is reached.
LEMMA StagesAreKept ==
  ASSUME IInv, Next
  PROVE  StagesOK'
  <1>1. facts' = facts
    BY DEF Next, Pretrack, JudgeRoute, Retime, Reshape, Reroute, RerouteRetime,
           RerouteReshape, RetimeStage, KeepPrimary, Goto, Install
  <1>2. /\ Adapts => Adapts'
        /\ Open => Open'
        /\ \A n \in 1 .. 5 : Passed(n) => Passed(n)'
    BY <1>1 DEF facts, Adapts, Open, Passed, Exhausted, Sure, Offers, Permitted
  <1>3. decision = Undecided
    BY DEF IInv, StagesOK, Next, Pretrack, JudgeRoute, Retime, Reshape, Reroute,
           RerouteRetime, RerouteReshape, RetimeStage
  <1>4. pc' # "done" => decision' = Undecided
    BY <1>3, StageSteps
  <1> QED
    BY <1>2, <1>4, StageSteps DEF StagesOK

-----------------------------------------------------------------------------
\* Type correctness, what each stage relies on and what pretracking leaves, of
\* every reachable state.
THEOREM CascadeInvariant == CascadeSpec => []IInv
  <1>1. CascadeInit => IInv
    <2> SUFFICES ASSUME CascadeInit
                 PROVE  IInv
      OBVIOUS
    <2>1. Undecided \in Decision
      BY RoutesAreRoutes DEF Undecided, Decision, Base
    <2>2. 0 \in 0 .. Span
      BY DilationAssumption
    <2>3. TypeOK
      BY <2>1, <2>2 DEF CascadeInit, Init, TypeOK, Stage
    <2>4. StagesOK /\ PretrackOK
      BY DEF CascadeInit, Init, StagesOK, PretrackOK
    <2> QED
      BY <2>3, <2>4 DEF IInv
  <1>2. IInv /\ [Next]_vars => IInv'
    <2> SUFFICES ASSUME IInv, [Next]_vars
                 PROVE  IInv'
      OBVIOUS
    <2>1. TypeOK' /\ PretrackOK'
      BY TypesAreKept, PretrackIsKept
    <2>2. CASE Next
      BY <2>1, <2>2, StagesAreKept DEF IInv
    <2>3. CASE UNCHANGED vars
      <3>1. StagesOK'
        BY <2>3 DEF vars, facts, IInv, StagesOK, Adapts, Open, Passed, Exhausted,
                    Sure, Offers, Permitted
      <3> QED
        BY <2>1, <3>1 DEF IInv
    <2> QED
      BY <2>2, <2>3
  <1> QED
    BY <1>1, <1>2, PTL DEF CascadeSpec

\* The stages of plan_route and addTrajectorySegment together take the one step
\* of RouteChoice: the first adaptation, in its order of preference, that clears.
THEOREM CascadeImplementsChoice == CascadeSpec => ImplementsChoice
  <1>1. CascadeInit => Init
    BY DEF CascadeInit
  <1>2. IInv /\ [Next]_vars => [Choose]_<<facts, decision>>
    BY StageSteps DEF vars
  <1> QED
    BY <1>1, <1>2, CascadeInvariant, PTL DEF CascadeSpec, Spec, ImplementsChoice

\* What RouteChoice promises of a route it has adapted.
LEMMA ChoicePromises ==
  ASSUME NEW k \in Rank, NEW r \in Offers(k) \cap clear, \A j \in Rank : j < k => Exhausted(j)
  PROVE  /\ r \in clear
         /\ LevelOf(k) = 3 =>
              /\ Plain("primary") \notin clear
              /\ 1 \in config.allow => \A d \in Grid : Slowed("primary", d) \notin clear
              /\ 2 \in config.allow => "primary" \notin solved \/ Bent("primary") \notin clear
  <1> SUFFICES ASSUME LevelOf(k) = 3
               PROVE  /\ Plain("primary") \notin clear
                      /\ 1 \in config.allow => \A d \in Grid : Slowed("primary", d) \notin clear
                      /\ 2 \in config.allow => "primary" \notin solved \/ Bent("primary") \notin clear
    OBVIOUS
  <1>1. Exhausted(0) /\ Exhausted(1) /\ Exhausted(2)
    BY DEF LevelOf, Rank
  <1>2. Plain("primary") \notin clear
    BY <1>1 DEF Exhausted, Sure, Offers, Permitted, BaseOf
  <1>3. ASSUME 1 \in config.allow, NEW d \in Grid
        PROVE  Slowed("primary", d) \notin clear
    <2>1. Slowed("primary", d) \in Offers(1) /\ Slowed("primary", d).slow = d
      BY <1>3, DilationAssumption DEF Offers, Permitted, BaseOf, Slowed
    <2> QED
      BY <1>1, <1>3, <2>1 DEF Exhausted, Sure
  <1>4. 2 \in config.allow => "primary" \notin solved \/ Bent("primary") \notin clear
    BY <1>1 DEF Exhausted, Sure, Offers, Permitted, BaseOf
  <1> QED
    BY <1>2, <1>3, <1>4

\* The promises hold of RouteChoice...
THEOREM ChoiceKeepsPromises == Spec => [](AdaptedClears /\ RerouteIsNecessary)
  <1> DEFINE Promises == AdaptedClears /\ RerouteIsNecessary
  <1>1. Init => Promises
    BY DEF Init, Undecided, AdaptedClears, RerouteIsNecessary
  <1>2. Promises /\ [Choose]_<<facts, decision>> => Promises'
    <2> SUFFICES ASSUME Promises, [Choose]_<<facts, decision>>
                 PROVE  Promises'
      OBVIOUS
    <2>1. UNCHANGED <<config, clear, solved>>
      BY DEF Choose, facts
    <2>2. CASE LeaveAlone
      BY <2>2 DEF LeaveAlone, Decided, AdaptedClears, RerouteIsNecessary
    <2>3. CASE FallBack
      BY <2>3 DEF FallBack, Decided, AdaptedClears, RerouteIsNecessary
    <2>4. CASE Adapt
      <3>0. PICK k \in Rank : \E r \in Offers(k) \cap clear :
              /\ \A j \in Rank : j < k => Exhausted(j)
              /\ decision' = Decided(LevelOf(k), r, k # 0)
        BY <2>4 DEF Adapt
      <3>1. PICK r \in Offers(k) \cap clear :
              /\ \A j \in Rank : j < k => Exhausted(j)
              /\ decision' = Decided(LevelOf(k), r, k # 0)
        BY <3>0
      <3>2. decision'.level = LevelOf(k) /\ decision'.route = r
        BY <3>1 DEF Decided
      <3> QED
        BY <2>1, <3>1, <3>2, ChoicePromises DEF AdaptedClears, RerouteIsNecessary
    <2>5. CASE UNCHANGED <<facts, decision>>
      BY <2>1, <2>5 DEF AdaptedClears, RerouteIsNecessary
    <2> QED
      BY <2>2, <2>3, <2>4, <2>5 DEF Choose
  <1> QED
    BY <1>1, <1>2, PTL DEF Spec

\* ... and by the refinement of the stages: no stale force, and no via route
\* while something short of it clears.
THEOREM CascadeKeepsPromises == CascadeSpec => []AdaptedClears /\ []RerouteIsNecessary
  BY CascadeImplementsChoice, ChoiceKeepsPromises, PTL DEF ImplementsChoice

\* An exhausted cascade keeps the primary route with the slowing of pretracking.
THEOREM CascadeFallsBack == CascadeSpec => []FallBackIsPretracked
  <1>1. IInv => FallBackIsPretracked
    BY DEF IInv, PretrackOK, FallBackIsPretracked
  <1> QED
    BY <1>1, CascadeInvariant, PTL

\* No route is the result of a slowing the search did not find.
THEOREM CascadeTypes == CascadeSpec => []TypeOK
  <1>1. IInv => TypeOK
    BY DEF IInv
  <1> QED
    BY <1>1, CascadeInvariant, PTL

\* A via route is only ever adopted when nothing short of it clears.
THEOREM ReroutesAreNecessary == CascadeSpec => []RerouteIsNecessary
  BY CascadeKeepsPromises, PTL
=============================================================================
