------------------------ MODULE ReferenceRollout_proof ------------------------
(***************************************************************************)
(* What TLAPS proves of a rollout, for every number of cycles, horizon and *)
(* route length, and for every set of failing samples.                     *)
(***************************************************************************)
EXTENDS ReferenceRollout, FiniteSetTheorems, TLAPS

\* The cycles whose policy has answered.
Asked == IF phase \in {"policy", "done"} THEN k ELSE k + 1

\* Nothing in view of cycle j fails.
ClearView(j) == \A i \in fails : i < j \/ j + Horizon <= i

CountersOK ==
  /\ phase # "done" => k < Cycles
  /\ replans <= Asked
  /\ Len(online) = IF config.policy = "B3" THEN Asked ELSE 0

\* What the history of the triggers says of the samples that came into view.
WarningOK ==
  (config.policy = "B3" /\ config.predict) =>
    /\ first = NoCycle => \A j \in 0 .. Asked - 1 : ClearView(j)
    /\ first # NoCycle => \A j \in 0 .. first - 1 : ClearView(j)

\* Whoever intervenes has triggered, and whoever triggers has a failing sample.
TriggerOK ==
  /\ first = NoCycle => \A i \in DOMAIN online : online[i] = 0
  /\ first = NoCycle => ~braked
  /\ first # NoCycle => fails # {}

BrakeOK ==
  /\ braked => ref = "actual" /\ config.policy = "B3"
  /\ \A i \in DOMAIN online : online[i] = 4 =>
       braked /\ \A j \in i .. Len(online) : online[j] = 4

IInv == TypeOK /\ Planned /\ CountersOK /\ StepsFromTruth /\ WarningOK /\ TriggerOK /\ BrakeOK

-----------------------------------------------------------------------------
\* What a cycle appends to its history.
LEMMA Appended ==
  ASSUME NEW S, NEW s \in Seq(S), NEW x \in S
  PROVE  /\ Append(s, x) \in Seq(S)
         /\ Len(s) \in Nat /\ DOMAIN s = 1 .. Len(s)
         /\ Len(Append(s, x)) = Len(s) + 1
         /\ DOMAIN Append(s, x) = 1 .. Len(s) + 1
         /\ \A i \in 1 .. Len(s) : Append(s, x)[i] = s[i] /\ s[i] \in S
         /\ Append(s, x)[Len(s) + 1] = x
  OBVIOUS

\* An answer of online_step above level 0 comes of a horizon with a failing
\* sample in view; without one the answer is level 0 and does not trigger.
LEMMA Answers ==
  ASSUME TypeOK, NEW a \in Online
  PROVE  /\ a.level \in {0, 2, 4} /\ a.triggered \in BOOLEAN
         /\ a.ref \in {"nominal", "reshaped", "actual"}
         /\ a.level = 4 => a.ref = "actual"
         /\ ~a.triggered => a.level = 0
         /\ a.triggered => ~ClearView(k)
         /\ config.predict /\ ~a.triggered => ClearView(k)
  <1>1. Triggers <=> ~ClearView(k)
    BY RolloutAssumption DEF TypeOK, Triggers, ClearView, Sample
  <1>2. \/ a = Answer(0, "nominal", FALSE) /\ (~config.predict \/ ~Triggers)
        \/ a = Answer(0, "nominal", TRUE) /\ Triggers
        \/ a = Answer(2, "reshaped", TRUE) /\ Triggers
        \/ a = Answer(4, "actual", TRUE) /\ Triggers
    BY DEF Online
  <1>3. CASE a = Answer(0, "nominal", FALSE) /\ (~config.predict \/ ~Triggers)
    BY <1>1, <1>3 DEF Answer
  <1>4. CASE a = Answer(0, "nominal", TRUE) /\ Triggers
    BY <1>1, <1>4 DEF Answer
  <1>5. CASE a = Answer(2, "reshaped", TRUE) /\ Triggers
    BY <1>1, <1>5 DEF Answer
  <1>6. CASE a = Answer(4, "actual", TRUE) /\ Triggers
    BY <1>1, <1>6 DEF Answer
  <1> QED
    BY <1>2, <1>3, <1>4, <1>5, <1>6

\* The first state.
LEMMA InitHolds == Init => IInv
  <1> SUFFICES ASSUME Init
               PROVE  IInv
    OBVIOUS
  <1>1. /\ 0 \in 0 .. Cycles /\ << >> \in Seq({0, 2, 4}) /\ Len(<< >>) = 0
        /\ DOMAIN << >> = {} /\ 0 < Cycles
    BY RolloutAssumption
  <1>2. TypeOK
    <2>1. /\ config \in Config /\ fails \subseteq Sample /\ over \subseteq fails
          /\ push \subseteq Cycle
          /\ plan \in [level : 0 .. 3, cleared : BOOLEAN, known : BOOLEAN]
      <3>1. {0, 1, 2, 3} = 0 .. 3
        OBVIOUS
      <3> QED
        BY <3>1 DEF Init
    <2>2. /\ k \in 0 .. Cycles /\ replans \in 0 .. Cycles /\ online \in Seq({0, 2, 4})
          /\ prev_online_level \in {0, 2, 4} /\ first \in Cycle \cup {NoCycle}
          /\ phase \in {"policy", "control", "restore", "step", "done"}
      BY <1>1 DEF Init
    <2>3. /\ braked \in BOOLEAN /\ route_event_reported \in BOOLEAN
          /\ ref \in {"nominal", "projected", "reshaped", "actual"}
          /\ sim \in [state : {"actual", "query"}, force : BOOLEAN]
      BY DEF Init
    <2> QED
      BY <2>1, <2>2, <2>3 DEF TypeOK
  <1>3. CountersOK /\ StepsFromTruth
    BY <1>1 DEF Init, CountersOK, Asked, StepsFromTruth
  <1>4. WarningOK /\ TriggerOK /\ BrakeOK
    BY <1>1 DEF Init, WarningOK, Asked, TriggerOK, BrakeOK
  <1> QED
    BY <1>2, <1>3, <1>4 DEF Init, IInv

\* A braked cycle.
LEMMA HoldKeeps ==
  ASSUME IInv, phase = "policy", config.policy = "B3", HoldBraked, phase' = "control",
         UNCHANGED <<facts, k>>
  PROVE  IInv'
  <1> USE DEF facts, policy
  <1>0. TypeOK /\ Planned /\ CountersOK /\ WarningOK /\ TriggerOK /\ BrakeOK
    BY DEF IInv
  <1>1. /\ online \in Seq({0, 2, 4}) /\ 4 \in {0, 2, 4} /\ k \in Nat /\ replans \in Nat
        /\ first \in Nat \cup {NoCycle}
    BY <1>0, RolloutAssumption DEF TypeOK, Cycle
  <1>2. online' = Append(online, 4) /\ braked /\ braked' = braked /\ ref' = "actual"
    BY DEF HoldBraked
  <1>3. /\ online' \in Seq({0, 2, 4})
        /\ Len(online') = Len(online) + 1 /\ DOMAIN online' = 1 .. Len(online) + 1
        /\ DOMAIN online = 1 .. Len(online) /\ Len(online) \in Nat
        /\ \A i \in 1 .. Len(online) : online'[i] = online[i]
        /\ online'[Len(online) + 1] = 4
    BY <1>1, <1>2, Appended
  <1>4. TypeOK'
    BY <1>0, <1>3 DEF HoldBraked, TypeOK
  <1>5. Planned' /\ StepsFromTruth'
    BY <1>0 DEF Planned, Certified, StepsFromTruth
  <1>6. Asked' = Asked + 1 /\ Asked = k
    BY DEF Asked
  <1>7. CountersOK'
    <2>1. replans' = replans /\ k' = k /\ config' = config
      BY DEF HoldBraked
    <2> QED
      BY <1>0, <1>1, <1>3, <1>6, <2>1 DEF CountersOK
  <1>8. first # NoCycle /\ first' = first /\ fails' = fails
    BY <1>0, <1>2 DEF TriggerOK, HoldBraked
  <1>9. WarningOK'
    BY <1>0, <1>8 DEF WarningOK, ClearView
  <1>10. TriggerOK'
    BY <1>0, <1>8 DEF TriggerOK
  <1>11. BrakeOK'
    BY <1>0, <1>2, <1>3 DEF BrakeOK
  <1> QED
    BY <1>4, <1>5, <1>7, <1>9, <1>10, <1>11 DEF IInv

\* A cycle that asks online_step.
LEMMA FollowKeeps ==
  ASSUME IInv, phase = "policy", config.policy = "B3", NEW a \in Online, Follow(a),
         phase' = "control", UNCHANGED <<facts, k>>
  PROVE  IInv'
  <1> USE DEF facts, policy
  <1>0. TypeOK /\ Planned /\ CountersOK /\ WarningOK /\ TriggerOK /\ BrakeOK
    BY DEF IInv
  <1>answer. /\ a.level \in {0, 2, 4} /\ a.triggered \in BOOLEAN
             /\ a.ref \in {"nominal", "reshaped", "actual"}
             /\ a.level = 4 => a.ref = "actual"
             /\ ~a.triggered => a.level = 0
             /\ a.triggered => ~ClearView(k)
             /\ config.predict /\ ~a.triggered => ClearView(k)
    BY <1>0, Answers
  <1>1. /\ online \in Seq({0, 2, 4}) /\ k \in Nat /\ k < Cycles /\ replans \in Nat
        /\ first \in Cycle \cup {NoCycle} /\ k \in Cycle
    BY <1>0, RolloutAssumption DEF TypeOK, Cycle, CountersOK
  <1>2. /\ online' = Append(online, a.level) /\ ~braked /\ ref' = a.ref
        /\ braked' <=> a.level = 4
        /\ first' = IF a.triggered /\ first = NoCycle THEN k ELSE first
        /\ fails' = fails /\ config' = config /\ k' = k
    BY DEF Follow
  <1>3. /\ online' \in Seq({0, 2, 4})
        /\ Len(online') = Len(online) + 1 /\ DOMAIN online' = 1 .. Len(online) + 1
        /\ DOMAIN online = 1 .. Len(online) /\ Len(online) \in Nat
        /\ \A i \in 1 .. Len(online) : online'[i] = online[i]
        /\ online'[Len(online) + 1] = a.level
    BY <1>answer, <1>1, <1>2, Appended
  <1>4. replans' \in {replans, replans + 1}
    BY DEF Follow
  <1>5. Asked' = k + 1 /\ Asked = k
    BY DEF Asked
  <1>6. replans' <= Asked' /\ replans' \in 0 .. Cycles
    BY <1>0, <1>1, <1>4, <1>5, RolloutAssumption DEF CountersOK
  <1>7. CountersOK'
    BY <1>0, <1>1, <1>2, <1>3, <1>5, <1>6 DEF CountersOK
  <1>8. TypeOK'
    <2>1. first' \in Cycle \cup {NoCycle}
      BY <1>1, <1>2
    <2>2. /\ braked' \in BOOLEAN /\ route_event_reported' \in BOOLEAN
          /\ prev_online_level' \in {0, 2, 4} /\ ref' \in {"nominal", "projected", "reshaped", "actual"}
          /\ sim' \in [state : {"actual", "query"}, force : BOOLEAN]
      BY <1>0, <1>answer DEF Follow, TypeOK, Queried
    <2> QED
      BY <1>0, <1>3, <1>6, <2>1, <2>2 DEF TypeOK
  <1>9. Planned' /\ StepsFromTruth'
    BY <1>0 DEF Planned, Certified, StepsFromTruth
  <1>10. WarningOK'
    <2> SUFFICES ASSUME config.predict
                 PROVE  /\ first' = NoCycle => \A j \in 0 .. Asked' - 1 : ClearView(j)'
                        /\ first' # NoCycle => \A j \in 0 .. first' - 1 : ClearView(j)'
      BY <1>2 DEF WarningOK
    <2>1. \A j : ClearView(j)' <=> ClearView(j)
      BY <1>2 DEF ClearView
    <2>2. CASE first # NoCycle
      BY <1>0, <1>2, <2>1, <2>2 DEF WarningOK
    <2>3. CASE first = NoCycle
      <3>1. \A j \in 0 .. k - 1 : ClearView(j)
        BY <1>0, <1>5, <2>3 DEF WarningOK
      <3>2. CASE a.triggered
        BY <1>1, <1>2, <2>1, <2>3, <3>1, <3>2, RolloutAssumption
      <3>3. CASE ~a.triggered
        <4>1. ClearView(k) /\ first' = NoCycle
          BY <1>answer, <1>2, <2>3, <3>3
        <4>2. \A j \in 0 .. k : ClearView(j)
          <5> TAKE j \in 0 .. k
          <5>1. j = k \/ j \in 0 .. k - 1
            BY <1>1
          <5> QED
            BY <3>1, <4>1, <5>1
        <4> QED
          BY <1>1, <1>5, <2>1, <4>1, <4>2
      <3> QED
        BY <3>2, <3>3
    <2> QED
      BY <2>2, <2>3
  <1>11. TriggerOK'
    <2>1. a.triggered => fails # {}
      BY <1>answer DEF ClearView
    <2>2. NoCycle # k
      BY <1>1, RolloutAssumption
    <2>3. first' = NoCycle => first = NoCycle /\ a.level = 0
      BY <1>answer, <1>2, <2>2
    <2>4. first' # NoCycle => fails' # {}
      BY <1>0, <1>2, <2>1 DEF TriggerOK
    <2>5. first' = NoCycle => \A i \in DOMAIN online' : online'[i] = 0
      BY <1>0, <1>3, <2>3 DEF TriggerOK
    <2>6. first' = NoCycle => ~braked'
      BY <1>2, <2>3
    <2> QED
      BY <2>4, <2>5, <2>6 DEF TriggerOK
  <1>12. BrakeOK'
    <2>1. \A i \in DOMAIN online : online[i] # 4
      BY <1>0, <1>2 DEF BrakeOK
    <2>2. \A i \in DOMAIN online' : online'[i] = 4 => i = Len(online') /\ a.level = 4
      BY <1>3, <2>1
    <2> QED
      BY <1>answer, <1>2, <1>3, <2>2 DEF BrakeOK
  <1> QED
    BY <1>7, <1>8, <1>9, <1>10, <1>11, <1>12 DEF IInv

\* A step that asks no policy of B3 and ends no cycle keeps everything but sim.
LEMMA OtherStepsKeep ==
  ASSUME IInv, UNCHANGED <<facts, policy, replans, first, online>>,
         k' \in 0 .. Cycles, phase' \in {"policy", "control", "restore", "step", "done"},
         sim' \in [state : {"actual", "query"}, force : BOOLEAN],
         ref' \in {"nominal", "projected", "reshaped", "actual"},
         config.policy = "B3" => ref' = ref /\ Asked' = Asked,
         Asked' >= Asked, phase' # "done" => k' < Cycles, StepsFromTruth'
  PROVE  IInv'
  <1> USE DEF facts, policy
  <1>0. TypeOK /\ Planned /\ CountersOK /\ WarningOK /\ TriggerOK /\ BrakeOK
    BY DEF IInv
  <1>1. TypeOK'
    BY <1>0 DEF TypeOK
  <1>2. Planned'
    BY <1>0 DEF Planned, Certified
  <1>3. CountersOK'
    <2>1. replans \in Nat /\ k \in Nat /\ k' \in Nat
      BY <1>0, RolloutAssumption DEF TypeOK
    <2>2. /\ Asked = k \/ Asked = k + 1
          /\ Asked' = k' \/ Asked' = k' + 1
      BY DEF Asked
    <2> QED
      BY <1>0, <2>1, <2>2 DEF CountersOK
  <1>4. WarningOK'
    BY <1>0 DEF WarningOK, ClearView
  <1>5. TriggerOK'
    BY <1>0 DEF TriggerOK
  <1>6. BrakeOK'
    <2>1. config.policy # "B3" => Len(online) = 0 /\ DOMAIN online = {}
      BY <1>0 DEF CountersOK, TypeOK
    <2>2. CASE config.policy = "B3"
      BY <1>0, <2>2 DEF BrakeOK
    <2>3. CASE config.policy # "B3"
      BY <1>0, <2>1, <2>3 DEF BrakeOK, TriggerOK
    <2> QED
      BY <2>2, <2>3
  <1> QED
    BY <1>1, <1>2, <1>3, <1>4, <1>5, <1>6 DEF IInv

-----------------------------------------------------------------------------
\* The invariant the theorems below rest on: what the rollout knows of the
\* samples that have come into view, cycle by cycle.
THEOREM RolloutInvariant == Spec => []IInv
  <1>1. IInv /\ [Next]_vars => IInv'
    <2> SUFFICES ASSUME IInv, [Next]_vars
                 PROVE  IInv'
      OBVIOUS
    <2> USE DEF facts, policy
    <2>0. /\ TypeOK /\ CountersOK /\ StepsFromTruth /\ k \in Nat /\ Cycles \in Nat
          /\ Queried \in [state : {"actual", "query"}, force : BOOLEAN]
      BY RolloutAssumption DEF IInv, TypeOK, Queried
    <2>1. CASE PolicyB3
      <3>1. CASE HoldBraked
        BY <2>1, <3>1, HoldKeeps DEF PolicyB3, Decided
      <3>2. CASE \E a \in Online : Follow(a)
        BY <2>1, <3>2, FollowKeeps DEF PolicyB3, Decided
      <3> QED
        BY <2>1, <3>1, <3>2 DEF PolicyB3
    <2>2. CASE PolicyB1 \/ PolicyB2
      <3>1. /\ UNCHANGED <<facts, policy, replans, first, online, k>>
            /\ config.policy # "B3" /\ phase = "policy" /\ phase' = "control"
        BY <2>2 DEF PolicyB1, PolicyB2, Decided
      <3>2. ref' \in {"nominal", "projected"} /\ sim' \in {sim, Queried}
        BY <2>2 DEF PolicyB1, PolicyB2
      <3>3. /\ Asked' >= Asked /\ StepsFromTruth' /\ k' \in 0 .. Cycles /\ k' < Cycles
            /\ sim' \in [state : {"actual", "query"}, force : BOOLEAN]
        BY <2>0, <3>1, <3>2 DEF Asked, StepsFromTruth, CountersOK, TypeOK
      <3> QED
        BY <3>1, <3>2, <3>3, OtherStepsKeep
    <2>3. CASE Control \/ Restore
      <3>1. /\ UNCHANGED <<facts, policy, replans, first, online, k, ref>>
            /\ \/ phase = "control" /\ phase' = "restore" /\ sim' = Queried
               \/ /\ phase = "restore" /\ phase' = "step"
                  /\ sim' = [state |-> "actual", force |-> k \in push]
        BY <2>3 DEF Control, Restore
      <3>4. Asked' = Asked /\ Asked' >= Asked /\ k' \in 0 .. Cycles /\ k' < Cycles
        BY <2>0, <3>1 DEF Asked, CountersOK
      <3>5. StepsFromTruth'
        BY <3>1 DEF StepsFromTruth
      <3>6. [state |-> "actual", force |-> k \in push] \in [state : {"actual", "query"}, force : BOOLEAN]
        OBVIOUS
      <3>2. /\ sim' \in [state : {"actual", "query"}, force : BOOLEAN]
            /\ phase' \in {"policy", "control", "restore", "step", "done"}
        BY <2>0, <3>1, <3>6
      <3>3. ref' \in {"nominal", "projected", "reshaped", "actual"}
        BY <2>0, <3>1 DEF TypeOK
      <3> QED
        BY <3>1, <3>2, <3>3, <3>4, <3>5, OtherStepsKeep
    <2>4. CASE Step
      <3>1. /\ UNCHANGED <<facts, policy, replans, first, online, ref>>
            /\ phase = "step" /\ k' = k + 1
            /\ \/ k' = Cycles /\ phase' = "done"
               \/ k' # Cycles /\ phase' = "policy"
        BY <2>4 DEF Step
      <3>2. k < Cycles
        BY <2>0, <3>1 DEF CountersOK
      <3>3. /\ Asked' = Asked /\ Asked' >= Asked /\ StepsFromTruth'
            /\ k' \in 0 .. Cycles
            /\ phase' # "done" => k' < Cycles
            /\ phase' \in {"policy", "control", "restore", "step", "done"}
        BY <2>0, <3>1, <3>2 DEF Asked, StepsFromTruth
      <3>4. sim' \in [state : {"actual", "query"}, force : BOOLEAN]
        BY <2>0, <2>4 DEF Step, TypeOK
      <3>5. ref' \in {"nominal", "projected", "reshaped", "actual"}
        BY <2>0, <3>1 DEF TypeOK
      <3> QED
        BY <3>1, <3>3, <3>4, <3>5, OtherStepsKeep
    <2>5. CASE UNCHANGED vars
      BY <2>5 DEF vars, IInv, TypeOK, Planned, Certified, CountersOK, Asked, StepsFromTruth,
                  WarningOK, ClearView, TriggerOK, BrakeOK
    <2> QED
      BY <2>1, <2>2, <2>3, <2>4, <2>5 DEF Next
  <1> QED
    BY <1>1, InitHolds, PTL DEF Spec

\* The plant is integrated from its own state under the force it meets.
THEOREM PlantStepsFromTruth == Spec => []StepsFromTruth
  <1>1. IInv => StepsFromTruth
    BY DEF IInv
  <1> QED
    BY <1>1, RolloutInvariant, PTL

\* A route certified with the forces it meets is never interrupted.
THEOREM CertifiedRoutesRun == Spec => []CertifiedRouteRuns
  <1>1. IInv => CertifiedRouteRuns
    <2> SUFFICES ASSUME IInv, plan.cleared, plan.known,
                        End \notin fails => \A i \in fails : i < End
                 PROVE  first = NoCycle /\ \A i \in DOMAIN online : online[i] = 0
      BY DEF CertifiedRouteRuns
    <2>1. fails \cap (0 .. End) = {} /\ fails \subseteq Sample
      BY DEF IInv, TypeOK, Planned, Certified
    <2>2. fails = {}
      BY <2>1, RolloutAssumption DEF Sample
    <2> QED
      BY <2>2 DEF IInv, TriggerOK
  <1> QED
    BY <1>1, RolloutInvariant, PTL

\* No sample over the limit is commanded unwarned: B3 has triggered a horizon
\* earlier, or in its first cycle.
THEOREM WarningsComeInTime == Spec => []WarnsAHorizonAhead
  <1>1. IInv => WarnsAHorizonAhead
    <2> SUFFICES ASSUME IInv, config.policy = "B3", config.predict,
                        NEW i \in over, i < Len(online)
                 PROVE  /\ first # NoCycle
                        /\ first <= (IF i < Horizon THEN 0 ELSE i - Horizon + 1)
      BY DEF WarnsAHorizonAhead
    <2> DEFINE seen == IF i < Horizon THEN 0 ELSE i - Horizon + 1
    <2>1. /\ i \in fails /\ i \in Nat /\ Horizon \in Nat /\ Horizon > 0 /\ k \in Nat
          /\ first \in Nat \cup {NoCycle} /\ i < Asked /\ Asked \in Nat
      <3>1. k \in Nat /\ i \in fails /\ i \in Nat /\ first \in Nat \cup {NoCycle}
        BY RolloutAssumption DEF IInv, TypeOK, Sample, Cycle
      <3>2. Asked = k \/ Asked = k + 1
        BY DEF Asked
      <3> QED
        BY <3>1, <3>2, RolloutAssumption DEF IInv, CountersOK
    <2>2. seen \in Nat /\ seen <= i /\ i < seen + Horizon
      BY <2>1
    <2>3. ~ClearView(seen)
      BY <2>1, <2>2 DEF ClearView
    <2>4. first # NoCycle
      <3>1. seen \in 0 .. Asked - 1
        BY <2>1, <2>2
      <3> QED
        BY <2>3, <3>1 DEF IInv, WarningOK
    <2>5. seen \notin 0 .. first - 1
      BY <2>3, <2>4 DEF IInv, WarningOK
    <2> QED
      BY <2>1, <2>2, <2>4, <2>5
  <1> QED
    BY <1>1, RolloutInvariant, PTL

\* The brake is final, and holds the robot where it is.
THEOREM BrakeStaysSticky == Spec => []BrakeIsSticky
  <1>1. IInv => BrakeIsSticky
    BY DEF IInv, BrakeOK, BrakeIsSticky
  <1> QED
    BY <1>1, RolloutInvariant, PTL

\* The variables keep their types, and the rollout ends with its last cycle.
THEOREM RolloutTypes == Spec => []TypeOK
  <1>1. IInv => TypeOK
    BY DEF IInv
  <1> QED
    BY <1>1, RolloutInvariant, PTL

-----------------------------------------------------------------------------
\* The events among the cycles of a history.
Events(s) ==
  {i \in DOMAIN s :
    \/ i = 1 /\ plan.level # 0
    \/ s[i] # 0 /\ (i > 1 => s[i - 1] # s[i])}

\* A further cycle adds itself to the events, or nothing.
LEMMA EventsAppended ==
  ASSUME NEW s \in Seq({0, 2, 4}), NEW x \in {0, 2, 4}
  PROVE  /\ Cardinality(Events(s)) \in Nat
         /\ (Len(s) = 0 /\ plan.level # 0) \/ (x # 0 /\ (Len(s) > 0 => s[Len(s)] # x))
              => Cardinality(Events(Append(s, x))) = Cardinality(Events(s)) + 1
         /\ ~((Len(s) = 0 /\ plan.level # 0) \/ (x # 0 /\ (Len(s) > 0 => s[Len(s)] # x)))
              => Cardinality(Events(Append(s, x))) = Cardinality(Events(s))
  <1> DEFINE new == (Len(s) = 0 /\ plan.level # 0) \/ (x # 0 /\ (Len(s) > 0 => s[Len(s)] # x))
             n == Len(s) + 1
  <1>1. /\ Len(s) \in Nat /\ DOMAIN s = 1 .. Len(s)
        /\ DOMAIN Append(s, x) = 1 .. n
        /\ \A i \in 1 .. Len(s) : Append(s, x)[i] = s[i]
        /\ Append(s, x)[n] = x
    BY Appended
  <1>2. IsFiniteSet(Events(s)) /\ Cardinality(Events(s)) \in Nat
    <2>1. IsFiniteSet(1 .. Len(s))
      BY <1>1, FS_Interval
    <2>2. Events(s) \subseteq 1 .. Len(s)
      BY <1>1 DEF Events
    <2> QED
      BY <2>1, <2>2, FS_Subset, FS_CardinalityType
  <1>3. \A i \in 1 .. Len(s) : i \in Events(Append(s, x)) <=> i \in Events(s)
    BY <1>1 DEF Events
  <1>4. n \in Events(Append(s, x)) <=> new
    <2>1. n \in DOMAIN Append(s, x) /\ (n = 1 <=> Len(s) = 0) /\ (n > 1 <=> Len(s) > 0)
      BY <1>1
    <2>2. Len(s) > 0 => Append(s, x)[n - 1] = s[Len(s)]
      <3>1. n - 1 = Len(s) /\ (Len(s) > 0 => Len(s) \in 1 .. Len(s))
        BY <1>1
      <3> QED
        BY <1>1, <3>1
    <2>3. Append(s, x)[n] = x
      BY <1>1
    <2> HIDE DEF n
    <2> QED
      BY <2>1, <2>2, <2>3 DEF Events
  <1>5. n \notin Events(s) /\ Events(s) \subseteq 1 .. Len(s)
    BY <1>1 DEF Events
  <1>6. Events(Append(s, x)) \subseteq 1 .. n
    BY <1>1 DEF Events
  <1>7. ASSUME new
        PROVE  Cardinality(Events(Append(s, x))) = Cardinality(Events(s)) + 1
    <2>1. Events(Append(s, x)) = Events(s) \cup {n}
      BY <1>1, <1>3, <1>4, <1>5, <1>6, <1>7
    <2> QED
      BY <1>2, <1>5, <2>1, FS_AddElement
  <1>8. ASSUME ~new
        PROVE  Cardinality(Events(Append(s, x))) = Cardinality(Events(s))
    <2>1. n \notin Events(Append(s, x))
      BY <1>4, <1>8
    <2>2. 1 .. n = 1 .. Len(s) \cup {n}
      BY <1>1
    <2> HIDE DEF n
    <2>3. Events(Append(s, x)) = Events(s)
      BY <1>3, <1>5, <1>6, <2>1, <2>2
    <2> QED
      BY <2>3
  <1> QED
    BY <1>2, <1>7, <1>8

\* What policy_b3 remembers of its history is enough to tell its events.
EventsOK ==
  /\ replans = Cardinality(Events(online))
  /\ ~braked => prev_online_level = IF Len(online) = 0 THEN 0 ELSE online[Len(online)]
  /\ ~braked /\ Len(online) > 0 => online[Len(online)] # 4
  /\ braked => Len(online) > 0 /\ online[Len(online)] = 4
  /\ route_event_reported <=> plan.level # 0 /\ Len(online) > 0

\* A cycle of policy_b3 counts at most the one event it is.
LEMMA PolicyCounts ==
  ASSUME TypeOK, EventsOK, PolicyB3
  PROVE  EventsOK'
  <1>1. plan' = plan
    BY DEF PolicyB3, Decided, facts
  <1>2. online \in Seq({0, 2, 4}) /\ replans \in Nat /\ plan.level \in Int
    BY RolloutAssumption DEF TypeOK
  <1>3. ASSUME NEW x \in {0, 2, 4}, online' = Append(online, x)
        PROVE  Len(online) \in Nat /\ Len(online') = Len(online) + 1 /\ online'[Len(online')] = x
    BY <1>2, <1>3, Appended
  <1>4. CASE HoldBraked
    <2>1. /\ braked /\ braked' = braked /\ online' = Append(online, 4) /\ replans' = replans
          /\ route_event_reported' = route_event_reported
      BY <1>4 DEF HoldBraked, policy
    <2>2. Cardinality(Events(online')) = Cardinality(Events(online))
      BY <1>2, <2>1, EventsAppended DEF EventsOK
    <2>3. (Cardinality(Events(online)))' = Cardinality(Events(online'))
      BY <1>1 DEF Events
    <2> QED
      BY <1>1, <1>3, <2>1, <2>2, <2>3 DEF EventsOK
  <1>5. ASSUME NEW a \in Online, Follow(a)
        PROVE  EventsOK'
    <2>1. /\ ~braked /\ braked' = (a.level = 4) /\ prev_online_level' = a.level
          /\ route_event_reported' = (route_event_reported \/ plan.level # 0)
          /\ online' = Append(online, a.level) /\ a.level \in {0, 2, 4}
      BY <1>5, Answers DEF Follow
    <2>2. replans' = IF Begins(a.level) \/ (~route_event_reported /\ plan.level # 0)
                       THEN replans + 1 ELSE replans
      BY <1>5 DEF Follow
    <2>3. online \in Seq({0, 2, 4}) /\ Len(online) \in Nat
          /\ (Len(online) > 0 => online[Len(online)] # 4)
      BY <1>2, <2>1, Appended DEF EventsOK, TypeOK
    <2>4. Begins(a.level) \/ (~route_event_reported /\ plan.level # 0)
            <=> \/ Len(online) = 0 /\ plan.level # 0
                \/ a.level # 0 /\ (Len(online) > 0 => online[Len(online)] # a.level)
      BY <2>1, <2>3 DEF Begins, EventsOK
    <2>5. replans' = Cardinality(Events(online'))
      BY <1>2, <2>1, <2>2, <2>4, EventsAppended DEF EventsOK
    <2>6. Len(online') > 0 /\ online'[Len(online')] = a.level
      BY <1>3, <2>1, <2>3
    <2>7. route_event_reported' <=> plan.level # 0 /\ Len(online') > 0
      BY <2>1, <2>6 DEF EventsOK
    <2>8. (Cardinality(Events(online)))' = Cardinality(Events(online'))
      BY <1>1 DEF Events
    <2>9. ~braked' => /\ prev_online_level' = IF Len(online') = 0 THEN 0 ELSE online'[Len(online')]
                      /\ Len(online') > 0 => online'[Len(online')] # 4
      <3>1. Len(online') \in Nat
        BY <1>3, <2>1
      <3>2. a.level = 4 <=> braked'
        BY <2>1
      <3> QED
        BY <2>1, <2>6, <3>1, <3>2
    <2>10. braked' => Len(online') > 0 /\ online'[Len(online')] = 4
      BY <2>1, <2>6
    <2> QED
      BY <1>1, <2>5, <2>7, <2>8, <2>9, <2>10 DEF EventsOK
  <1> QED
    BY <1>4, <1>5 DEF PolicyB3

\* For every number of cycles the replans are the events of the history.
THEOREM ReplansAreEvents == Spec => []ReplansCountEvents
  <1>1. Init => EventsOK
    <2> SUFFICES ASSUME Init PROVE EventsOK
      OBVIOUS
    <2>1. /\ Len(online) = 0 /\ replans = 0 /\ ~braked /\ prev_online_level = 0
          /\ ~route_event_reported /\ DOMAIN online = {}
      BY DEF Init
    <2>2. Events(online) = {}
      BY <2>1 DEF Events
    <2> QED
      BY <2>1, <2>2, FS_EmptySet DEF EventsOK
  <1>2. TypeOK /\ EventsOK /\ [Next]_vars => EventsOK'
    <2> SUFFICES ASSUME TypeOK, EventsOK, [Next]_vars PROVE EventsOK'
      OBVIOUS
    <2>1. CASE PolicyB3
      BY <2>1, PolicyCounts
    <2>2. CASE ~PolicyB3
      <3>1. UNCHANGED <<plan, replans, online, braked, prev_online_level, route_event_reported>>
        BY <2>2 DEF Next, PolicyB1, PolicyB2, Control, Restore, Step, Decided, facts, policy, vars
      <3> QED
        BY <3>1 DEF EventsOK, Events
    <2> QED
      BY <2>1, <2>2
  <1>3. EventsOK => ReplansCountEvents
    BY DEF EventsOK, Events, ReplansCountEvents
  <1> QED
    BY <1>1, <1>2, <1>3, RolloutTypes, PTL DEF Spec
=============================================================================
