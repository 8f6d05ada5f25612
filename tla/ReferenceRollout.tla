--------------------------- MODULE ReferenceRollout ---------------------------
(***************************************************************************)
(* The Python reference benchmark: one rollout (executor.py) of a policy   *)
(* (baselines.py), control cycle by control cycle, B3 asking online_step   *)
(* (local_planner.py) about a horizon of the route it chose beforehand.    *)
(*                                                                         *)
(* Sample i is the instant i * dt.  The route's margin at a sample, under  *)
(* the force it will meet there, is abstracted to the sets of the samples  *)
(* that fail m_safe and that exceed the limit itself.  The past-the-end    *)
(* samples are those of the hold at the goal.                              *)
(***************************************************************************)
EXTENDS Integers, FiniteSets, Sequences

CONSTANTS
  Cycles,     \* control cycles of the rollout
  Horizon,    \* horizon_steps
  End,        \* the last sample of the whole-route certificate
  Last,       \* bound: the last sample anyone looks at
  NoCycle

ASSUME RolloutAssumption ==
  /\ Cycles \in Nat \ {0} /\ Horizon \in Nat \ {0} /\ End \in Nat /\ Last \in Nat
  /\ End <= Last /\ Cycles + Horizon - 2 <= Last
  /\ NoCycle \notin Int

Sample == 0 .. Last
Cycle == 0 .. Cycles - 1

VARIABLES
  config,     \* the policy and its ablation flags
  plan,       \* what plan_route answered, and whether it knew the forces
  fails,      \* the samples of the active route below m_safe
  over,       \* those of them above the actuator limit
  push,       \* the cycles at which an external force acts
  k, phase,   \* the cycle, and how far the rollout is in it
  braked, route_event_reported, prev_online_level,    \* policy_b3's state
  ref,        \* the reference of the cycle
  replans,
  sim,        \* whose state and which force the shared arm.data holds
  first,      \* history: the first cycle whose horizon triggered
  online      \* history: the online level of every cycle

facts == <<config, plan, fails, over, push>>
policy == <<braked, route_event_reported, prev_online_level>>
vars == <<facts, k, phase, policy, ref, replans, sim, first, online>>

Config == [policy : {"B1", "B2", "B3"}, predict : BOOLEAN, act : BOOLEAN,
           allow2 : BOOLEAN, allow4 : BOOLEAN]

TypeOK ==
  /\ config \in Config
  /\ plan \in [level : 0 .. 3, cleared : BOOLEAN, known : BOOLEAN]
  /\ fails \subseteq Sample /\ over \subseteq fails /\ push \subseteq Cycle
  /\ k \in 0 .. Cycles
  /\ phase \in {"policy", "control", "restore", "step", "done"}
  /\ braked \in BOOLEAN /\ route_event_reported \in BOOLEAN
  /\ prev_online_level \in {0, 2, 4}
  /\ ref \in {"nominal", "projected", "reshaped", "actual"}
  /\ replans \in 0 .. Cycles
  /\ sim \in [state : {"actual", "query"}, force : BOOLEAN]
  /\ first \in Cycle \cup {NoCycle}
  /\ online \in Seq({0, 2, 4})

-----------------------------------------------------------------------------
\* required_torque and mass_matrix leave their arguments in the shared
\* simulator and no force on it.
Queried == [state |-> "query", force |-> FALSE]

\* Mutation: the certificate of the route stops short of its last sample.
CertifiedShort == fails \cap (0 .. End - 1) = {}

\* The whole-route certificate: n = ceil(T / dt) + 1 samples.
Certified == fails \cap (0 .. End) = {}

\* Mutation: the horizon's last sample is not looked at.
TriggersLate == \E i \in fails : k <= i /\ i < k + Horizon - 1

Triggers == \E i \in fails : k <= i /\ i < k + Horizon

\* What online_step may answer: its level, its reference, whether it triggered.
Answer(l, r, t) == [level |-> l, ref |-> r, triggered |-> t]
Online ==
  IF ~config.predict \/ ~Triggers THEN {Answer(0, "nominal", FALSE)}
  ELSE IF ~config.act THEN {Answer(0, "nominal", TRUE)}
  ELSE {a \in {Answer(2, "reshaped", TRUE)} : config.allow2}
       \cup {IF config.allow4 THEN Answer(4, "actual", TRUE) ELSE Answer(0, "nominal", TRUE)}

-----------------------------------------------------------------------------
Decided == phase' = "control" /\ UNCHANGED <<facts, k>>

PolicyB1 ==
  /\ phase = "policy" /\ config.policy = "B1"
  /\ ref' = "nominal"
  /\ Decided
  /\ UNCHANGED <<policy, replans, sim, first, online>>

\* The torque of this instant alone: past the limit, the acceleration is
\* projected, if some acceleration is feasible.
PolicyB2 ==
  /\ phase = "policy" /\ config.policy = "B2"
  /\ ref' \in IF k \in over THEN {"projected", "nominal"} ELSE {"nominal"}
  /\ sim' = Queried
  /\ Decided
  /\ UNCHANGED <<policy, replans, first, online>>

\* Braked for good: no query, no event, the robot's own position as reference.
HoldBraked ==
  /\ braked
  /\ ref' = "actual"
  /\ online' = Append(online, 4)
  /\ UNCHANGED <<policy, replans, sim, first>>

\* Mutation: every cycle at a level above 0 counts as a replan.
BeginsEveryCycle(level) == level # 0

\* The engagement of the brake, the rising edge of a reshape.
Begins(level) == level = 4 \/ (level = 2 /\ prev_online_level # 2)

Follow(a) ==
  /\ ~braked
  /\ ref' = a.ref
  /\ braked' = (a.level = 4)
  /\ prev_online_level' = a.level
  /\ route_event_reported' = (route_event_reported \/ plan.level # 0)
  /\ replans' = IF Begins(a.level) \/ (~route_event_reported /\ plan.level # 0)
                  THEN replans + 1 ELSE replans
  /\ sim' = Queried
  /\ first' = IF a.triggered /\ first = NoCycle THEN k ELSE first
  /\ online' = Append(online, a.level)

\* Mutation: the brake is not sticky, the route is consulted again.
PolicyB3Resumes ==
  /\ phase = "policy" /\ config.policy = "B3"
  /\ \E a \in Online :
       /\ ref' = a.ref
       /\ braked' = (braked \/ a.level = 4)
       /\ prev_online_level' = a.level
       /\ online' = Append(online, a.level)
  /\ sim' = Queried
  /\ Decided
  /\ UNCHANGED <<route_event_reported, replans, first>>

PolicyB3 ==
  /\ phase = "policy" /\ config.policy = "B3"
  /\ HoldBraked \/ \E a \in Online : Follow(a)
  /\ Decided

\* The computed-torque law needs the dynamics at the reference.
Control ==
  /\ phase = "control"
  /\ sim' = Queried
  /\ phase' = "restore"
  /\ UNCHANGED <<facts, k, policy, ref, replans, first, online>>

\* Mutation: the force is applied, the true state not put back.
RestoreForceOnly ==
  /\ phase = "restore"
  /\ sim' = [sim EXCEPT !.force = (k \in push)]
  /\ phase' = "step"
  /\ UNCHANGED <<facts, k, policy, ref, replans, first, online>>

\* The true state is put back, the measured force applied or cleared.
Restore ==
  /\ phase = "restore"
  /\ sim' = [state |-> "actual", force |-> k \in push]
  /\ phase' = "step"
  /\ UNCHANGED <<facts, k, policy, ref, replans, first, online>>

\* mj_step; after the last cycle the end-effector positions are queried.
Step ==
  /\ phase = "step"
  /\ k' = k + 1
  /\ IF k' = Cycles
       THEN phase' = "done" /\ sim' = [sim EXCEPT !.state = "query"]
       ELSE phase' = "policy" /\ UNCHANGED sim
  /\ UNCHANGED <<facts, policy, ref, replans, first, online>>

-----------------------------------------------------------------------------
\* Only B3 plans, and has ablations.  A route it cleared knowing the forces it will meet passes
\* the whole-route certificate; without them plan_route's verdict says nothing
\* of fails.
Planned ==
  /\ config.policy # "B3" =>
       /\ plan = [level |-> 0, cleared |-> FALSE, known |-> FALSE]
       /\ config.predict /\ config.act /\ config.allow2 /\ config.allow4
  /\ plan.level # 0 => plan.cleared
  /\ plan.cleared => config.predict
  /\ plan.level # 0 => config.act
  /\ plan.cleared /\ plan.known => Certified

Init ==
  /\ config \in Config
  /\ plan \in [level : {0, 1, 2, 3}, cleared : BOOLEAN, known : BOOLEAN]
  /\ fails \in SUBSET Sample
  /\ Planned
  /\ over \in SUBSET fails /\ push \in SUBSET Cycle
  /\ k = 0 /\ phase = "policy"
  /\ braked = FALSE /\ route_event_reported = FALSE /\ prev_online_level = 0
  /\ ref = "nominal" /\ replans = 0
  /\ sim \in [state : {"actual"}, force : BOOLEAN]
  /\ first = NoCycle /\ online = << >>

Next == PolicyB1 \/ PolicyB2 \/ PolicyB3 \/ Control \/ Restore \/ Step

Spec == Init /\ [][Next]_vars

-----------------------------------------------------------------------------
\* The plant is integrated from its own state under the force it meets, whatever
\* the policy and the controller asked of the shared simulator ("or mj_step
\* silently steps from the wrong point", executor.py).
StepsFromTruth ==
  phase = "step" => sim = [state |-> "actual", force |-> k \in push]

\* A route certified with the forces it meets is never interrupted, past its end
\* too, provided the hold fails only if its first sample does (a force that has
\* settled when the route ends).
CertifiedRouteRuns ==
  (plan.cleared /\ plan.known /\ (End \notin fails => \A i \in fails : i < End))
    => first = NoCycle /\ \A i \in DOMAIN online : online[i] = 0

\* B3 "should detect before T_failure by up to one online-horizon length"
\* (exp3_interaction_force.py): no sample over the limit is commanded that did
\* not trigger as soon as it came into view, a horizon earlier or at once.
WarnsAHorizonAhead ==
  (config.policy = "B3" /\ config.predict) =>
    \A i \in over : i < Len(online) =>
      first # NoCycle /\ first <= (IF i < Horizon THEN 0 ELSE i - Horizon + 1)

\* "Level 4 is STICKY" (baselines.py): from the cycle that engages the brake to
\* the end the robot's own position is the reference, never the route again.
BrakeIsSticky ==
  \A i \in DOMAIN online : online[i] = 4 =>
    ref = "actual" /\ \A j \in i .. Len(online) : online[j] = 4

\* "replanned must count EVENTS, not cycles" (baselines.py): the cycles in which
\* a correction or the brake begins, or the route's own adaptation is reported.
ReplansCountEvents ==
  replans = Cardinality({i \in DOMAIN online :
    \/ i = 1 /\ plan.level # 0
    \/ online[i] # 0 /\ (i > 1 => online[i - 1] # online[i])})
=============================================================================
