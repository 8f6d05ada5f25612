----------------------------- MODULE BrakeProfile -----------------------------
(***************************************************************************)
(* Level 4's braking reference and its terminal safe set.                  *)
(*   - LocalPlanner._brake_profile (local_planner.py) builds the profile,  *)
(*     one horizon step at a time; B3ConstraintSolver commands its first   *)
(*     step (b3_constraint_solver.cpp);                                    *)
(*   - _in_Xf (theorem4_terminal_set.py) judges the profile: it comes to   *)
(*     rest within the horizon and the certificate clears on all of it;    *)
(*   - part_b moves one step along the profile and judges again.           *)
(***************************************************************************)
EXTENDS BrakeLaw

CONSTANTS
  Safe(_),    \* Safe(x): the certificate of brake state x is not negative
  StartQ, StartV

ASSUME StartAssumption == StartQ \subseteq Int /\ StartV \subseteq Int

VARIABLES
  profile,    \* the profile being built, from the current state on
  made,       \* the last step of it that is built
  pc,         \* build, judged
  certified,  \* _in_Xf of the current state
  old,        \* the profile judged before
  was         \* _in_Xf of the state before

profileVars == <<profile, made, pc, certified, old, was>>

ProfileTypeOK ==
  /\ profile \in [0 .. Last -> State]
  /\ old \in [0 .. Last -> State]
  /\ made \in 0 .. Last
  /\ pc \in {"build", "judged"}
  /\ certified \in BOOLEAN /\ was \in BOOLEAN

-----------------------------------------------------------------------------
\* Mutation: the certificate alone, whether or not the brake completes.
ClearsOnly(p) == \A j \in 0 .. Last : Safe(p[j])

InXf(p) == RestsInTime(p[0]) /\ \A j \in 0 .. Last : Safe(p[j])

-----------------------------------------------------------------------------
Build ==
  /\ pc = "build" /\ made < Last
  /\ profile' = [profile EXCEPT ![made + 1] = Step(profile[made])]
  /\ made' = made + 1
  /\ UNCHANGED <<pc, certified, old, was>>

JudgeProfile ==
  /\ pc = "build" /\ made = Last
  /\ certified' = InXf(profile)
  /\ pc' = "judged"
  /\ UNCHANGED <<profile, made, old, was>>

\* The profile is derived again from its own next state.
Advance ==
  /\ pc = "judged"
  /\ profile' = [j \in 0 .. Last |-> profile[1]]
  /\ made' = 0
  /\ pc' = "build"
  /\ certified' = FALSE
  /\ old' = profile
  /\ was' = certified

ProfileInit ==
  /\ \E x \in [q : [Joint -> StartQ], v : [Joint -> StartV]] :
       profile = [j \in 0 .. Last |-> x]
  /\ made = 0
  /\ pc = "build"
  /\ certified = FALSE
  /\ old = profile
  /\ was = FALSE

ProfileNext == Build \/ JudgeProfile \/ Advance

ProfileSpec == ProfileInit /\ [][ProfileNext]_profileVars

-----------------------------------------------------------------------------
\* Each joint comes to rest exactly at step ceil(|v| / Accel), "did not reach
\* rest at the predicted step", "reached rest early" (test_planner.py), and
\* never turns round on the way.
RestsExactly ==
  pc = "judged" =>
    \A i \in Joint : LET v0 == profile[0].v[i] IN
      \A k \in 0 .. Last :
        LET vk == profile[k].v[i]
        IN  /\ vk = 0 <=> Abs(v0) <= k * Accel
            /\ vk # 0 => Sign(vk) = Sign(v0)

\* Position and velocity of every step are those of the closed form: the stopping
\* distance is exact, and so is "B(f(x))_j == B(x)_{j+1}" (test_planner.py).
FollowsClosedForm ==
  pc = "judged" => \A k \in 0 .. Last : profile[k] = After(profile[0], k)

\* "x in X_f => f(x) in X_f" (test_planner.py): a state whose profile was judged
\* safe is followed only by states whose profile is, although the last step of
\* each new profile was never evaluated before.
RecursivelyFeasible == (pc = "judged" /\ was) => certified
=============================================================================
