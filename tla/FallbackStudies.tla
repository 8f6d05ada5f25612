---------------------------- MODULE FallbackStudies ----------------------------
(***************************************************************************)
(* The two studies of what happens when the world model is wrong           *)
(* (code/experiments):                                                     *)
(*   - wmi_theorem3_hypothesis_fallback.py: states and plans certified     *)
(*     under the hypothesis H_E or under the physical bound E_wc, then     *)
(*     judged under a truth that may lie outside of either;                *)
(*   - wmi_fallback_family.py: the brake and the retreat as members of a   *)
(*     family.  Every part builds an arm of its own and judges the contact *)
(*     before the payloads, so a margin depends on its arguments only.     *)
(***************************************************************************)
EXTENDS ContactWorld, Sequences, FiniteSets

CONSTANTS
  None,
  Samples,     \* the states a study may draw
  MaxStates,   \* bound: how many it draws
  Plans,       \* the plans swept in part_c3, deeper and deeper, as samples
  PlanEnd,     \* the last sample of each: they take the same time
  Asserted,    \* (Z_ASSERTED, K_ASSERTED)
  Hypotheses,  \* the boxes H_E about it
  Bound,       \* E_wc
  Truths,      \* the environments there may really be
  MSafe,       \* M_SAFE
  Payload,     \* the payload the studies ask for
  Payloads,    \* the payloads of the inertial falsification
  RetreatSteps \* RETREAT_STEPS

ASSUME StudyAssumption ==
  /\ Samples \subseteq State
  /\ PlanEnd \in Nat /\ Plans \in Seq([0 .. PlanEnd -> Point])
  /\ Asserted \in Env /\ Truths \subseteq Env
  /\ Bound \in Box /\ Hypotheses \subseteq Box
  /\ \A h \in Hypotheses : Contains(h, Asserted)
  /\ MSafe \in Nat /\ Payload \in Int /\ Payloads \subseteq Int
  /\ RetreatSteps \in Nat /\ RetreatSteps >= Horizon
  /\ None \notin Int \cup Truths \cup Hypotheses

VARIABLES
  at,       \* sample, judge; sweep, follow; family
  hyp,      \* H_E
  truth,    \* the environment, once it is revealed
  states,   \* the states drawn
  admitted, \* [h, w]: those in X_f^{H_E} and in X_f^wc
  unsafe,   \* [h, w]: of these, the ones whose brake fails under the truth
  rescued,  \* [all, ok]: states that must not continue; of these, those the brake saves
  via,      \* the plans swept so far
  best,     \* [h, b]: the deepest certified plan, and the deepest that keeps (b)
  plan, j,  \* the plan followed, and its next sample
  onset, alarm, violation,  \* the first samples of deviation, detection and violation
  bad,      \* samples the brake is not safe from
  answer,   \* what part_e last found of a state and a fallback, or None
  member    \* what part_f last found

sampling == <<states, admitted, unsafe, rescued>>
following == <<via, best, plan, j, onset, alarm, violation, bad>>
family == <<answer, member>>
vars == <<at, hyp, truth, sampling, following, family>>

TypeOK ==
  /\ at \in {"sample", "judge", "sweep", "follow", "family"}
  /\ hyp \in Hypotheses \cup {None} /\ truth \in Truths \cup {None}
  /\ states \in SUBSET Samples
  /\ admitted \in [h : SUBSET states, w : SUBSET states]
  /\ unsafe \in [h : SUBSET states, w : SUBSET states]
  /\ rescued \in [all : SUBSET states, ok : SUBSET states]
  /\ via \in 0 .. Len(Plans)
  /\ best \in [h : 1 .. via \cup {None}, b : 1 .. via \cup {None}]
  /\ plan \in 1 .. Len(Plans) \cup {None}
  /\ j \in 0 .. PlanEnd + 1 /\ bad \in 0 .. j
  /\ {onset, alarm, violation} \subseteq 0 .. j - 1 \cup {None}

-----------------------------------------------------------------------------
(***************************************************************************)
(* Sampled states, and parts A, B and D.                                   *)
(***************************************************************************)
\* Only the family's study leaves out what the brake cannot stop in time.
Draw(x) ==
  /\ at \in {"sample", "family"} /\ Cardinality(states) < MaxStates
  /\ at = "family" => RestsInTime(x)
  /\ states' = states \cup {x}
  /\ UNCHANGED <<at, hyp, truth, admitted, unsafe, rescued, following, family>>

Admit ==
  /\ at = "sample" /\ states # {}
  /\ admitted' = [h |-> {x \in states : InTerminalSet(x, hyp, Payload)},
                  w |-> {x \in states : InTerminalSet(x, Bound, Payload)}]
  /\ at' = "judge"
  /\ UNCHANGED <<hyp, truth, states, unsafe, rescued, following, family>>

\* One row of part_b and of part_d: the truth is e.
Judge(e) ==
  /\ at = "judge"
  /\ truth' = e
  /\ unsafe' = [h |-> {x \in admitted.h : ~BrakeSafeUnder(x, e, Payload)},
                w |-> {x \in admitted.w : ~BrakeSafeUnder(x, e, Payload)}]
  /\ LET stuck == {x \in states : /\ RestsInTime(x)
                                  /\ ~Rho(CoastPoints(x), PointBox(e), Payload, 0)}
     IN rescued' = [all |-> stuck, ok |-> {x \in stuck : BrakeSafeUnder(x, e, Payload)}]
  /\ UNCHANGED <<at, hyp, states, admitted, following, family>>

-----------------------------------------------------------------------------
(***************************************************************************)
(* Part C: plans.                                                          *)
(***************************************************************************)
Certified(p) == Rho(p, hyp, Payload, MSafe)

\* Mutation: only where the plan starts.
MaintainsAtStart(p) == InTerminalSet(p[0], Bound, Payload)

\* Condition (b): every planned state stays in X_f^wc.
Maintains(p) == \A n \in 0 .. PlanEnd : InTerminalSet(p[n], Bound, Payload)

Sweep ==
  /\ at = "sweep" /\ via < Len(Plans)
  /\ via' = via + 1
  /\ LET p == Plans[via'] IN
     best' = [h |-> IF Certified(p) THEN via' ELSE best.h,
              b |-> IF Certified(p) /\ Maintains(p) THEN via' ELSE best.b]
  /\ UNCHANGED <<at, hyp, truth, sampling, plan, j, onset, alarm, violation, bad, family>>

\* A plan is followed under e: those of part_c3, or any as in part_c1 and part_c2.
Follow(n, e) ==
  /\ at = "sweep" /\ via = Len(Plans)
  /\ at' = "follow"
  /\ truth' = e /\ plan' = n /\ j' = 0
  /\ onset' = None /\ alarm' = None /\ violation' = None /\ bad' = 0
  /\ UNCHANGED <<hyp, sampling, via, best, family>>

Nominal(i, p) == Required(i, p, Payload, ForceScalar(p.q, Asserted.z, Asserted.k))
Actual(i, p) == Required(i, p, Payload, ForceScalar(p.q, truth.z, truth.k))

Deviation(i, p) == Abs(Actual(i, p)) - Abs(Nominal(i, p))

\* Mutation: every joint must deviate.
DetectsAll(p) == \A i \in Joint : OverBeta(Deviation(i, p), p.q, hyp, Asserted)

\* dev > beta
Detects(p) == \E i \in Joint : OverBeta(Deviation(i, p), p.q, hyp, Asserted)

Violates(p) == \E i \in Joint : Abs(Actual(i, p)) > TauMax[i]

FirstOf(was, now) == IF was = None /\ now THEN j ELSE was

Sample ==
  /\ at = "follow" /\ j <= PlanEnd
  /\ LET p == Plans[plan][j] IN
     /\ onset' = FirstOf(onset, \E i \in Joint : Deviation(i, p) > 0)
     /\ alarm' = FirstOf(alarm, onset' # None /\ Detects(p))
     /\ violation' = FirstOf(violation, Violates(p))
     /\ bad' = bad + IF BrakeSafeUnder(p, truth, Payload) THEN 0 ELSE 1
  /\ j' = j + 1
  /\ UNCHANGED <<at, hyp, truth, sampling, via, best, plan, family>>

NextRow ==
  /\ at = "follow" /\ j > PlanEnd
  /\ at' = "sweep"
  /\ UNCHANGED <<hyp, truth, sampling, following, family>>

-----------------------------------------------------------------------------
(***************************************************************************)
(* The family: parts E and F.                                              *)
(***************************************************************************)
Manoeuvre(x, name) ==
  IF name = "brake" THEN ExtendedBrake(x, RetreatSteps) ELSE RetreatPoints(x, RetreatSteps)

Gone == PointBox([z |-> 0, k |-> 0])

\* part_e, contact and inertial: must x not continue, and does the fallback save it?
JudgeContact(x, name, e) ==
  /\ at = "family" /\ x \in states
  /\ answer' = [x |-> x, name |-> name, truth |-> e,
                stuck |-> ~Rho(CoastPoints(x), PointBox(e), Payload, 0),
                saved |-> Rho(Manoeuvre(x, name), PointBox(e), Payload, 0)]
  /\ UNCHANGED <<at, hyp, truth, sampling, following, member>>

JudgePayload(x, name, m) ==
  /\ at = "family" /\ x \in states
  /\ answer' = [x |-> x, name |-> name, truth |-> None,
                stuck |-> ~Rho(CoastPoints(x), Gone, m, 0),
                saved |-> Rho(Manoeuvre(x, name), Gone, m, 0)]
  /\ UNCHANGED <<at, hyp, truth, sampling, following, member>>

\* Mutation: as the world model asserts, not as E_wc bounds.
FeasibleAsAsserted(x, name) == Rho(Manoeuvre(x, name), PointBox(Asserted), Payload, 0)

Feasible(x, name) == Rho(Manoeuvre(x, name), Bound, Payload, 0)

\* part_f: is x in the set of this fallback, and is its successor?
Belongs(x, name) ==
  /\ at = "family" /\ x \in states
  /\ member' = LET second == Manoeuvre(x, name)[1] IN
       [x |-> x, name |-> name, ok |-> Feasible(x, name),
        next |-> Feasible([q |-> second.q, v |-> second.v], name)]
  /\ UNCHANGED <<at, hyp, truth, sampling, following, answer>>

-----------------------------------------------------------------------------
Init ==
  /\ \/ at \in {"sample", "sweep"} /\ hyp \in Hypotheses
     \/ at = "family" /\ hyp = None
  /\ truth = None
  /\ states = {} /\ admitted = [h |-> {}, w |-> {}] /\ unsafe = [h |-> {}, w |-> {}]
  /\ rescued = [all |-> {}, ok |-> {}]
  /\ via = 0 /\ best = [h |-> None, b |-> None]
  /\ plan = None /\ j = 0
  /\ onset = None /\ alarm = None /\ violation = None /\ bad = 0
  /\ answer = None /\ member = None

Next ==
  \/ \E x \in Samples : Draw(x)
  \/ Admit
  \/ \E e \in Truths : Judge(e)
  \/ Sweep
  \/ \E n \in 1 .. Len(Plans), e \in Truths : Follow(n, e)
  \/ Sample
  \/ NextRow
  \/ \E x \in Samples, name \in {"brake", "retreat"} :
       \/ \E e \in Truths : JudgeContact(x, name, e)
       \/ \E m \in Payloads : JudgePayload(x, name, m)
       \/ Belongs(x, name)

Spec == Init /\ [][Next]_vars

-----------------------------------------------------------------------------
(***************************************************************************)
(* What the studies are to show, or rely on.                               *)
(***************************************************************************)
Covered == truth # None /\ Contains(Bound, truth)

\* Theorem 3: as long as the truth lies within the physical bound, the brake is
\* safe from every state of X_f^wc ("0 is what the construction guarantees"), and
\* from every state of the plan that maintains condition (b), whatever was wrong
\* with the hypothesis; and a state of X_f^wc that must not continue is saved.
FallbackSurvives ==
  Covered =>
    /\ unsafe.w = {}
    /\ admitted.w \cap rescued.all \subseteq rescued.ok
    /\ plan # None /\ plan = best.b => bad = 0

\* "A residual above this cannot be accounted for by any environment the
\* hypothesis admits": while the hypothesis is true, nothing is detected.
NoFalseAlarm == truth # None /\ Contains(hyp, truth) => alarm = None

\* Theorem 2: where the margin the plan has banked from the onset on exceeds the
\* threshold at the violation, the hypothesis is known to be false by then.  The
\* study compares it with the threshold at the detection, which says less.
DetectedInTime ==
  violation # None =>
    LET p == Plans[plan]
        banked(x) == \A n \in 0 .. PlanEnd, i \in Joint :
                       n >= onset => OverBeta(Margin(i, p[n], hyp, Payload), x.q, hyp, Asserted)
    IN onset # None /\ onset <= violation /\ banked(p[violation])
         => alarm # None /\ alarm <= violation

\* A state part_f counts as a member under E_wc is one part_e finds saved by the same
\* fallback under any surface of E_wc, though only the two corners of the box were
\* judged; and the successor of a member of the brake's set is a member.
MembersSurvive ==
  member # None /\ member.ok =>
    /\ \/ answer = None
       \/ <<answer.x, answer.name>> # <<member.x, member.name>>
       \/ answer.truth = None
       \/ Contains(Bound, answer.truth) => answer.saved
    /\ member.name = "brake" => member.next

\* retreat_profile's "come to rest again at the withdrawn configuration -- a
\* complete manoeuvre ending in a terminal state, like the brake".
RetreatComesToRest ==
  member # None /\ member.name = "retreat" =>
    \A i \in Joint : Manoeuvre(member.x, "retreat")[RetreatSteps - 1].v[i] = 0
=============================================================================
