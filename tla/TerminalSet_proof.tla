---------------------------- MODULE TerminalSet_proof ----------------------------
(***************************************************************************)
(* The terminal safe set, for every number of joints, every deceleration   *)
(* and horizon.                                                            *)
(*   - Of BrakeProfile: for every certificate, the profile stops exactly   *)
(*     when predicted, is the closed form, and the set is invariant.       *)
(*   - Of FallbackStudies: recovery from a wrong world model, for every    *)
(*     arm, hypothesis, physical bound, truth and plan.  The studies       *)
(*     evaluate two corners of a box of environments; the lemmas on        *)
(*     margins say why that covers all of them.                            *)
(***************************************************************************)
EXTENDS BrakeProfile, FallbackStudies, WellFoundedInduction, TLAPS

-----------------------------------------------------------------------------
(***************************************************************************)
(* The brake.                                                              *)
(***************************************************************************)
LEMMA LastIsPositive == Last \in Nat /\ Last >= 1
  BY BrakeAssumption DEF Last

-----------------------------------------------------------------------------
(***************************************************************************)
(* One step of the brake.                                                  *)
(***************************************************************************)

\* A joint slower than one step's deceleration stops; any other loses exactly
\* that much speed and keeps its direction.
LEMMA OneStep ==
  ASSUME NEW v \in Int
  PROVE  /\ VelocityAfter(v) \in Int
         /\ Abs(v) <= Accel => VelocityAfter(v) = 0
         /\ Abs(v) > Accel => /\ Abs(VelocityAfter(v)) = Abs(v) - Accel
                              /\ Sign(VelocityAfter(v)) = Sign(v)
  BY BrakeAssumption DEF VelocityAfter, Clip, Abs, Sign

\* A state at rest is a fixed point of the brake.
LEMMA RestIsFixed ==
  ASSUME NEW x \in State, \A i \in Joint : x.v[i] = 0
  PROVE  Step(x) = x
  <1>1. \A i \in Joint : x.q[i] \in Int
    BY DEF State
  <1>2. VelocityAfter(0) = 0
    BY OneStep, BrakeAssumption DEF Abs
  <1>3. ASSUME NEW n \in Int PROVE PositionAfter(n, 0) = n
    BY BrakeAssumption DEF PositionAfter, Clip
  <1>4. [i \in Joint |-> PositionAfter(x.q[i], x.v[i])] = x.q
    BY <1>1, <1>3 DEF State
  <1>5. [i \in Joint |-> VelocityAfter(x.v[i])] = x.v
    BY <1>2 DEF State
  <1> QED
    BY <1>4, <1>5 DEF Step, State

LEMMA StepIsState ==
  ASSUME NEW x \in State
  PROVE  Step(x) \in State
  <1>1. ASSUME NEW i \in Joint
        PROVE  PositionAfter(x.q[i], x.v[i]) \in Int /\ VelocityAfter(x.v[i]) \in Int
    <2>1. x.q[i] \in Int /\ x.v[i] \in Int
      BY DEF State
    <2>2. Clip(x.v[i]) \in Int
      BY <2>1, BrakeAssumption DEF Clip
    <2> QED
      BY <2>1, <2>2, OneStep DEF PositionAfter
  <1> QED
    BY <1>1 DEF Step, State

-----------------------------------------------------------------------------
(***************************************************************************)
(* The inductive invariant.  The profile is a chain of steps as far as it  *)
(* is built, with the velocities Lemma 2 predicts; behind a state judged   *)
(* safe it follows the profile judged before, one step ahead.              *)
(***************************************************************************)

Slowed(v0, vk, t) ==
  /\ vk = 0 <=> Abs(v0) <= t
  /\ vk # 0 => Sign(vk) = Sign(v0) /\ Abs(vk) = Abs(v0) - t

Velocities(p, m) ==
  \A i \in Joint : \A k \in 0 .. m : Slowed(p[0].v[i], p[k].v[i], k * Accel)

Chain(p, m) == \A k \in 0 .. m - 1 : p[k + 1] = Step(p[k])

Follows == \A k \in 0 .. made : k < Last => profile[k] = old[k + 1]

ProfileInv ==
  /\ ProfileTypeOK
  /\ Velocities(profile, made)
  /\ Chain(profile, made)
  /\ pc = "judged" => made = Last
  /\ certified => pc = "judged" /\ InXf(profile)
  /\ was => /\ InXf(old)
            /\ Velocities(old, Last)
            /\ Chain(old, Last)
            /\ Follows

\* The next step of a slowing joint slows it by one more deceleration.
LEMMA SlowedFurther ==
  ASSUME NEW v0 \in Int, NEW vk \in Int, NEW t \in Nat, Slowed(v0, vk, t)
  PROVE  Slowed(v0, VelocityAfter(vk), t + Accel)
  <1>1. Accel \in Nat /\ Accel > 0
    BY BrakeAssumption
  <1>2. CASE vk = 0
    <2>1. VelocityAfter(vk) = 0 /\ Abs(v0) <= t
      BY <1>1, <1>2, OneStep DEF Abs, Slowed
    <2> QED
      BY <1>1, <2>1 DEF Slowed, Abs
  <1>3. CASE vk # 0
    <2>1. Abs(vk) = Abs(v0) - t /\ Sign(vk) = Sign(v0)
      BY <1>3 DEF Slowed
    <2>2. CASE Abs(vk) <= Accel
      <3>1. VelocityAfter(vk) = 0
        BY <2>2, OneStep
      <3>2. Abs(v0) <= t + Accel
        BY <1>1, <2>1, <2>2 DEF Abs
      <3> QED
        BY <3>1, <3>2 DEF Slowed
    <2>3. CASE Abs(vk) > Accel
      <3>1. /\ Abs(VelocityAfter(vk)) = Abs(v0) - (t + Accel)
            /\ Sign(VelocityAfter(vk)) = Sign(v0)
            /\ VelocityAfter(vk) \in Int
        BY <1>1, <2>1, <2>3, OneStep DEF Abs
      <3>2. VelocityAfter(vk) # 0 /\ ~(Abs(v0) <= t + Accel)
        BY <1>1, <2>1, <2>3, <3>1 DEF Abs
      <3> QED
        BY <3>1, <3>2 DEF Slowed
    <2> QED
      BY <1>1, <2>2, <2>3 DEF Abs
  <1> QED
    BY <1>2, <1>3

\* A profile that slows as it should and starts slow enough ends at rest.
LEMMA EndsAtRest ==
  ASSUME NEW p, Velocities(p, Last), RestsInTime(p[0])
  PROVE  \A i \in Joint : p[Last].v[i] = 0
  <1> TAKE i \in Joint
  <1>1. Slowed(p[0].v[i], p[Last].v[i], Last * Accel)
    BY LastIsPositive DEF Velocities
  <1> QED
    BY <1>1 DEF Slowed, RestsInTime

LEMMA BuildKeeps ==
  ASSUME ProfileInv, Build
  PROVE  ProfileInv'
  <1>1. /\ pc = "build" /\ made < Last
        /\ profile' = [profile EXCEPT ![made + 1] = Step(profile[made])]
        /\ made' = made + 1
        /\ pc' = pc /\ certified' = certified /\ old' = old /\ was' = was
    BY DEF Build
  <1>2. made \in Nat /\ made + 1 \in 0 .. Last /\ made \in 0 .. Last
    BY <1>1, LastIsPositive DEF ProfileInv, ProfileTypeOK
  <1>3. /\ profile'[made + 1] = Step(profile[made])
        /\ \A k \in 0 .. made : profile'[k] = profile[k]
    BY <1>1, <1>2, LastIsPositive DEF ProfileInv, ProfileTypeOK
  <1>4. ProfileTypeOK'
    BY <1>1, <1>2, StepIsState DEF ProfileInv, ProfileTypeOK
  <1>5. Velocities(profile', made')
    <2> SUFFICES ASSUME NEW i \in Joint, NEW k \in 0 .. made + 1
                 PROVE  Slowed(profile'[0].v[i], profile'[k].v[i], k * Accel)
      BY <1>1 DEF Velocities
    <2>1. profile'[0] = profile[0]
      BY <1>2, <1>3
    <2>2. CASE k <= made
      BY <1>2, <1>3, <2>1, <2>2 DEF ProfileInv, Velocities
    <2>3. CASE k = made + 1
      <3>1. profile[0] \in State /\ profile[made] \in State
        BY <1>2, LastIsPositive DEF ProfileInv, ProfileTypeOK
      <3>2. profile[0].v[i] \in Int /\ profile[made].v[i] \in Int
        BY <3>1 DEF State
      <3>3. Slowed(profile[0].v[i], profile[made].v[i], made * Accel)
        BY <1>2 DEF ProfileInv, Velocities
      <3>4. made * Accel \in Nat /\ made * Accel + Accel = (made + 1) * Accel
        BY <1>2, BrakeAssumption
      <3>5. Slowed(profile[0].v[i], VelocityAfter(profile[made].v[i]), (made + 1) * Accel)
        BY <3>2, <3>3, <3>4, SlowedFurther
      <3>6. profile'[k].v[i] = VelocityAfter(profile[made].v[i])
        BY <1>3, <2>3 DEF Step
      <3> QED
        BY <2>1, <2>3, <3>5, <3>6
    <2> QED
      BY <1>2, <2>2, <2>3
  <1>6. Chain(profile', made')
    <2> SUFFICES ASSUME NEW k \in 0 .. made PROVE profile'[k + 1] = Step(profile'[k])
      BY <1>1, <1>2 DEF Chain
    <2>1. CASE k = made
      BY <1>2, <1>3, <2>1
    <2>2. CASE k < made
      <3>1. profile[k + 1] = Step(profile[k]) /\ k + 1 \in 0 .. made
        BY <1>2, <2>2 DEF ProfileInv, Chain
      <3> QED
        BY <1>2, <1>3, <3>1
    <2> QED
      BY <1>2, <2>1, <2>2
  <1>7. was => Follows'
    <2> SUFFICES ASSUME was, NEW k \in 0 .. made + 1, k < Last
                 PROVE  profile'[k] = old[k + 1]
      BY <1>1 DEF Follows
    <2>1. CASE k <= made
      BY <1>2, <1>3, <2>1 DEF ProfileInv, Follows
    <2>2. CASE k = made + 1
      <3>1. profile[made] = old[made + 1]
        BY <1>1, <1>2 DEF ProfileInv, Follows
      <3>2. old[made + 2] = Step(old[made + 1])
        <4>1. made + 1 \in 0 .. Last - 1 /\ (made + 1) + 1 = made + 2
          BY <1>2, <2>2, LastIsPositive
        <4> QED
          BY <4>1 DEF ProfileInv, Chain
      <3>3. k + 1 = made + 2
        BY <1>2, <2>2
      <3> QED
        BY <1>3, <2>2, <3>1, <3>2, <3>3
    <2> QED
      BY <1>2, <2>1, <2>2
  <1> QED
    BY <1>1, <1>4, <1>5, <1>6, <1>7 DEF ProfileInv

\* The step a new profile appends repeats the rest state the last one ended in.
LEMMA FollowerIsTerminal ==
  ASSUME ProfileInv, was, made = Last
  PROVE  InXf(profile)
  <1>1. /\ InXf(old) /\ Velocities(old, Last) /\ Chain(old, Last) /\ Follows
    BY DEF ProfileInv
  <1>2. \A i \in Joint : old[Last].v[i] = 0
    BY <1>1, EndsAtRest DEF InXf
  <1>3. old[Last] \in State /\ old[0] \in State
    BY LastIsPositive DEF ProfileInv, ProfileTypeOK
  <1>4. \A k \in 0 .. Last - 1 : profile[k] = old[k + 1]
    BY <1>1, LastIsPositive DEF Follows
  <1>5. profile[Last] = old[Last]
    <2>1. Last - 1 \in 0 .. Last - 1 /\ (Last - 1) + 1 = Last
      BY LastIsPositive
    <2>2. profile[Last - 1] = old[Last] /\ profile[Last] = Step(profile[Last - 1])
      BY <1>4, <2>1 DEF ProfileInv, Chain
    <2> QED
      BY <1>2, <1>3, <2>2, RestIsFixed
  <1>6. \A k \in 0 .. Last : Safe(profile[k])
    <2> TAKE k \in 0 .. Last
    <2>1. CASE k < Last
      <3>1. k \in 0 .. Last - 1 /\ k + 1 \in 0 .. Last
        BY <2>1, LastIsPositive
      <3> QED
        BY <1>1, <1>4, <3>1 DEF InXf
    <2>2. CASE k = Last
      BY <1>1, <1>5, <2>2, LastIsPositive DEF InXf
    <2> QED
      BY <2>1, <2>2, LastIsPositive
  <1>7. RestsInTime(profile[0])
    <2> SUFFICES ASSUME NEW i \in Joint PROVE Abs(profile[0].v[i]) <= Last * Accel
      BY DEF RestsInTime
    <2>1. profile[0] = Step(old[0])
      BY <1>1, <1>4, LastIsPositive DEF Chain
    <2>2. old[0].v[i] \in Int /\ profile[0].v[i] = VelocityAfter(old[0].v[i])
      BY <1>3, <2>1 DEF State, Step
    <2>3. Abs(old[0].v[i]) <= Last * Accel
      BY <1>1 DEF InXf, RestsInTime
    <2>4. Abs(profile[0].v[i]) <= Abs(old[0].v[i])
      BY <2>2, OneStep, BrakeAssumption DEF Abs
    <2>5. Last * Accel \in Nat
      BY LastIsPositive, BrakeAssumption
    <2> HIDE DEF Last
    <2>6. Abs(profile[0].v[i]) \in Int /\ Abs(old[0].v[i]) \in Int
      BY <2>2, OneStep DEF Abs
    <2> QED
      BY <2>3, <2>4, <2>5, <2>6
  <1> QED
    BY <1>6, <1>7 DEF InXf

LEMMA AdvanceKeeps ==
  ASSUME ProfileInv, Advance
  PROVE  ProfileInv'
  <1>1. /\ pc = "judged" /\ profile' = [k \in 0 .. Last |-> profile[1]]
        /\ made' = 0 /\ pc' = "build" /\ certified' = FALSE
        /\ old' = profile /\ was' = certified /\ made = Last
    BY DEF Advance, ProfileInv
  <1>2. profile[1] \in State /\ 0 \in 0 .. Last /\ 0 < Last
    BY LastIsPositive DEF ProfileInv, ProfileTypeOK
  <1>3. profile'[0] = profile[1]
    BY <1>1, <1>2
  <1>4. ProfileTypeOK'
    BY <1>1, <1>2 DEF ProfileInv, ProfileTypeOK
  <1>5. Velocities(profile', 0)
    <2> SUFFICES ASSUME NEW i \in Joint, NEW k \in 0 .. 0
                 PROVE  Slowed(profile'[0].v[i], profile'[k].v[i], k * Accel)
      BY DEF Velocities
    <2>1. k = 0 /\ k * Accel = 0
      BY BrakeAssumption
    <2>2. profile'[0].v[i] \in Int
      BY <1>2, <1>3 DEF State
    <2> QED
      BY <2>1, <2>2 DEF Slowed, Abs
  <1>6. Chain(profile', 0)
    BY DEF Chain
  <1>7. Follows'
    BY <1>1, <1>2, <1>3 DEF Follows
  <1>8. was' => InXf(old') /\ Velocities(old', Last) /\ Chain(old', Last)
    BY <1>1 DEF ProfileInv
  <1> QED
    BY <1>1, <1>4, <1>5, <1>6, <1>7, <1>8 DEF ProfileInv

THEOREM BrakeInvariant == ProfileSpec => []ProfileInv
  <1>1. ProfileInit => ProfileInv
    <2> SUFFICES ASSUME ProfileInit PROVE ProfileInv
      OBVIOUS
    <2>1. PICK x \in [q : [Joint -> StartQ], v : [Joint -> StartV]] :
            profile = [k \in 0 .. Last |-> x]
      BY DEF ProfileInit
    <2>2. x \in State /\ 0 \in 0 .. Last
      <3>1. x.q \in [Joint -> Int] /\ x.v \in [Joint -> Int]
        BY StartAssumption
      <3>2. x = [q |-> x.q, v |-> x.v]
        OBVIOUS
      <3> QED
        BY <3>1, <3>2, LastIsPositive DEF State
    <2>3. ProfileTypeOK
      BY <2>1, <2>2 DEF ProfileInit, ProfileTypeOK
    <2>4. Velocities(profile, 0)
      <3> SUFFICES ASSUME NEW i \in Joint, NEW k \in 0 .. 0
                   PROVE  Slowed(profile[0].v[i], profile[k].v[i], k * Accel)
        BY DEF Velocities
      <3>1. k = 0 /\ k * Accel = 0
        BY BrakeAssumption
      <3>2. profile[0].v[i] \in Int
        BY <2>1, <2>2 DEF State
      <3> QED
        BY <3>1, <3>2 DEF Slowed, Abs
    <2>5. Chain(profile, 0)
      BY DEF Chain
    <2> QED
      BY <2>3, <2>4, <2>5 DEF ProfileInit, ProfileInv
  <1>2. ProfileInv /\ [ProfileNext]_profileVars => ProfileInv'
    <2> SUFFICES ASSUME ProfileInv, [ProfileNext]_profileVars PROVE ProfileInv'
      OBVIOUS
    <2>1. CASE Build
      BY <2>1, BuildKeeps
    <2>2. CASE JudgeProfile
      <3>1. /\ certified' = InXf(profile) /\ pc' = "judged" /\ made = Last
            /\ UNCHANGED <<profile, made, old, was>>
        BY <2>2 DEF JudgeProfile
      <3>2. InXf(profile) \in BOOLEAN
        BY DEF InXf, RestsInTime
      <3>3. ProfileTypeOK'
        BY <3>1, <3>2 DEF ProfileInv, ProfileTypeOK
      <3>4. certified' => InXf(profile')
        BY <3>1
      <3> QED
        BY <3>1, <3>3, <3>4 DEF ProfileInv, Follows
    <2>3. CASE Advance
      BY <2>3, AdvanceKeeps
    <2>4. CASE UNCHANGED profileVars
      BY <2>4 DEF profileVars, ProfileInv, ProfileTypeOK, Follows
    <2> QED
      BY <2>1, <2>2, <2>3, <2>4 DEF ProfileNext
  <1> QED
    BY <1>1, <1>2, PTL DEF ProfileSpec

-----------------------------------------------------------------------------
\* Lemma 2 of the terminal set: every joint stops at the predicted step, not
\* earlier and not later, and never turns round.
THEOREM RestIsExact == ProfileSpec => []RestsExactly
  <1>1. ProfileInv => RestsExactly
    <2> SUFFICES ASSUME ProfileInv, pc = "judged", NEW i \in Joint, NEW k \in 0 .. Last
                 PROVE  /\ profile[k].v[i] = 0 <=> Abs(profile[0].v[i]) <= k * Accel
                        /\ profile[k].v[i] # 0
                             => Sign(profile[k].v[i]) = Sign(profile[0].v[i])
      BY DEF RestsExactly
    <2>1. Slowed(profile[0].v[i], profile[k].v[i], k * Accel)
      BY DEF ProfileInv, Velocities
    <2> QED
      BY <2>1 DEF Slowed
  <1> QED
    BY <1>1, BrakeInvariant, PTL

\* Theorem 4: the terminal safe set is positively invariant under the brake.
THEOREM TerminalSetIsInvariant == ProfileSpec => []RecursivelyFeasible
  <1>1. ProfileInit => RecursivelyFeasible
    BY DEF ProfileInit, RecursivelyFeasible
  <1>2. ProfileInv /\ RecursivelyFeasible /\ [ProfileNext]_profileVars => RecursivelyFeasible'
    <2> SUFFICES ASSUME ProfileInv, RecursivelyFeasible, [ProfileNext]_profileVars, pc' = "judged", was'
                 PROVE  certified'
      BY DEF RecursivelyFeasible
    <2>1. CASE JudgeProfile
      <3>1. was /\ made = Last /\ certified' = InXf(profile)
        BY <2>1 DEF JudgeProfile
      <3> QED
        BY <3>1, FollowerIsTerminal
    <2>2. CASE UNCHANGED profileVars
      BY <2>2 DEF profileVars, RecursivelyFeasible
    <2> QED
      BY <2>1, <2>2 DEF ProfileNext, Build, Advance
  <1> QED
    BY <1>1, <1>2, BrakeInvariant, PTL DEF ProfileSpec

-----------------------------------------------------------------------------
(***************************************************************************)
(* The closed form.  It is one step per step of the recursion: while the   *)
(* speed lasts both lose a full deceleration, then what is left of it.     *)
(***************************************************************************)

\* The number of full decelerations.
LEMMA FullSteps ==
  ASSUME NEW speed \in Nat
  PROVE  /\ Full(speed) \in Nat
         /\ Full(speed) * Accel <= speed
         /\ speed < Full(speed) * Accel + Accel
  BY BrakeAssumption DEF Full

\* k full decelerations are possible exactly up to that number.
LEMMA FullIsExact ==
  ASSUME NEW speed \in Nat, NEW k \in Nat
  PROVE  k <= Full(speed) <=> k * Accel <= speed
  <1> DEFINE n == Full(speed)
  <1>1. n \in Nat /\ n * Accel <= speed /\ speed < n * Accel + Accel
    BY FullSteps
  <1>2. Accel \in Nat /\ Accel > 0
    BY BrakeAssumption
  <1> HIDE DEF n
  <1>3. CASE k <= n
    <2>1. k * Accel <= n * Accel
      BY <1>1, <1>2, <1>3
    <2> QED
      BY <1>1, <1>2, <1>3, <2>1 DEF n
  <1>4. CASE k > n
    <2>1. n * Accel + Accel <= k * Accel
      <3>1. n + 1 <= k
        BY <1>1, <1>4
      <3>2. (n + 1) * Accel <= k * Accel
        BY <1>1, <1>2, <3>1
      <3> QED
        BY <1>1, <1>2, <3>2
    <2> QED
      BY <1>1, <1>2, <1>4, <2>1 DEF n
  <1> QED
    BY <1>1, <1>3, <1>4

\* The distance of one more step is that of its speed, less half the change.
LEMMA TravelSteps ==
  ASSUME NEW speed \in Nat, NEW k \in Nat
  PROVE  /\ Speed(speed, k) \in Nat
         /\ Travel(speed, k) \in Int
         /\ Speed(speed, k) >= Accel =>
              /\ Speed(speed, k + 1) = Speed(speed, k) - Accel
              /\ Travel(speed, k + 1) = Travel(speed, k) + 2 * Speed(speed, k) - Accel
         /\ Speed(speed, k) < Accel =>
              /\ Speed(speed, k + 1) = 0
              /\ Travel(speed, k + 1) = Travel(speed, k) + Speed(speed, k)
  <1> DEFINE n == Full(speed)
  <1>0. Accel \in Nat /\ Accel > 0
    BY BrakeAssumption
  <1>1. n \in Nat /\ n * Accel <= speed /\ speed < n * Accel + Accel
    BY FullSteps
  <1>2. k <= n <=> k * Accel <= speed
    BY FullIsExact
  <1>3. k + 1 <= n <=> (k + 1) * Accel <= speed
    BY FullIsExact
  <1>4. k * Accel \in Nat /\ (k + 1) * Accel = k * Accel + Accel
    BY <1>0
  <1>5. Speed(speed, k) \in Nat
    BY <1>0, <1>4 DEF Speed
  <1>6. Travel(speed, k) \in Int
    BY <1>0, <1>1 DEF Travel
  <1>7. ASSUME Speed(speed, k) >= Accel
        PROVE  /\ Speed(speed, k + 1) = Speed(speed, k) - Accel
               /\ Travel(speed, k + 1) = Travel(speed, k) + 2 * Speed(speed, k) - Accel
    <2>1. (k + 1) * Accel <= speed /\ k * Accel <= speed
      BY <1>0, <1>4, <1>7 DEF Speed
    <2>2. Speed(speed, k) = speed - k * Accel /\ Speed(speed, k + 1) = speed - (k + 1) * Accel
      BY <2>1 DEF Speed
    <2>3. /\ Travel(speed, k) = 2 * k * speed - Accel * k * k
          /\ Travel(speed, k + 1) = 2 * (k + 1) * speed - Accel * (k + 1) * (k + 1)
      BY <1>2, <1>3, <2>1 DEF Travel
    <2>4. 2 * (k + 1) * speed - Accel * (k + 1) * (k + 1)
            = 2 * k * speed - Accel * k * k + 2 * (speed - k * Accel) - Accel
      BY <1>0
    <2> QED
      BY <1>4, <1>0, <2>2, <2>3, <2>4
  <1>8. ASSUME Speed(speed, k) < Accel
        PROVE  /\ Speed(speed, k + 1) = 0
               /\ Travel(speed, k + 1) = Travel(speed, k) + Speed(speed, k)
    <2>1. CASE k * Accel <= speed
      <3>1. speed < (k + 1) * Accel
        BY <1>0, <1>4, <1>8, <2>1 DEF Speed
      <3>2. n = k
        <4>1. k <= n
          BY <1>2, <2>1
        <4>2. (k + 1) * Accel \in Int /\ ~((k + 1) * Accel <= speed)
          BY <1>0, <3>1
        <4>3. ~(k + 1 <= n)
          BY <1>3, <4>2
        <4> HIDE DEF n
        <4> QED
          BY <1>1, <4>1, <4>3
      <3>3. Travel(speed, k) = 2 * k * speed - Accel * k * k
        BY <3>2 DEF Travel
      <3>4. Travel(speed, k + 1) = 2 * k * speed - Accel * k * k + (speed - k * Accel)
        BY <3>2 DEF Travel
      <3>5. Speed(speed, k) = speed - k * Accel
        BY <2>1 DEF Speed
      <3>6. Speed(speed, k + 1) = 0
        <4>1. ~((k + 1) * Accel <= speed)
          BY <1>0, <3>1
        <4> QED
          BY <4>1 DEF Speed
      <3> QED
        BY <3>3, <3>4, <3>5, <3>6
    <2>2. CASE ~(k * Accel <= speed)
      <3>1. ~((k + 1) * Accel <= speed)
        BY <1>0, <1>4, <2>2
      <3>2. Travel(speed, k + 1) = Travel(speed, k)
        BY <1>2, <1>3, <2>2, <3>1 DEF Travel
      <3> QED
        BY <1>6, <2>2, <3>1, <3>2 DEF Speed
    <2> QED
      BY <2>1, <2>2
  <1> QED
    BY <1>5, <1>6, <1>7, <1>8

\* A joint of the closed form moves on as the recursion moves it.
LEMMA JointSteps ==
  ASSUME NEW q \in Int, NEW v \in Int, NEW k \in Nat
  PROVE  LET d == Sign(v) * Travel(Abs(v), k)
             w == Sign(v) * Speed(Abs(v), k)
         IN  /\ d \in Int /\ w \in Int
             /\ VelocityAfter(w) = Sign(v) * Speed(Abs(v), k + 1)
             /\ PositionAfter(q + d, w) = q + Sign(v) * Travel(Abs(v), k + 1)
  <1> DEFINE V == Abs(v)
             s == Speed(V, k)
             t == Travel(V, k)
  <1>0. Accel \in Nat /\ Accel > 0
    BY BrakeAssumption
  <1>1. V \in Nat
    BY DEF Abs
  <1>2. s \in Nat /\ t \in Int
    BY <1>1, TravelSteps
  <1>3. /\ s >= Accel => Speed(V, k + 1) = s - Accel /\ Travel(V, k + 1) = t + 2 * s - Accel
        /\ s < Accel => Speed(V, k + 1) = 0 /\ Travel(V, k + 1) = t + s
    BY <1>1, TravelSteps
  <1> HIDE DEF V, s, t
  <1>4. \/ Sign(v) = 1 \/ Sign(v) = -1 \/ (Sign(v) = 0 /\ v = 0)
    BY DEF Sign
  <1>5. CASE Sign(v) = 1
    BY <1>0, <1>2, <1>3, <1>5 DEF VelocityAfter, PositionAfter, Clip, Sign, V, s, t
  <1>6. CASE Sign(v) = -1
    BY <1>0, <1>2, <1>3, <1>6 DEF VelocityAfter, PositionAfter, Clip, Sign, V, s, t
  <1>7. CASE Sign(v) = 0
    <2>1. Speed(V, k + 1) \in Nat /\ Travel(V, k + 1) \in Int
      <3>1. k + 1 \in Nat
        OBVIOUS
      <3> QED
        BY <1>1, <3>1, TravelSteps
    <2>2. /\ Sign(v) * t = 0 /\ Sign(v) * s = 0
          /\ Sign(v) * Speed(V, k + 1) = 0 /\ Sign(v) * Travel(V, k + 1) = 0
      BY <1>2, <1>7, <2>1
    <2>3. VelocityAfter(0) = 0 /\ PositionAfter(q, 0) = q
      <3>1. Clip(0) = 0
        BY <1>0 DEF Clip
      <3>2. VelocityAfter(0) = 0
        BY <3>1 DEF VelocityAfter
      <3>3. PositionAfter(q, 0) = q
        BY <3>1 DEF PositionAfter
      <3> QED
        BY <3>2, <3>3
    <2> QED
      BY <2>2, <2>3 DEF V, s, t
  <1> QED
    BY <1>4, <1>5, <1>6, <1>7

LEMMA ClosedFormSteps ==
  ASSUME NEW x \in State, NEW k \in Nat
  PROVE  Step(After(x, k)) = After(x, k + 1)
  <1>1. ASSUME NEW i \in Joint
        PROVE  /\ PositionAfter(After(x, k).q[i], After(x, k).v[i]) = After(x, k + 1).q[i]
               /\ VelocityAfter(After(x, k).v[i]) = After(x, k + 1).v[i]
    <2>1. x.q[i] \in Int /\ x.v[i] \in Int
      BY DEF State
    <2> QED
      BY <2>1, JointSteps DEF After
  <1> QED
    BY <1>1 DEF Step, After

\* At step 0 the closed form is the state itself.
LEMMA ClosedFormStarts ==
  ASSUME NEW x \in State
  PROVE  After(x, 0) = x
  <1>1. ASSUME NEW i \in Joint
        PROVE  After(x, 0).q[i] = x.q[i] /\ After(x, 0).v[i] = x.v[i]
    <2>1. x.q[i] \in Int /\ x.v[i] \in Int /\ Abs(x.v[i]) \in Nat
      BY DEF State, Abs
    <2>2. 0 <= Full(Abs(x.v[i])) /\ Accel \in Nat
      BY <2>1, FullSteps, BrakeAssumption
    <2>3. Travel(Abs(x.v[i]), 0) = 0 /\ Speed(Abs(x.v[i]), 0) = Abs(x.v[i])
      BY <2>1, <2>2 DEF Travel, Speed
    <2> QED
      BY <2>1, <2>3 DEF After, Sign, Abs
  <1>2. After(x, 0).q = x.q /\ After(x, 0).v = x.v
    BY <1>1 DEF After, State
  <1> QED
    BY <1>2 DEF After, State

Closed == \A k \in 0 .. made : profile[k] = After(profile[0], k)

\* The profile the recursion builds is the closed form, for any number of joints,
\* deceleration and horizon: positions, velocities and the stopping distance.
THEOREM ProfileIsClosedForm == ProfileSpec => []FollowsClosedForm
  <1>1. ProfileInit /\ ProfileInv => Closed
    <2> SUFFICES ASSUME ProfileInit, ProfileInv PROVE Closed
      OBVIOUS
    <2>1. profile[0] \in State /\ made = 0
      BY LastIsPositive DEF ProfileInit, ProfileInv, ProfileTypeOK
    <2> QED
      BY <2>1, ClosedFormStarts DEF Closed
  <1>2. ProfileInv /\ ProfileInv' /\ Closed /\ [ProfileNext]_profileVars => Closed'
    <2> SUFFICES ASSUME ProfileInv, ProfileInv', Closed, [ProfileNext]_profileVars PROVE Closed'
      OBVIOUS
    <2>0. profile \in [0 .. Last -> State] /\ made \in 0 .. Last /\ Last \in Nat /\ Last >= 1
      BY LastIsPositive DEF ProfileInv, ProfileTypeOK
    <2>1. CASE Build
      <3>1. /\ made < Last /\ made' = made + 1
            /\ profile' = [profile EXCEPT ![made + 1] = Step(profile[made])]
        BY <2>1 DEF Build
      <3>2. /\ \A k \in 0 .. made : profile'[k] = profile[k]
            /\ profile'[made + 1] = Step(profile[made])
        BY <2>0, <3>1
      <3>3. profile[0] \in State /\ profile[made] = After(profile[0], made) /\ profile'[0] = profile[0]
        BY <2>0, <3>2 DEF Closed
      <3>4. profile'[made + 1] = After(profile'[0], made + 1)
        BY <2>0, <3>2, <3>3, ClosedFormSteps
      <3>5. \A k \in 0 .. made + 1 : k \in 0 .. made \/ k = made + 1
        BY <2>0
      <3> QED
        BY <3>1, <3>2, <3>3, <3>4, <3>5 DEF Closed
    <2>2. CASE JudgeProfile
      BY <2>2 DEF JudgeProfile, Closed
    <2>3. CASE Advance
      <3>1. made' = 0 /\ profile'[0] \in State
        BY <2>3, LastIsPositive DEF Advance, ProfileInv, ProfileTypeOK
      <3> QED
        BY <3>1, ClosedFormStarts DEF Closed
    <2>4. CASE UNCHANGED profileVars
      BY <2>4 DEF profileVars, Closed
    <2> QED
      BY <2>1, <2>2, <2>3, <2>4 DEF ProfileNext
  <1>3. ProfileInv /\ Closed => FollowsClosedForm
    BY DEF ProfileInv, Closed, FollowsClosedForm
  <1> QED
    BY <1>1, <1>2, <1>3, BrakeInvariant, PTL DEF ProfileSpec

\* The variables keep their types.
THEOREM BrakeTypes == ProfileSpec => []ProfileTypeOK
  <1>1. ProfileInv => ProfileTypeOK
    BY DEF ProfileInv
  <1> QED
    BY <1>1, BrakeInvariant, PTL

-----------------------------------------------------------------------------
(***************************************************************************)
(* A box and the environments in it.                                       *)
(***************************************************************************)

\* Products of ordered factors are ordered.
LEMMA Products ==
  ASSUME NEW a \in Nat, NEW b \in Nat, NEW c \in Nat, NEW d \in Nat, a <= b, c <= d
  PROVE  a * c \in Nat /\ b * d \in Nat /\ a * c <= b * d
  <1>1. a * c <= b * c
    OBVIOUS
  <1>2. b * c <= b * d
    OBVIOUS
  <1> QED
    BY <1>1, <1>2

\* The contact force of any environment lies between those of the two corners.
LEMMA ForceBetween ==
  ASSUME Arm, NEW q \in [Joint -> Int], NEW box \in Box, NEW e \in Env, Contains(box, e)
  PROVE  /\ Least(q, box) \in Int /\ Most(q, box) \in Int
         /\ ForceScalar(q, e.z, e.k) \in Int
         /\ Least(q, box) <= ForceScalar(q, e.z, e.k)
         /\ ForceScalar(q, e.z, e.k) <= Most(q, box)
  <1> DEFINE in(z) == Larger(0, z - Height(q))
  <1>1. Height(q) \in Int
    BY DEF Arm
  <1>2. /\ box.zlo \in Int /\ box.zhi \in Int /\ box.klo \in Nat /\ box.khi \in Nat
        /\ e.z \in Int /\ e.k \in Nat
    BY DEF Box, Env
  <1>3. /\ box.zlo <= e.z /\ e.z <= box.zhi /\ box.klo <= e.k /\ e.k <= box.khi
    BY <1>2 DEF Contains
  <1>4. /\ in(box.zlo) \in Nat /\ in(e.z) \in Nat /\ in(box.zhi) \in Nat
        /\ in(box.zlo) <= in(e.z) /\ in(e.z) <= in(box.zhi)
    BY <1>1, <1>2, <1>3 DEF Larger
  <1> HIDE DEF in
  <1>5. /\ box.klo * in(box.zlo) \in Nat /\ e.k * in(e.z) \in Nat
        /\ box.klo * in(box.zlo) <= e.k * in(e.z)
    BY <1>2, <1>3, <1>4, Products
  <1>6. /\ box.khi * in(box.zhi) \in Nat
        /\ e.k * in(e.z) <= box.khi * in(box.zhi)
    BY <1>2, <1>3, <1>4, Products
  <1> QED
    BY <1>5, <1>6 DEF Least, Most, ForceScalar, in

\* The modulus of an affine function of the force is largest at an end.
LEMMA AffineIsWorstAtEnds ==
  ASSUME NEW t \in Int, NEW l \in Int, NEW lo \in Int, NEW s \in Int, NEW hi \in Int,
         lo <= s, s <= hi
  PROVE  /\ Abs(t - l * s) \in Nat
         /\ Abs(t - l * s) <= Larger(Abs(t - l * lo), Abs(t - l * hi))
         /\ Larger(Abs(t - l * lo), Abs(t - l * hi)) \in Nat
  <1>1. l * lo \in Int /\ l * s \in Int /\ l * hi \in Int
    OBVIOUS
  <1>2. \/ l * lo <= l * s /\ l * s <= l * hi
        \/ l * hi <= l * s /\ l * s <= l * lo
    <2>1. CASE l >= 0
      BY <2>1
    <2>2. CASE l < 0
      BY <2>2
    <2> QED
      BY <2>1, <2>2
  <1> DEFINE x == l * lo
             y == l * s
             w == l * hi
  <1> HIDE DEF x, y, w
  <1>3. /\ x \in Int /\ y \in Int /\ w \in Int
        /\ (x <= y /\ y <= w) \/ (w <= y /\ y <= x)
    BY <1>1, <1>2 DEF x, y, w
  <1>4. /\ Abs(t - y) \in Nat
        /\ Abs(t - y) <= Larger(Abs(t - x), Abs(t - w))
        /\ Larger(Abs(t - x), Abs(t - w)) \in Nat
    BY <1>3 DEF Abs, Larger
  <1> QED
    BY <1>4 DEF x, y, w

\* The one environment of a point box has one force.
LEMMA PointMargin ==
  ASSUME NEW i, NEW p, NEW e, NEW m
  PROVE  Margin(i, p, PointBox(e), m)
           = TauMax[i] - Abs(Required(i, p, m, ForceScalar(p.q, e.z, e.k))) - Delta[i]
  BY DEF Margin, Worst, PointBox, Least, Most, Larger

\* The margin under a box is no larger than that under any environment in it.
LEMMA MarginCovers ==
  ASSUME Arm, NEW p \in Point, NEW i \in Joint, NEW m \in Int,
         NEW box \in Box, NEW e \in Env, Contains(box, e)
  PROVE  /\ Margin(i, p, box, m) \in Int /\ Margin(i, p, PointBox(e), m) \in Int
         /\ Margin(i, p, box, m) <= Margin(i, p, PointBox(e), m)
  <1> DEFINE s == ForceScalar(p.q, e.z, e.k)
             lo == Least(p.q, box)
             hi == Most(p.q, box)
             t == Inverse(i, p, m)
             l == Lift(i, p.q)
  <1>1. p.q \in [Joint -> Int]
    BY DEF Point
  <1>2. lo \in Int /\ s \in Int /\ hi \in Int /\ lo <= s /\ s <= hi
    BY <1>1, ForceBetween
  <1>3. t \in Int /\ l \in Int /\ TauMax[i] \in Int /\ Delta[i] \in Nat
    BY <1>1 DEF Arm
  <1> HIDE DEF s, lo, hi, t, l
  <1>4. /\ Abs(t - l * s) \in Nat
        /\ Abs(t - l * s) <= Larger(Abs(t - l * lo), Abs(t - l * hi))
        /\ Larger(Abs(t - l * lo), Abs(t - l * hi)) \in Nat
    BY <1>2, <1>3, AffineIsWorstAtEnds
  <1>5. Margin(i, p, box, m) = TauMax[i] - Larger(Abs(t - l * lo), Abs(t - l * hi)) - Delta[i]
    BY DEF Margin, Worst, Required, s, lo, hi, t, l
  <1>6. Margin(i, p, PointBox(e), m) = TauMax[i] - Abs(t - l * s) - Delta[i]
    BY PointMargin DEF Required, s, t, l
  <1> QED
    BY <1>3, <1>4, <1>5, <1>6

LEMMA ClosedFormIsTyped ==
  ASSUME NEW speed \in Nat, NEW k \in Nat
  PROVE  Travel(speed, k) \in Int /\ Speed(speed, k) \in Int
  <1> DEFINE n == Full(speed)
  <1>1. Accel \in Nat /\ n \in Int
    BY BrakeAssumption DEF Full
  <1> HIDE DEF n
  <1>2. /\ k * Accel \in Int /\ n * Accel \in Int /\ 2 * k * speed \in Int
        /\ Accel * k * k \in Int /\ 2 * n * speed \in Int /\ Accel * n * n \in Int
    BY <1>1
  <1>3. Travel(speed, k) = IF k <= n THEN 2 * k * speed - Accel * k * k
                           ELSE 2 * n * speed - Accel * n * n + (speed - n * Accel)
    BY DEF Travel, n
  <1> QED
    BY <1>2, <1>3 DEF Speed

\* The points of a brake are points.
LEMMA BrakeIsTyped ==
  ASSUME StudyAssumption, NEW x, x.q \in [Joint -> Int], x.v \in [Joint -> Int],
         NEW k \in 0 .. Last
  PROVE  BrakePoints(x)[k] \in Point
  <1>1. Accel \in Nat /\ Accel > 0 /\ k \in Nat
    BY BrakeAssumption DEF Last
  <1>2. ASSUME NEW i \in Joint
        PROVE  After(x, k).q[i] \in Int /\ After(x, k).v[i] \in Int /\ -Clip(After(x, k).v[i]) \in Int
    <2>1. x.q[i] \in Int /\ x.v[i] \in Int /\ Sign(x.v[i]) \in Int /\ Abs(x.v[i]) \in Nat
      BY <1>2 DEF Sign, Abs
    <2>3. Travel(Abs(x.v[i]), k) \in Int /\ Speed(Abs(x.v[i]), k) \in Int
      BY <1>1, <2>1, ClosedFormIsTyped
    <2>4. After(x, k).q[i] \in Int /\ After(x, k).v[i] \in Int
      BY <2>1, <2>3 DEF After
    <2> QED
      BY <1>1, <2>4 DEF Clip
  <1>3. After(x, k).q \in [Joint -> Int] /\ After(x, k).v \in [Joint -> Int]
    BY <1>2 DEF After
  <1> QED
    BY <1>2, <1>3 DEF BrakePoints, Braking, Point

\* A state of the terminal set under a box brakes safely in every environment of it.
LEMMA TerminalSetCovers ==
  ASSUME Arm, StudyAssumption, NEW x, x.q \in [Joint -> Int], x.v \in [Joint -> Int],
         NEW box \in Box, NEW e \in Env, Contains(box, e), InTerminalSet(x, box, Payload)
  PROVE  BrakeSafeUnder(x, e, Payload)
  <1> SUFFICES ASSUME NEW k \in 0 .. Last, NEW i \in Joint
               PROVE  Margin(i, BrakePoints(x)[k], PointBox(e), Payload) >= 0
    BY DEF BrakeSafeUnder, InTerminalSet, Rho, BrakePoints
  <1>1. BrakePoints(x)[k] \in Point
    BY BrakeIsTyped
  <1>2. Margin(i, BrakePoints(x)[k], box, Payload) >= 0
    BY DEF InTerminalSet, Rho, BrakePoints
  <1>3. Payload \in Int
    BY DEF StudyAssumption
  <1> QED
    BY <1>1, <1>2, <1>3, MarginCovers

-----------------------------------------------------------------------------
(***************************************************************************)
(* The threshold of detection.                                             *)
(***************************************************************************)

\* A force of the hypothesis differs from the asserted one by no more than its swing.
LEMMA SwingCovers ==
  ASSUME Arm, NEW q \in [Joint -> Int], NEW box \in Box, NEW e \in Env, NEW asserted \in Env,
         Contains(box, e), Contains(box, asserted)
  PROVE  LET s == ForceScalar(q, e.z, e.k)
             t == ForceScalar(q, asserted.z, asserted.k)
         IN  s \in Int /\ t \in Int /\ Swing(q, box, asserted) \in Nat
             /\ Abs(s - t) <= Swing(q, box, asserted)
  <1>1. /\ Least(q, box) \in Int /\ Most(q, box) \in Int
        /\ ForceScalar(q, e.z, e.k) \in Int
        /\ Least(q, box) <= ForceScalar(q, e.z, e.k)
        /\ ForceScalar(q, e.z, e.k) <= Most(q, box)
    BY ForceBetween
  <1>2. ForceScalar(q, asserted.z, asserted.k) \in Int
    BY ForceBetween
  <1> QED
    BY <1>1, <1>2 DEF Swing, Larger, Abs

\* The change of a torque is no larger than the lift times the change of the force.
LEMMA AffineChange ==
  ASSUME NEW t \in Int, NEW l \in Int, NEW s \in Int, NEW r \in Int, NEW w \in Nat,
         Abs(s - r) <= w
  PROVE  /\ Abs(t - l * s) \in Nat /\ Abs(t - l * r) \in Nat
         /\ Abs(t - l * s) - Abs(t - l * r) <= Abs(l) * w
  <1> DEFINE x == l * s
             y == l * r
             c == Abs(l) * w
  <1>1. x \in Int /\ y \in Int /\ c \in Int
    BY DEF Abs
  <1>2. s - r <= w /\ r - s <= w
    BY DEF Abs
  <1>3. y - x <= c /\ x - y <= c
    <2>1. CASE l >= 0
      <3>1. l * (s - r) <= l * w /\ l * (r - s) <= l * w
        BY <1>2, <2>1
      <3> QED
        BY <2>1, <3>1 DEF Abs
    <2>2. CASE l < 0
      <3>1. (-l) * (s - r) <= (-l) * w /\ (-l) * (r - s) <= (-l) * w
        BY <1>2, <2>2
      <3> QED
        BY <2>2, <3>1 DEF Abs
    <2> QED
      BY <2>1, <2>2
  <1> HIDE DEF x, y, c
  <1>4. Abs(t - x) \in Nat /\ Abs(t - y) \in Nat /\ Abs(t - x) - Abs(t - y) <= c
    BY <1>1, <1>3 DEF Abs
  <1> QED
    BY <1>4 DEF x, y, c

LEMMA DeviationIsTyped ==
  ASSUME Arm, StudyAssumption, NEW p \in Point, NEW i \in Joint, truth \in Truths
  PROVE  /\ p.q \in [Joint -> Int] /\ Payload \in Int /\ truth \in Env /\ Asserted \in Env
         /\ Inverse(i, p, Payload) \in Int /\ Lift(i, p.q) \in Int
         /\ TauMax[i] \in Int /\ Delta[i] \in Nat
         /\ ForceScalar(p.q, truth.z, truth.k) \in Int
         /\ ForceScalar(p.q, Asserted.z, Asserted.k) \in Int
         /\ Abs(Actual(i, p)) \in Nat /\ Abs(Nominal(i, p)) \in Nat
  <1>1. /\ p.q \in [Joint -> Int] /\ Payload \in Int /\ truth \in Env /\ Asserted \in Env
    BY DEF Point, StudyAssumption
  <1>2. /\ Inverse(i, p, Payload) \in Int /\ Lift(i, p.q) \in Int
        /\ TauMax[i] \in Int /\ Delta[i] \in Nat
    BY <1>1 DEF Arm
  <1>3. ASSUME NEW e \in Env PROVE ForceScalar(p.q, e.z, e.k) \in Int
    <2>1. PointBox(e) \in Box /\ Contains(PointBox(e), e)
      BY DEF PointBox, Box, Env, Contains
    <2> QED
      BY <1>1, <2>1, ForceBetween
  <1>4. ASSUME NEW s \in Int
        PROVE  Abs(Inverse(i, p, Payload) - Lift(i, p.q) * s) \in Nat
    <2>1. Lift(i, p.q) * s \in Int
      BY <1>2
    <2> QED
      BY <1>2, <2>1 DEF Abs
  <1> QED
    BY <1>1, <1>2, <1>3, <1>4 DEF Actual, Nominal, Required

\* While the hypothesis is true, no residual exceeds what it explains.
LEMMA TrueHypothesisIsSilent ==
  ASSUME Arm, StudyAssumption, NEW p \in Point, truth \in Truths, hyp \in Hypotheses,
         Contains(hyp, truth)
  PROVE  ~Detects(p)
  <1> SUFFICES ASSUME NEW i \in Joint, OverBeta(Deviation(i, p), p.q, hyp, Asserted)
               PROVE  FALSE
    BY DEF Detects
  <1> DEFINE s == ForceScalar(p.q, truth.z, truth.k)
             r == ForceScalar(p.q, Asserted.z, Asserted.k)
             w == Swing(p.q, hyp, Asserted)
             t == Inverse(i, p, Payload)
             l == Lift(i, p.q)
  <1>1. /\ p.q \in [Joint -> Int] /\ truth \in Env /\ Asserted \in Env
        /\ t \in Int /\ l \in Int /\ Delta[i] \in Nat
    BY DeviationIsTyped
  <1>2. hyp \in Box /\ Contains(hyp, Asserted)
    BY DEF StudyAssumption
  <1>3. s \in Int /\ r \in Int /\ w \in Nat /\ Abs(s - r) <= w
    BY <1>1, <1>2, SwingCovers
  <1>4. Deviation(i, p) = Abs(t - l * s) - Abs(t - l * r)
    BY DEF Deviation, Actual, Nominal, Required
  <1>5. Deviation(i, p) > Abs(l) * w + Delta[i]
    BY DEF OverBeta
  <1> HIDE DEF s, r, w, t, l
  <1>6. /\ Abs(t - l * s) \in Nat /\ Abs(t - l * r) \in Nat
        /\ Abs(t - l * s) - Abs(t - l * r) <= Abs(l) * w
    BY <1>1, <1>3, AffineChange
  <1>7. Abs(l) * w \in Int
    BY <1>1, <1>3 DEF Abs
  <1> QED
    BY <1>1, <1>4, <1>5, <1>6, <1>7

\* A violation of a plan that has banked more than the threshold is detected.
LEMMA ViolationIsDetected ==
  ASSUME Arm, StudyAssumption, NEW p \in Point, truth \in Truths, hyp \in Hypotheses,
         Violates(p),
         \A i \in Joint : OverBeta(Margin(i, p, hyp, Payload), p.q, hyp, Asserted)
  PROVE  Detects(p)
  <1>1. PICK i \in Joint : Abs(Actual(i, p)) > TauMax[i]
    BY DEF Violates
  <1>2. /\ p.q \in [Joint -> Int] /\ Payload \in Int /\ Asserted \in Env
        /\ TauMax[i] \in Int /\ Delta[i] \in Nat
        /\ Abs(Actual(i, p)) \in Nat /\ Abs(Nominal(i, p)) \in Nat
    BY DeviationIsTyped
  <1>3. hyp \in Box /\ Contains(hyp, Asserted)
    BY DEF StudyAssumption
  <1>4. /\ Margin(i, p, hyp, Payload) \in Int
        /\ Margin(i, p, hyp, Payload) <= TauMax[i] - Abs(Nominal(i, p)) - Delta[i]
    <2>1. Margin(i, p, PointBox(Asserted), Payload) = TauMax[i] - Abs(Nominal(i, p)) - Delta[i]
      BY PointMargin DEF Nominal
    <2> QED
      BY <1>2, <1>3, <2>1, MarginCovers
  <1>5. Deviation(i, p) \in Int /\ Deviation(i, p) > Margin(i, p, hyp, Payload)
    BY <1>1, <1>2, <1>4 DEF Deviation
  <1>6. OverBeta(Deviation(i, p), p.q, hyp, Asserted)
    <2> SUFFICES ASSUME NEW a \in Joint, NEW b \in Joint
                 PROVE  Deviation(i, p) > Abs(Lift(a, p.q)) * Swing(p.q, hyp, Asserted) + Delta[b]
      BY DEF OverBeta
    <2> DEFINE bound == Abs(Lift(a, p.q)) * Swing(p.q, hyp, Asserted)
    <2>1. Margin(i, p, hyp, Payload) > bound + Delta[b]
      BY DEF OverBeta
    <2>2. bound \in Int /\ Delta[b] \in Int
      <3>1. Swing(p.q, hyp, Asserted) \in Nat
        BY <1>2, <1>3, SwingCovers
      <3>2. Lift(a, p.q) \in Int /\ Delta[b] \in Nat
        BY <1>2 DEF Arm
      <3>3. Abs(Lift(a, p.q)) \in Nat
        BY <3>2 DEF Abs
      <3> QED
        BY <3>1, <3>2, <3>3
    <2> HIDE DEF bound
    <2>3. Deviation(i, p) > bound + Delta[b]
      BY <1>4, <1>5, <2>1, <2>2
    <2> QED
      BY <2>3 DEF bound
  <1> QED
    BY <1>6 DEF Detects

-----------------------------------------------------------------------------
(***************************************************************************)
(* The inductive invariant.  No study disturbs another; the deepest plan   *)
(* that keeps condition (b) has all its states in X_f^wc; a violation that *)
(* could be detected was.                                                  *)
(***************************************************************************)
StagesOK ==
  /\ at = "family" \/ hyp \in Hypotheses
  /\ at \in {"sample", "family"} => truth = None
  /\ at \in {"sample", "judge", "family"} => plan = None
  /\ plan = None => alarm = None /\ violation = None
  /\ at # "judge" => unsafe.w = {} /\ rescued.all = {}
  /\ at = "follow" => plan # None
  /\ plan # None => via = Len(Plans) /\ truth \in Truths

MembersOK == \A x \in admitted.w : InTerminalSet(x, Bound, Payload)

BestOK == best.b # None => Maintains(Plans[best.b])

DetectionOK ==
  violation # None =>
    /\ Violates(Plans[plan][violation])
    /\ onset # None /\ onset <= violation /\ Detects(Plans[plan][violation])
         => alarm # None /\ alarm <= violation

IInv ==
  /\ TypeOK /\ StagesOK /\ MembersOK /\ BestOK
  /\ FallbackSurvives /\ NoFalseAlarm /\ DetectionOK

LEMMA PlanIsTyped ==
  ASSUME StudyAssumption, NEW n \in 1 .. Len(Plans), NEW k \in 0 .. PlanEnd
  PROVE  /\ Plans[n][k] \in Point /\ DOMAIN Plans[n] = 0 .. PlanEnd
         /\ Plans[n][k].q \in [Joint -> Int] /\ Plans[n][k].v \in [Joint -> Int]
  <1>1. Plans[n] \in [0 .. PlanEnd -> Point]
    BY DEF StudyAssumption
  <1> QED
    BY <1>1 DEF Point

LEMMA InitHolds ==
  ASSUME StudyAssumption, Init
  PROVE  IInv
  <1>1. PlanEnd \in Nat /\ Len(Plans) \in Nat
    BY DEF StudyAssumption
  <1>2. TypeOK
    <2>1. at \in {"sample", "judge", "sweep", "follow", "family"}
          /\ hyp \in Hypotheses \cup {None} /\ truth \in Truths \cup {None}
      BY DEF Init
    <2> QED
      BY <1>1, <2>1 DEF Init, TypeOK
  <1>3. StagesOK
    BY DEF Init, StagesOK
  <1> QED
    BY <1>2, <1>3 DEF Init, IInv, MembersOK, BestOK, FallbackSurvives, Covered, NoFalseAlarm,
                      DetectionOK

\* Sampling: a truth within the bound is within the box the set was computed for.
LEMMA JudgeKeeps ==
  ASSUME Arm, StudyAssumption, IInv, NEW e \in Truths, Judge(e)
  PROVE  IInv'
  <1>1. /\ at = "judge" /\ truth' = e
        /\ unsafe' = [h |-> {x \in admitted.h : ~BrakeSafeUnder(x, e, Payload)},
                      w |-> {x \in admitted.w : ~BrakeSafeUnder(x, e, Payload)}]
        /\ UNCHANGED <<at, hyp, states, admitted, via, best, plan, j, onset, alarm, violation,
                       bad, answer, member>>
    BY DEF Judge, following, family
  <1>2. PICK stuck \in SUBSET states :
          rescued' = [all |-> stuck, ok |-> {x \in stuck : BrakeSafeUnder(x, e, Payload)}]
    BY DEF Judge
  <1>3. /\ states \subseteq Samples /\ admitted.h \subseteq states /\ admitted.w \subseteq states
        /\ plan = None /\ alarm = None /\ violation = None
        /\ e \in Env /\ Bound \in Box
    BY <1>1 DEF IInv, TypeOK, StagesOK, StudyAssumption
  <1>4. Contains(Bound, e) => \A x \in admitted.w : BrakeSafeUnder(x, e, Payload)
    <2> SUFFICES ASSUME Contains(Bound, e), NEW x \in admitted.w
                 PROVE  BrakeSafeUnder(x, e, Payload)
      OBVIOUS
    <2>1. x.q \in [Joint -> Int] /\ x.v \in [Joint -> Int]
      BY <1>3 DEF StudyAssumption, State
    <2>2. InTerminalSet(x, Bound, Payload)
      BY DEF IInv, MembersOK
    <2> QED
      BY <1>3, <2>1, <2>2, TerminalSetCovers
  <1>5. TypeOK'
    <2>1. unsafe' \in [h : SUBSET states, w : SUBSET states]
      BY <1>1, <1>3
    <2>2. rescued' \in [all : SUBSET states, ok : SUBSET states]
      BY <1>2
    <2> QED
      BY <1>1, <2>1, <2>2 DEF IInv, TypeOK
  <1>6. FallbackSurvives'
    BY <1>1, <1>2, <1>3, <1>4 DEF FallbackSurvives, Covered
  <1> QED
    BY <1>1, <1>3, <1>5, <1>6 DEF IInv, StagesOK, MembersOK, BestOK, NoFalseAlarm, DetectionOK,
                                  Maintains

LEMMA SweepKeeps ==
  ASSUME StudyAssumption, IInv, Sweep
  PROVE  IInv'
  <1>1. /\ at = "sweep" /\ via < Len(Plans) /\ via' = via + 1
        /\ best' = [h |-> IF Certified(Plans[via']) THEN via' ELSE best.h,
                    b |-> IF Certified(Plans[via']) /\ Maintains(Plans[via']) THEN via' ELSE best.b]
        /\ UNCHANGED <<at, hyp, truth, states, admitted, unsafe, rescued, plan, j, onset, alarm,
                       violation, bad, answer, member>>
    BY DEF Sweep, sampling, family
  <1>2. /\ via \in 0 .. Len(Plans) /\ Len(Plans) \in Nat
        /\ best.h \in 1 .. via \cup {None} /\ best.b \in 1 .. via \cup {None}
    BY DEF IInv, TypeOK, StudyAssumption
  <1>3. plan = None
    BY <1>1 DEF IInv, StagesOK
  <1>4. via' \in 1 .. Len(Plans) /\ 1 .. via \subseteq 1 .. via' /\ via' \in 1 .. via'
    BY <1>1, <1>2
  <1>5. best' \in [h : 1 .. via' \cup {None}, b : 1 .. via' \cup {None}]
    BY <1>1, <1>2, <1>4
  <1>6. TypeOK'
    BY <1>1, <1>4, <1>5 DEF IInv, TypeOK
  <1>7. best'.b # None => Maintains(Plans[best'.b])
    BY <1>1 DEF IInv, BestOK
  <1>8. BestOK'
    BY <1>7 DEF BestOK, Maintains
  <1> QED
    BY <1>1, <1>3, <1>6, <1>8 DEF IInv, StagesOK, MembersOK, FallbackSurvives, Covered,
                                  NoFalseAlarm, DetectionOK, Violates, Detects, Actual,
                                  Nominal, Deviation

LEMMA FollowKeeps ==
  ASSUME StudyAssumption, IInv, NEW n \in 1 .. Len(Plans), NEW e \in Truths, Follow(n, e)
  PROVE  IInv'
  <1>1. /\ at = "sweep" /\ via = Len(Plans) /\ at' = "follow"
        /\ truth' = e /\ plan' = n /\ j' = 0
        /\ onset' = None /\ alarm' = None /\ violation' = None /\ bad' = 0
        /\ UNCHANGED <<hyp, states, admitted, unsafe, rescued, via, best, answer, member>>
    BY DEF Follow, sampling, family
  <1>2. PlanEnd \in Nat /\ Len(Plans) \in Nat /\ None \notin Int
    BY DEF StudyAssumption
  <1>3. TypeOK'
    BY <1>1, <1>2 DEF IInv, TypeOK
  <1>4. unsafe.w = {} /\ rescued.all = {}
    BY <1>1 DEF IInv, StagesOK
  <1> QED
    BY <1>1, <1>2, <1>3, <1>4 DEF IInv, StagesOK, MembersOK, BestOK, FallbackSurvives, Covered,
                                  NoFalseAlarm, DetectionOK, Maintains

\* Following: each sample is judged by the truth of the row.
LEMMA SampleKeeps ==
  ASSUME Arm, StudyAssumption, IInv, Sample
  PROVE  IInv'
  <1> DEFINE p == Plans[plan][j]
  <1>1. /\ at = "follow" /\ j <= PlanEnd /\ j' = j + 1
        /\ UNCHANGED <<at, hyp, truth, states, admitted, unsafe, rescued, via, best, plan,
                       answer, member>>
    BY DEF Sample, sampling, family
  <1>2. /\ onset' = FirstOf(onset, \E i \in Joint : Deviation(i, p) > 0)
        /\ alarm' = FirstOf(alarm, onset' # None /\ Detects(p))
        /\ violation' = FirstOf(violation, Violates(p))
        /\ bad' = bad + IF BrakeSafeUnder(p, truth, Payload) THEN 0 ELSE 1
    BY DEF Sample
  <1>3. /\ plan \in 1 .. Len(Plans) /\ plan # None /\ via = Len(Plans) /\ truth \in Truths
        /\ hyp \in Hypotheses /\ unsafe.w = {} /\ rescued.all = {}
    BY <1>1 DEF IInv, TypeOK, StagesOK
  <1>4. /\ j \in Nat /\ j \in 0 .. PlanEnd /\ PlanEnd \in Nat /\ bad \in 0 .. j /\ None \notin Int
        /\ truth \in Env /\ truth # None /\ Bound \in Box
    BY <1>1, <1>3 DEF IInv, TypeOK, StudyAssumption
  <1>5. p \in Point /\ p.q \in [Joint -> Int] /\ p.v \in [Joint -> Int]
        /\ DOMAIN Plans[plan] = 0 .. PlanEnd
    BY <1>3, <1>4, PlanIsTyped
  <1> HIDE DEF p
  <1>6. /\ onset \in 0 .. j - 1 \cup {None} /\ alarm \in 0 .. j - 1 \cup {None}
        /\ violation \in 0 .. j - 1 \cup {None}
    BY DEF IInv, TypeOK
  <1>7. \A o \in 0 .. j - 1 \cup {None} : \A now : FirstOf(o, now) \in 0 .. j' - 1 \cup {None}
    <2> SUFFICES ASSUME NEW o \in 0 .. j - 1 \cup {None}, NEW now
                 PROVE  FirstOf(o, now) \in 0 .. j' - 1 \cup {None}
      OBVIOUS
    <2>1. FirstOf(o, now) = j \/ FirstOf(o, now) = o
      BY DEF FirstOf
    <2> QED
      BY <1>1, <1>4, <2>1
  <1>8. TypeOK'
    <2>1. onset' \in 0 .. j' - 1 \cup {None}
      <3> DEFINE now == \E i \in Joint : Deviation(i, p) > 0
      <3>1. onset' = FirstOf(onset, now)
        BY <1>2
      <3> HIDE DEF now
      <3> QED
        BY <1>6, <1>7, <3>1
    <2>2. alarm' \in 0 .. j' - 1 \cup {None}
      <3> DEFINE now == onset' # None /\ Detects(p)
      <3>1. alarm' = FirstOf(alarm, now)
        BY <1>2
      <3> HIDE DEF now
      <3> QED
        BY <1>6, <1>7, <3>1
    <2>3. violation' \in 0 .. j' - 1 \cup {None}
      <3> DEFINE now == Violates(p)
      <3>1. violation' = FirstOf(violation, now)
        BY <1>2
      <3> HIDE DEF now
      <3> QED
        BY <1>6, <1>7, <3>1
    <2>4. j' \in 0 .. PlanEnd + 1 /\ bad' \in 0 .. j'
      BY <1>1, <1>2, <1>4
    <2> QED
      BY <1>1, <2>1, <2>2, <2>3, <2>4 DEF IInv, TypeOK
  <1>9. FallbackSurvives'
    <2> SUFFICES ASSUME Covered, plan = best.b PROVE bad' = 0
      BY <1>1, <1>3 DEF FallbackSurvives, Covered
    <2>1. bad = 0
      BY <1>3 DEF IInv, FallbackSurvives
    <2>2. InTerminalSet(p, Bound, Payload)
      BY <1>3, <1>4, <1>5 DEF IInv, BestOK, Maintains, p
    <2>3. BrakeSafeUnder(p, truth, Payload)
      BY <1>4, <1>5, <2>2, TerminalSetCovers DEF Covered
    <2> QED
      BY <1>2, <2>1, <2>3
  <1>10. NoFalseAlarm'
    <2> SUFFICES ASSUME Contains(hyp, truth) PROVE alarm' = None
      BY <1>1 DEF NoFalseAlarm
    <2>1. alarm = None
      BY <1>4 DEF IInv, NoFalseAlarm
    <2>2. ~Detects(p)
      BY <1>3, <1>5, TrueHypothesisIsSilent
    <2> QED
      BY <1>2, <2>1, <2>2 DEF FirstOf
  <1>11. /\ \A x : Violates(x)' <=> Violates(x)
         /\ \A x : Detects(x)' <=> Detects(x)
    BY <1>1 DEF Violates, Detects, Deviation, Actual, Nominal
  <1>12. DetectionOK'
    <2> SUFFICES ASSUME violation' # None
                 PROVE  /\ Violates(Plans[plan][violation'])
                        /\ onset' # None /\ onset' <= violation' /\ Detects(Plans[plan][violation'])
                             => alarm' # None /\ alarm' <= violation'
      BY <1>1, <1>11 DEF DetectionOK, Violates, Detects, Deviation, Actual, Nominal
    <2>1. CASE violation # None
      <3>1. violation' = violation /\ violation \in 0 .. j - 1
        BY <1>2, <1>6, <2>1 DEF FirstOf
      <3>2. /\ Violates(Plans[plan][violation])
            /\ onset # None /\ onset <= violation /\ Detects(Plans[plan][violation])
                 => alarm # None /\ alarm <= violation
        BY <2>1 DEF IInv, DetectionOK
      <3>3. onset' # None /\ onset' <= violation => onset # None /\ onset' = onset
        BY <1>2, <1>4, <3>1 DEF FirstOf
      <3>4. alarm # None => alarm' = alarm
        BY <1>2 DEF FirstOf
      <3> QED
        BY <3>1, <3>2, <3>3, <3>4
    <2>2. CASE violation = None
      <3>1. violation' = j /\ Violates(p)
        BY <1>2, <2>2 DEF FirstOf
      <3>2. onset' # None /\ Detects(p) => alarm' # None /\ alarm' <= j
        BY <1>2, <1>4, <1>6 DEF FirstOf
      <3> QED
        BY <3>1, <3>2 DEF p
    <2> QED
      BY <2>1, <2>2
  <1>13. StagesOK' /\ MembersOK' /\ BestOK'
    BY <1>1, <1>3 DEF IInv, StagesOK, MembersOK, BestOK, Maintains
  <1> QED
    BY <1>8, <1>9, <1>10, <1>12, <1>13 DEF IInv

\* The other steps leave alone what the invariant says of plans and truth.
LEMMA OthersKeep ==
  ASSUME StudyAssumption, IInv,
         \/ \E x \in Samples : Draw(x)
         \/ Admit
         \/ NextRow
         \/ \E x \in Samples, name \in {"brake", "retreat"} :
              \/ \E e \in Truths : JudgeContact(x, name, e)
              \/ \E m \in Payloads : JudgePayload(x, name, m)
              \/ Belongs(x, name)
         \/ UNCHANGED vars
  PROVE  IInv'
  <1>1. /\ UNCHANGED <<hyp, truth, via, best, plan, j, onset, alarm, violation, bad>>
        /\ UNCHANGED <<unsafe, rescued>>
    BY DEF Draw, Admit, NextRow, JudgeContact, JudgePayload, Belongs, vars, sampling, following,
           family
  <1>2. /\ at' = at \/ (at = "sample" /\ at' = "judge") \/ (at = "follow" /\ at' = "sweep")
        /\ states' \subseteq Samples /\ states \subseteq states'
    BY DEF Draw, Admit, NextRow, JudgeContact, JudgePayload, Belongs, vars, sampling, following,
           family, IInv, TypeOK
  <1>3. /\ admitted' \in [h : SUBSET states', w : SUBSET states']
        /\ \A x \in admitted'.w : InTerminalSet(x, Bound, Payload)
    <2>1. CASE Admit
      BY <2>1 DEF Admit
    <2>2. CASE ~Admit
      <3>1. admitted' = admitted
        BY <2>2 DEF Draw, Admit, NextRow, JudgeContact, JudgePayload, Belongs, vars, sampling,
                    following, family
      <3>2. admitted \in [h : SUBSET states', w : SUBSET states']
        BY <1>2 DEF IInv, TypeOK
      <3> QED
        BY <3>1, <3>2 DEF IInv, MembersOK
    <2> QED
      BY <2>1, <2>2
  <1>4. at # "judge" => unsafe.w = {} /\ rescued.all = {}
    BY DEF IInv, StagesOK
  <1>5. FallbackSurvives'
    <2>1. CASE Admit
      BY <1>1, <1>4, <2>1 DEF Admit, FallbackSurvives, Covered, IInv
    <2>2. CASE ~Admit
      <3>1. admitted' = admitted
        BY <2>2 DEF Draw, Admit, NextRow, JudgeContact, JudgePayload, Belongs, vars, sampling,
                    following, family
      <3> QED
        BY <1>1, <3>1 DEF FallbackSurvives, Covered, IInv
    <2> QED
      BY <2>1, <2>2
  <1>6. TypeOK'
    <2>1. /\ unsafe \in [h : SUBSET states', w : SUBSET states']
          /\ rescued \in [all : SUBSET states', ok : SUBSET states']
      BY <1>2 DEF IInv, TypeOK
    <2>2. at' \in {"sample", "judge", "sweep", "follow", "family"}
      BY <1>2 DEF IInv, TypeOK
    <2> QED
      BY <1>1, <1>2, <1>3, <2>1, <2>2 DEF IInv, TypeOK
  <1>7. StagesOK'
    BY <1>1, <1>2, <1>4 DEF IInv, StagesOK
  <1>8. MembersOK' /\ BestOK'
    BY <1>1, <1>3 DEF IInv, MembersOK, BestOK, Maintains
  <1>9. NoFalseAlarm' /\ DetectionOK'
    BY <1>1 DEF IInv, NoFalseAlarm, DetectionOK, Violates, Detects, Deviation, Actual, Nominal
  <1> QED
    BY <1>5, <1>6, <1>7, <1>8, <1>9 DEF IInv

THEOREM StudyInvariant ==
  ASSUME Arm
  PROVE  Spec => []IInv
  <1>1. Init => IInv
    BY InitHolds, StudyAssumption
  <1>2. IInv /\ [Next]_vars => IInv'
    <2> SUFFICES ASSUME IInv, [Next]_vars PROVE IInv'
      OBVIOUS
    <2>1. ASSUME NEW e \in Truths, Judge(e) PROVE IInv'
      BY <2>1, JudgeKeeps, StudyAssumption
    <2>2. CASE Sweep
      BY <2>2, SweepKeeps, StudyAssumption
    <2>3. ASSUME NEW n \in 1 .. Len(Plans), NEW e \in Truths, Follow(n, e) PROVE IInv'
      BY <2>3, FollowKeeps, StudyAssumption
    <2>4. CASE Sample
      BY <2>4, SampleKeeps, StudyAssumption
    <2>5. CASE \/ \E x \in Samples : Draw(x)
               \/ Admit
               \/ NextRow
               \/ \E x \in Samples, name \in {"brake", "retreat"} :
                    \/ \E e \in Truths : JudgeContact(x, name, e)
                    \/ \E m \in Payloads : JudgePayload(x, name, m)
                    \/ Belongs(x, name)
               \/ UNCHANGED vars
      BY <2>5, OthersKeep, StudyAssumption
    <2> QED
      BY <2>1, <2>2, <2>3, <2>4, <2>5 DEF Next
  <1> QED
    BY <1>1, <1>2, PTL DEF Spec

\* The variables keep their types.
THEOREM StudyTypes ==
  ASSUME Arm
  PROVE  Spec => []TypeOK
  <1>1. IInv => TypeOK
    BY DEF IInv
  <1> QED
    BY <1>1, StudyInvariant, PTL

\* Theorem 3, for every arm, bound, hypothesis, truth and plan: recovery computed
\* under a physical bound does not depend on the hypothesis.
THEOREM RecoveryIsHypothesisFree ==
  ASSUME Arm
  PROVE  Spec => []FallbackSurvives
  <1>1. IInv => FallbackSurvives
    BY DEF IInv
  <1> QED
    BY <1>1, StudyInvariant, PTL

\* A true hypothesis is never reported as false.
THEOREM TrueHypothesesAreKept ==
  ASSUME Arm
  PROVE  Spec => []NoFalseAlarm
  <1>1. IInv => NoFalseAlarm
    BY DEF IInv
  <1> QED
    BY <1>1, StudyInvariant, PTL

\* Theorem 2: a violation of a plan with more margin than the threshold is
\* detected no later than it happens.
THEOREM ViolationsAreDetected ==
  ASSUME Arm
  PROVE  Spec => []DetectedInTime
  <1>1. IInv => DetectedInTime
    <2> SUFFICES ASSUME IInv, violation # None, onset # None, onset <= violation,
                        \A n \in 0 .. PlanEnd, i \in Joint :
                          n >= onset => OverBeta(Margin(i, Plans[plan][n], hyp, Payload),
                                                 Plans[plan][violation].q, hyp, Asserted)
                 PROVE  alarm # None /\ alarm <= violation
      BY DEF DetectedInTime
    <2>1a. plan # None
      BY DEF IInv, StagesOK
    <2>1b. plan \in 1 .. Len(Plans)
      BY <2>1a DEF IInv, TypeOK
    <2>1c. truth \in Truths /\ at # "family" /\ hyp \in Hypotheses
      BY <2>1a DEF IInv, StagesOK
    <2>1. /\ plan # None /\ plan \in 1 .. Len(Plans) /\ truth \in Truths
          /\ at # "family" /\ hyp \in Hypotheses
      BY <2>1a, <2>1b, <2>1c
    <2>2. violation \in 0 .. PlanEnd /\ onset \in Nat
      BY StudyAssumption DEF IInv, TypeOK, StudyAssumption
    <2>3. Plans[plan][violation] \in Point
      BY <2>1, <2>2, PlanIsTyped, StudyAssumption
    <2>4. \A i \in Joint : OverBeta(Margin(i, Plans[plan][violation], hyp, Payload),
                                     Plans[plan][violation].q, hyp, Asserted)
      BY <2>2
    <2>5. Violates(Plans[plan][violation])
      BY DEF IInv, DetectionOK
    <2>6. Detects(Plans[plan][violation])
      BY <2>1, <2>3, <2>4, <2>5, ViolationIsDetected, StudyAssumption
    <2> QED
      BY <2>6 DEF IInv, DetectionOK
  <1> QED
    BY <1>1, StudyInvariant, PTL

-----------------------------------------------------------------------------
(***************************************************************************)
(* The family of fallbacks: its manoeuvres are sequences of points.        *)
(***************************************************************************)

\* A set of natural numbers has a least element.
LEMMA LeastOf ==
  ASSUME NEW S \in SUBSET Nat, S # {}
  PROVE  \E x \in S : \A y \in S : x <= y
  <1>1. IsWellFoundedOn({ss \in Nat \X Nat : ss[1] < ss[2]}, Nat)
    BY NatLessThanWellFounded DEF OpToRel
  <1>2. PICK x \in S : \A y \in S : ~(<<y, x>> \in {ss \in Nat \X Nat : ss[1] < ss[2]})
    BY <1>1, WFMin
  <1>3. \A y \in S : ~(y < x)
    BY <1>2
  <1> QED
    BY <1>3

\* A state that can rest in time has a first step by which it rests.
LEMMA RestStepExists ==
  ASSUME NEW x \in State, RestsInTime(x)
  PROVE  RestStep(x) \in 0 .. Horizon
  <1> DEFINE R == {r \in 0 .. Horizon : \A i \in Joint : Abs(x.v[i]) <= r * Accel}
  <1>0. Horizon \in Nat /\ Accel \in Nat
    BY BrakeAssumption
  <1>1. Last \in R
    BY <1>0, LastIsPositive DEF Last, RestsInTime
  <1>2. PICK r \in R : \A s \in R : r <= s
    <2>1. R \in SUBSET Nat
      BY <1>0
    <2> HIDE DEF R
    <2> QED
      BY <1>1, <2>1, LeastOf
  <1>3. ASSUME NEW n \in 0 .. r - 1
        PROVE  \E i \in Joint : Abs(x.v[i]) > n * Accel
    <2>1. n \in 0 .. Horizon /\ n \notin R
      BY <1>0, <1>2
    <2>2. PICK i \in Joint : ~(Abs(x.v[i]) <= n * Accel)
      BY <2>1
    <2>3. Abs(x.v[i]) \in Int /\ n * Accel \in Int
      BY <1>0 DEF State, Abs
    <2> QED
      BY <2>2, <2>3
  <1>4. \E s \in 0 .. Horizon :
          /\ \A i \in Joint : Abs(x.v[i]) <= s * Accel
          /\ \A n \in 0 .. s - 1 : \E i \in Joint : Abs(x.v[i]) > n * Accel
    BY <1>2, <1>3
  <1> QED
    BY <1>4 DEF RestStep

Recurs(g, m, S, s0, F) ==
  /\ g \in [0 .. m -> S]
  /\ \A n \in 0 .. m : g[n] = IF n = 0 THEN s0 ELSE F[<<n, g[n - 1]>>]

\* A recursion over the steps of a manoeuvre has a solution.
LEMMA RecursionExists ==
  ASSUME NEW S, NEW s0 \in S, NEW F \in [Nat \X S -> S], NEW out \in Nat
  PROVE  \E g : Recurs(g, out, S, s0, F)
  <1> DEFINE Solves(g, m) == Recurs(g, m, S, s0, F)
             Unsolved == {m \in Nat : ~(\E g : Solves(g, m))}
  <1>1. ASSUME Unsolved # {} PROVE FALSE
    <2>1. Unsolved \in SUBSET Nat
      OBVIOUS
    <2>2. PICK m \in Unsolved : \A k \in Unsolved : m <= k
      <3> HIDE DEF Unsolved
      <3> QED
        BY <1>1, <2>1, LeastOf
    <2>3. m \in Nat /\ ~(\E g : Solves(g, m))
      OBVIOUS
    <2>4. CASE m = 0
      <3>1. Solves([n \in 0 .. 0 |-> s0], 0)
        BY DEF Recurs
      <3> QED
        BY <2>3, <2>4, <3>1
    <2>5. CASE m # 0
      <3>0. m - 1 \in Nat
        BY <2>3, <2>5
      <3>1. m - 1 \in Nat /\ m - 1 \notin Unsolved
        <4>1. ~(m <= m - 1)
          BY <2>3
        <4> HIDE DEF Unsolved
        <4> QED
          BY <2>2, <3>0, <4>1
      <3>2. PICK g : Solves(g, m - 1)
        BY <3>1
      <3> DEFINE h == [n \in 0 .. m |-> IF n < m THEN g[n] ELSE F[<<m, g[m - 1]>>]]
      <3>3. g[m - 1] \in S /\ F[<<m, g[m - 1]>>] \in S
        BY <2>3, <3>1, <3>2 DEF Recurs
      <3>4. h \in [0 .. m -> S]
        BY <2>3, <3>2, <3>3 DEF Recurs
      <3>5. ASSUME NEW n \in 0 .. m
            PROVE  h[n] = IF n = 0 THEN s0 ELSE F[<<n, h[n - 1]>>]
        <4>1. CASE n < m
          <5>1. n \in 0 .. m - 1 /\ h[n] = g[n] /\ (n # 0 => h[n - 1] = g[n - 1])
            BY <2>3, <4>1
          <5> QED
            BY <3>2, <5>1 DEF Recurs
        <4>2. CASE n = m
          <5>1. h[n] = F[<<m, g[m - 1]>>] /\ h[n - 1] = g[m - 1] /\ n # 0
            BY <2>3, <2>5, <4>2
          <5> QED
            BY <4>2, <5>1
        <4> QED
          BY <2>3, <4>1, <4>2
      <3> HIDE DEF h
      <3>6. Solves(h, m)
        BY <3>4, <3>5 DEF Recurs
      <3> QED
        BY <2>3, <3>6
    <2> QED
      BY <2>4, <2>5
  <1>2. out \notin Unsolved
    BY <1>1
  <1> QED
    BY <1>2

-----------------------------------------------------------------------------
(***************************************************************************)
(* The way out.                                                            *)
(***************************************************************************)
Still(q) == [q |-> q, v |-> [i \in Joint |-> 0]]

\* Step n of the way out, from y.
Pushed(y, n, u, out) ==
  LET w == [i \in Joint |-> y.v[i] + Thrust(n - 1, out) * u[i]]
  IN [q |-> [i \in Joint |-> y.q[i] + 2 * w[i] + Thrust(n - 1, out) * u[i]], v |-> w]

LEMMA PushedIsState ==
  ASSUME NEW y \in State, NEW n \in Nat, NEW u \in [Joint -> Int], NEW out \in Nat
  PROVE  Pushed(y, n, u, out) \in State
  <1> DEFINE t == Thrust(n - 1, out)
  <1>1. t \in Int
    BY BrakeAssumption DEF Thrust
  <1> HIDE DEF t
  <1>2. ASSUME NEW i \in Joint
        PROVE  /\ y.v[i] + t * u[i] \in Int
               /\ y.q[i] + 2 * (y.v[i] + t * u[i]) + t * u[i] \in Int
    <2>1. y.q[i] \in Int /\ y.v[i] \in Int /\ t * u[i] \in Int
      BY <1>1 DEF State
    <2> QED
      BY <2>1
  <1> DEFINE w == [i \in Joint |-> y.v[i] + t * u[i]]
             p == [i \in Joint |-> y.q[i] + 2 * w[i] + t * u[i]]
  <1>3. w \in [Joint -> Int] /\ p \in [Joint -> Int]
    BY <1>2
  <1>4. Pushed(y, n, u, out) = [q |-> p, v |-> w]
    BY DEF Pushed, t
  <1> HIDE DEF w, p
  <1> QED
    BY <1>3, <1>4 DEF State

\* The way out is what its recursion says.
LEMMA WithdrawalSolves ==
  ASSUME NEW q \in [Joint -> Int], NEW u \in [Joint -> Int], NEW out \in Nat
  PROVE  Withdrawal(q, u, out) =
           [n \in 0 .. out |-> IF n = 0 THEN Still(q)
                               ELSE Pushed(Withdrawal(q, u, out)[n - 1], n, u, out)]
  <1> DEFINE F == [ny \in Nat \X State |-> Pushed(ny[2], ny[1], u, out)]
             Solution(g) == g = [n \in 0 .. out |-> IF n = 0 THEN Still(q)
                                                    ELSE Pushed(g[n - 1], n, u, out)]
  <1>1. F \in [Nat \X State -> State]
    BY PushedIsState
  <1>2. Still(q) \in State
    BY DEF Still, State
  <1>3. PICK g : Recurs(g, out, State, Still(q), F)
    <2> HIDE DEF F
    <2> QED
      BY <1>1, <1>2, RecursionExists
  <1>4. ASSUME NEW n \in 0 .. out
        PROVE  g[n] = IF n = 0 THEN Still(q) ELSE Pushed(g[n - 1], n, u, out)
    <2>1. CASE n # 0
      <3>1. g[n - 1] \in State /\ n \in Nat
        BY <1>3, <2>1 DEF Recurs
      <3> QED
        BY <1>3, <2>1, <3>1 DEF Recurs
    <2> QED
      BY <1>3, <2>1 DEF Recurs
  <1>5. Solution(g)
    BY <1>3, <1>4 DEF Recurs
  <1>6. Withdrawal(q, u, out) = CHOOSE f : Solution(f)
    BY DEF Withdrawal, Still, Pushed
  <1> HIDE DEF Solution
  <1>7. Solution(Withdrawal(q, u, out))
    BY <1>5, <1>6
  <1> QED
    BY <1>7 DEF Solution

\* Each state of the way out is a state.
LEMMA WithdrawalIsTyped ==
  ASSUME NEW q \in [Joint -> Int], NEW u \in [Joint -> Int], NEW out \in Nat
  PROVE  \A n \in 0 .. out : Withdrawal(q, u, out)[n] \in State
  <1> DEFINE W == Withdrawal(q, u, out)
             Wrong == {n \in 0 .. out : W[n] \notin State}
  <1>1. \A n \in 0 .. out : W[n] = IF n = 0 THEN Still(q) ELSE Pushed(W[n - 1], n, u, out)
    <2>1. W = [n \in 0 .. out |-> IF n = 0 THEN Still(q) ELSE Pushed(W[n - 1], n, u, out)]
      BY WithdrawalSolves
    <2> HIDE DEF W
    <2> QED
      BY <2>1
  <1>2. Wrong \in SUBSET Nat
    OBVIOUS
  <1> HIDE DEF W
  <1>3. SUFFICES ASSUME Wrong # {} PROVE FALSE
    BY DEF W
  <1>4. PICK n \in Wrong : \A k \in Wrong : n <= k
    <2> HIDE DEF Wrong
    <2> QED
      BY <1>2, <1>3, LeastOf
  <1>5. n \in 0 .. out /\ W[n] \notin State
    OBVIOUS
  <1>6. CASE n = 0
    BY <1>1, <1>5, <1>6 DEF Still, State
  <1>7. CASE n # 0
    <2>1. n - 1 \in 0 .. out /\ ~(n <= n - 1) /\ n \in Nat
      BY <1>5, <1>7
    <2>2. W[n - 1] \in State
      BY <1>4, <2>1
    <2> QED
      BY <1>1, <1>5, <1>7, <2>1, <2>2, PushedIsState
  <1> QED
    BY <1>6, <1>7

-----------------------------------------------------------------------------
(***************************************************************************)
(* The points of a manoeuvre.                                              *)
(***************************************************************************)
LEMMA ExtendedBrakeIsTyped ==
  ASSUME StudyAssumption, NEW x \in State
  PROVE  /\ DOMAIN ExtendedBrake(x, RetreatSteps) = 0 .. RetreatSteps - 1
         /\ \A k \in 0 .. RetreatSteps - 1 : ExtendedBrake(x, RetreatSteps)[k] \in Point
  <1>1. x.q \in [Joint -> Int] /\ x.v \in [Joint -> Int]
    BY DEF State
  <1>2. \A k \in 0 .. Last : BrakePoints(x)[k] \in Point
    BY <1>1, BrakeIsTyped
  <1>3. ASSUME NEW k \in 0 .. RetreatSteps - 1
        PROVE  ExtendedBrake(x, RetreatSteps)[k] \in Point
    <2> DEFINE final == BrakePoints(x)[Last]
    <2>1. final \in Point
      BY <1>2, LastIsPositive
    <2> HIDE DEF final
    <2>2. [final EXCEPT !.a = [i \in Joint |-> 0]] \in Point
      <3> DEFINE none == [i \in Joint |-> 0]
      <3>1. none \in [Joint -> Int]
        OBVIOUS
      <3> HIDE DEF none
      <3> QED
        BY <2>1, <3>1 DEF Point, none
    <2>3. k < Horizon => k \in 0 .. Last
      BY BrakeAssumption DEF Last
    <2>4. ExtendedBrake(x, RetreatSteps)[k] =
            IF k < Horizon THEN BrakePoints(x)[k] ELSE [final EXCEPT !.a = [i \in Joint |-> 0]]
      BY DEF ExtendedBrake, final
    <2> QED
      BY <1>2, <2>2, <2>3, <2>4
  <1> QED
    BY <1>3 DEF ExtendedBrake

\* A member of the family is as long as the other and made of points.
LEMMA ManoeuvreIsTyped ==
  ASSUME Arm, StudyAssumption, NEW x \in State, RestsInTime(x), NEW name \in {"brake", "retreat"}
  PROVE  /\ DOMAIN Manoeuvre(x, name) = 0 .. RetreatSteps - 1
         /\ \A k \in 0 .. RetreatSteps - 1 : Manoeuvre(x, name)[k] \in Point
  <1> DEFINE brake == ExtendedBrake(x, RetreatSteps)
             r == RestStep(x)
             out == RetreatSteps - r
             u == [i \in Joint |-> Outward(i, brake[r].q)]
             away == Withdrawal(brake[r].q, u, out)
             idle == r >= RetreatSteps - 2 \/ \A i \in Joint : u[i] = 0
  <1>1. /\ DOMAIN brake = 0 .. RetreatSteps - 1
        /\ \A k \in 0 .. RetreatSteps - 1 : brake[k] \in Point
    BY ExtendedBrakeIsTyped
  <1>2. CASE name = "brake"
    BY <1>1, <1>2 DEF Manoeuvre
  <1>3. CASE name = "retreat" /\ idle
    BY <1>1, <1>3 DEF Manoeuvre, RetreatPoints
  <1>4. CASE name = "retreat" /\ ~idle
    <2>1. r \in 0 .. Horizon /\ RetreatSteps \in Nat /\ Horizon \in Nat
      BY RestStepExists, BrakeAssumption DEF StudyAssumption
    <2>2. r \in 0 .. RetreatSteps - 1 /\ out \in Nat
      BY <1>4, <2>1
    <2>3. brake[r].q \in [Joint -> Int]
      BY <1>1, <2>2 DEF Point
    <2>4. u \in [Joint -> Int]
      BY <2>3 DEF Arm
    <2> DEFINE push(k) == [i \in Joint |-> Thrust(k - r, out) * u[i]]
               point(k) == [q |-> away[k - r].q, v |-> away[k - r].v, a |-> push(k)]
    <2>5. \A n \in 0 .. out : away[n] \in State
      <3> HIDE DEF out, u
      <3> QED
        BY <2>2, <2>3, <2>4, WithdrawalIsTyped
    <2>6. Manoeuvre(x, name) = [k \in 0 .. RetreatSteps - 1 |-> IF k < r THEN brake[k] ELSE point(k)]
      BY <1>4 DEF Manoeuvre, RetreatPoints
    <2>7. ASSUME NEW k \in 0 .. RetreatSteps - 1, ~(k < r)
          PROVE  point(k) \in Point
      <3>1. k - r \in 0 .. out
        BY <2>1, <2>2, <2>7
      <3>2. Thrust(k - r, out) \in Int
        BY BrakeAssumption DEF Thrust
      <3> HIDE DEF away, u, out
      <3>3. away[k - r].q \in [Joint -> Int] /\ away[k - r].v \in [Joint -> Int]
        BY <2>5, <3>1 DEF State
      <3>4. push(k) \in [Joint -> Int]
        BY <2>4, <3>2
      <3> QED
        BY <3>3, <3>4 DEF Point
    <2> HIDE DEF point, brake, r
    <2> QED
      BY <1>1, <2>6, <2>7
  <1> QED
    BY <1>2, <1>3, <1>4

-----------------------------------------------------------------------------
(***************************************************************************)
(* The successor along the brake.  Its brake runs through the points the   *)
(* brake before it has left, then stays where that one came to rest.       *)
(***************************************************************************)
LEMMA AfterIsState ==
  ASSUME NEW x \in State, NEW k \in Nat
  PROVE  After(x, k) \in State
  <1>1. ASSUME NEW i \in Joint
        PROVE  /\ x.q[i] + Sign(x.v[i]) * Travel(Abs(x.v[i]), k) \in Int
               /\ Sign(x.v[i]) * Speed(Abs(x.v[i]), k) \in Int
    <2>1. x.q[i] \in Int /\ Sign(x.v[i]) \in Int /\ Abs(x.v[i]) \in Nat
      BY DEF State, Sign, Abs
    <2>2. Travel(Abs(x.v[i]), k) \in Int /\ Speed(Abs(x.v[i]), k) \in Int
      BY <2>1, ClosedFormIsTyped
    <2> QED
      BY <2>1, <2>2
  <1> QED
    BY <1>1 DEF After, State

\* Braking on from the next state is the rest of the brake.
LEMMA BrakeGoesOn ==
  ASSUME NEW x \in State
  PROVE  \A k \in Nat : After(After(x, 1), k) = After(x, k + 1)
  <1> DEFINE y == After(x, 1)
             Wrong == {k \in Nat : After(y, k) # After(x, k + 1)}
  <1>1. y \in State
    BY AfterIsState
  <1> HIDE DEF y
  <1>2. SUFFICES ASSUME Wrong # {} PROVE FALSE
    BY DEF y
  <1>3. PICK k \in Wrong : \A l \in Wrong : k <= l
    <2>1. Wrong \in SUBSET Nat
      OBVIOUS
    <2> HIDE DEF Wrong
    <2> QED
      BY <1>2, <2>1, LeastOf
  <1>4. k \in Nat /\ After(y, k) # After(x, k + 1)
    OBVIOUS
  <1>5. CASE k = 0
    BY <1>1, <1>4, <1>5, ClosedFormStarts DEF y
  <1>6. CASE k # 0
    <2>1. k - 1 \in Nat /\ ~(k <= k - 1) /\ (k - 1) + 1 = k
      BY <1>4, <1>6
    <2>2. After(y, k - 1) = After(x, k)
      BY <1>3, <2>1
    <2>3. Step(After(y, k - 1)) = After(y, k)
      BY <1>1, <2>1, ClosedFormSteps
    <2>4. Step(After(x, k)) = After(x, k + 1)
      BY <1>4, ClosedFormSteps
    <2> QED
      BY <1>4, <2>2, <2>3, <2>4
  <1> QED
    BY <1>5, <1>6

\* From the last step of the horizon on, a state that rests in time is at rest.
LEMMA BrakeEnds ==
  ASSUME NEW x \in State, RestsInTime(x)
  PROVE  /\ After(x, Horizon) = After(x, Last)
         /\ \A i \in Joint : After(x, Last).v[i] = 0
  <1>1. ASSUME NEW i \in Joint PROVE After(x, Last).v[i] = 0
    <2> DEFINE s == Abs(x.v[i])
               t == Last * Accel
    <2>1. s \in Nat /\ t \in Nat /\ s <= t
      BY LastIsPositive, BrakeAssumption DEF State, Abs, RestsInTime
    <2>2. Speed(s, Last) = IF t <= s THEN s - t ELSE 0
      BY DEF Speed
    <2> HIDE DEF s, t
    <2>3. Speed(s, Last) = 0
      BY <2>1, <2>2
    <2>4. After(x, Last).v[i] = Sign(x.v[i]) * Speed(s, Last)
      BY DEF After, s
    <2>5. Sign(x.v[i]) \in Int
      BY DEF Sign
    <2> QED
      BY <2>3, <2>4, <2>5
  <1>2. After(x, Last) \in State
    BY LastIsPositive, AfterIsState
  <1>3. Step(After(x, Last)) = After(x, Last + 1) /\ Last + 1 = Horizon
    BY LastIsPositive, BrakeAssumption, ClosedFormSteps DEF Last
  <1> QED
    BY <1>1, <1>2, <1>3, RestIsFixed

LEMMA SuccessorRestsInTime ==
  ASSUME NEW x \in State, RestsInTime(x)
  PROVE  RestsInTime(After(x, 1))
  <1>1. After(x, 1) = Step(x)
    BY ClosedFormStarts, ClosedFormSteps
  <1> SUFFICES ASSUME NEW i \in Joint PROVE Abs(Step(x).v[i]) <= Last * Accel
    BY <1>1 DEF RestsInTime
  <1>2. x.v[i] \in Int /\ Step(x).v[i] = VelocityAfter(x.v[i])
    BY DEF State, Step
  <1>3. Abs(x.v[i]) <= Last * Accel /\ Last * Accel \in Nat
    BY LastIsPositive, BrakeAssumption DEF RestsInTime
  <1>4. Abs(Step(x).v[i]) <= Abs(x.v[i])
    BY <1>2, OneStep, BrakeAssumption DEF Abs
  <1>5. Abs(Step(x).v[i]) \in Int /\ Abs(x.v[i]) \in Int
    BY <1>2, OneStep DEF Abs
  <1> HIDE DEF Last
  <1> QED
    BY <1>3, <1>4, <1>5

\* What the margins say of a brake they say of the brake of its second point.
LEMMA SuccessorIsFeasible ==
  ASSUME StudyAssumption, NEW x \in State, RestsInTime(x), NEW box, NEW m, NEW level,
         Rho(ExtendedBrake(x, RetreatSteps), box, m, level)
  PROVE  LET second == ExtendedBrake(x, RetreatSteps)[1]
         IN  Rho(ExtendedBrake([q |-> second.q, v |-> second.v], RetreatSteps), box, m, level)
  <1> DEFINE second == ExtendedBrake(x, RetreatSteps)[1]
             y == After(x, 1)
  <1>0. /\ RetreatSteps \in Nat /\ RetreatSteps >= Horizon /\ Horizon >= 2 /\ Horizon \in Nat
        /\ Last = Horizon - 1 /\ Last \in Nat
    BY BrakeAssumption DEF StudyAssumption, Last
  <1>1. [q |-> second.q, v |-> second.v] = y
    <2>1. second = Braking(y)
      BY <1>0 DEF ExtendedBrake, BrakePoints
    <2>2. second.q = y.q /\ second.v = y.v
      BY <2>1 DEF Braking
    <2>3. y = [q |-> y.q, v |-> y.v]
      BY DEF After
    <2> QED
      BY <2>2, <2>3
  <1>2. y \in State
    BY AfterIsState
  <1>3. \A k \in 0 .. Last - 1 : BrakePoints(y)[k] = BrakePoints(x)[k + 1]
    <2> SUFFICES ASSUME NEW k \in 0 .. Last - 1
                 PROVE  BrakePoints(y)[k] = BrakePoints(x)[k + 1]
      OBVIOUS
    <2>1. k \in Nat /\ k \in 0 .. Last /\ k + 1 \in 0 .. Last
      BY <1>0
    <2>2. After(y, k) = After(x, k + 1)
      BY <2>1, BrakeGoesOn
    <2> QED
      BY <2>1, <2>2 DEF BrakePoints
  <1>4. BrakePoints(y)[Last] = BrakePoints(x)[Last]
    <2>1. After(y, Last) = After(x, Last + 1) /\ Last + 1 = Horizon
      BY <1>0, BrakeGoesOn
    <2>2. After(y, Last) = After(x, Last)
      BY <2>1, BrakeEnds
    <2> QED
      BY <1>0, <2>2 DEF BrakePoints
  <1> DEFINE ey == ExtendedBrake(y, RetreatSteps)
             ex == ExtendedBrake(x, RetreatSteps)
  <1>5. ASSUME NEW k \in 0 .. RetreatSteps - 1
        PROVE  \E l \in 0 .. RetreatSteps - 1 : ey[k] = ex[l]
    <2>0. k \in Nat
      BY <1>0
    <2>1. CASE k < Last
      <3>1. /\ k \in 0 .. Last - 1 /\ k + 1 \in 0 .. RetreatSteps - 1
            /\ k < Horizon /\ k + 1 < Horizon
        BY <1>0, <2>0, <2>1
      <3>2. ey[k] = BrakePoints(y)[k] /\ ex[k + 1] = BrakePoints(x)[k + 1]
        BY <3>1 DEF ExtendedBrake
      <3> QED
        BY <1>3, <3>1, <3>2
    <2>2. CASE k = Last
      <3>1. k < Horizon
        BY <1>0, <2>2
      <3>2. ey[k] = BrakePoints(y)[k] /\ ex[k] = BrakePoints(x)[k]
        BY <3>1 DEF ExtendedBrake
      <3> QED
        BY <1>4, <2>2, <3>2
    <2>3. CASE k > Last
      <3>1. ~(k < Horizon)
        BY <1>0, <2>0, <2>3
      <3>2. ey[k] = ex[k]
        BY <1>4, <3>1 DEF ExtendedBrake
      <3> QED
        BY <3>2
    <2> QED
      BY <1>0, <2>0, <2>1, <2>2, <2>3
  <1>6. DOMAIN ey = 0 .. RetreatSteps - 1 /\ DOMAIN ex = 0 .. RetreatSteps - 1
    BY DEF ExtendedBrake
  <1> HIDE DEF ey, ex
  <1>7. Rho(ey, box, m, level)
    <2> SUFFICES ASSUME NEW k \in 0 .. RetreatSteps - 1, NEW i \in Joint
                 PROVE  Margin(i, ey[k], box, m) >= level
      BY <1>6 DEF Rho
    <2>1. PICK l \in 0 .. RetreatSteps - 1 : ey[k] = ex[l]
      BY <1>5
    <2>2. Margin(i, ex[l], box, m) >= level
      BY <1>6 DEF Rho, ex
    <2> QED
      BY <2>1, <2>2
  <1> QED
    BY <1>1, <1>7 DEF ey

-----------------------------------------------------------------------------
(***************************************************************************)
(* The inductive invariant of the family's study: an answer and a          *)
(* membership say what the margins at the asked payload say of that state  *)
(* and that fallback.                                                      *)
(***************************************************************************)
Clears(x, name, box) == Rho(Manoeuvre(x, name), box, Payload, 0)

DrawnOK == at = "family" => \A x \in states : RestsInTime(x)

AnswerOK ==
  answer # None /\ answer.truth # None =>
    /\ answer.truth \in Truths
    /\ answer.saved <=> Clears(answer.x, answer.name, PointBox(answer.truth))

MemberOK ==
  member # None =>
    /\ member.x \in Samples /\ RestsInTime(member.x) /\ member.name \in {"brake", "retreat"}
    /\ member.ok <=> Clears(member.x, member.name, Bound)
    /\ member.name = "brake" /\ member.ok => member.next

FamilyInv == DrawnOK /\ AnswerOK /\ MemberOK

THEOREM FamilyInvariant == Spec => []FamilyInv
  <1>1. Init => FamilyInv
    BY DEF Init, FamilyInv, DrawnOK, AnswerOK, MemberOK
  <1>2. FamilyInv /\ [Next]_vars => FamilyInv'
    <2> SUFFICES ASSUME FamilyInv, [Next]_vars PROVE FamilyInv'
      OBVIOUS
    <2>1. ASSUME NEW x \in Samples, Draw(x) PROVE FamilyInv'
      <3>1. /\ at' = at /\ answer' = answer /\ member' = member /\ states' = states \cup {x}
            /\ at = "family" => RestsInTime(x)
        BY <2>1 DEF Draw, family
      <3> QED
        BY <3>1 DEF FamilyInv, DrawnOK, AnswerOK, MemberOK
    <2>2. CASE \/ Admit \/ Sweep \/ Sample \/ NextRow
               \/ \E e \in Truths : Judge(e)
               \/ \E n \in 1 .. Len(Plans), e \in Truths : Follow(n, e)
               \/ UNCHANGED vars
      <3>1. /\ answer' = answer /\ member' = member /\ states' = states
            /\ at' = "family" => at = "family"
        BY <2>2 DEF Admit, Sweep, Sample, NextRow, Judge, Follow, vars, sampling, family
      <3> QED
        BY <3>1 DEF FamilyInv, DrawnOK, AnswerOK, MemberOK
    <2>3. ASSUME NEW x \in Samples, NEW name \in {"brake", "retreat"}, NEW e \in Truths,
                 JudgeContact(x, name, e)
          PROVE  FamilyInv'
      <3>1. /\ at' = at /\ member' = member /\ states' = states
            /\ answer'.x = x /\ answer'.name = name /\ answer'.truth = e
            /\ answer'.saved = Rho(Manoeuvre(x, name), PointBox(e), Payload, 0)
        BY <2>3 DEF JudgeContact, sampling
      <3>2. answer'.saved <=> Clears(x, name, PointBox(e))
        BY <3>1 DEF Clears
      <3>3. AnswerOK'
        BY <3>1, <3>2 DEF AnswerOK
      <3> QED
        BY <3>1, <3>3 DEF FamilyInv, DrawnOK, MemberOK
    <2>4. ASSUME NEW x \in Samples, NEW name \in {"brake", "retreat"}, NEW m \in Payloads,
                 JudgePayload(x, name, m)
          PROVE  FamilyInv'
      <3>1. at' = at /\ member' = member /\ states' = states /\ answer'.truth = None
        BY <2>4 DEF JudgePayload, sampling
      <3> QED
        BY <3>1 DEF FamilyInv, DrawnOK, AnswerOK, MemberOK
    <2>5. ASSUME NEW x \in Samples, NEW name \in {"brake", "retreat"}, Belongs(x, name)
          PROVE  FamilyInv'
      <3> DEFINE second == Manoeuvre(x, name)[1]
                 y == [q |-> second.q, v |-> second.v]
      <3>1. /\ at' = at /\ answer' = answer /\ states' = states /\ at = "family" /\ x \in states
            /\ member' = [x |-> x, name |-> name, ok |-> Feasible(x, name),
                          next |-> Feasible(y, name)]
        BY <2>5 DEF Belongs, sampling
      <3>2. x \in State /\ RestsInTime(x)
        BY <3>1, StudyAssumption DEF FamilyInv, DrawnOK, StudyAssumption
      <3>3. \A z : Feasible(z, name) <=> Clears(z, name, Bound)
        BY DEF Feasible, Clears
      <3>4. name = "brake" /\ Feasible(x, name) => Feasible(y, name)
        <4> SUFFICES ASSUME name = "brake", Clears(x, "brake", Bound)
                     PROVE  Clears(y, "brake", Bound)
          BY <3>3
        <4>1. \A z : Manoeuvre(z, "brake") = ExtendedBrake(z, RetreatSteps)
          BY DEF Manoeuvre
        <4>2. Rho(ExtendedBrake(x, RetreatSteps), Bound, Payload, 0)
          BY <4>1 DEF Clears
        <4>3. y = [q |-> ExtendedBrake(x, RetreatSteps)[1].q,
                   v |-> ExtendedBrake(x, RetreatSteps)[1].v]
          BY <4>1
        <4>4. Rho(ExtendedBrake(y, RetreatSteps), Bound, Payload, 0)
          BY <3>2, <4>2, <4>3, SuccessorIsFeasible, StudyAssumption
        <4> QED
          BY <4>1, <4>4 DEF Clears
      <3> HIDE DEF y
      <3>5. /\ member'.x = x /\ member'.name = name /\ member'.ok = Feasible(x, name)
            /\ member'.next = Feasible(y, name)
        BY <3>1
      <3>6. MemberOK'
        BY <3>2, <3>3, <3>4, <3>5 DEF MemberOK
      <3> QED
        BY <3>1, <3>6 DEF FamilyInv, DrawnOK, AnswerOK
    <2> QED
      BY <2>1, <2>2, <2>3, <2>4, <2>5 DEF Next
  <1> QED
    BY <1>1, <1>2, PTL DEF Spec

\* Where the whole box clears, so does each environment in it.
LEMMA ClearingCovers ==
  ASSUME Arm, StudyAssumption, NEW x \in State, RestsInTime(x), NEW name \in {"brake", "retreat"},
         NEW e \in Env, Contains(Bound, e), Clears(x, name, Bound)
  PROVE  Clears(x, name, PointBox(e))
  <1>1. /\ DOMAIN Manoeuvre(x, name) = 0 .. RetreatSteps - 1
        /\ \A k \in 0 .. RetreatSteps - 1 : Manoeuvre(x, name)[k] \in Point
    BY ManoeuvreIsTyped
  <1> SUFFICES ASSUME NEW k \in 0 .. RetreatSteps - 1, NEW i \in Joint
               PROVE  Margin(i, Manoeuvre(x, name)[k], PointBox(e), Payload) >= 0
    BY <1>1 DEF Clears, Rho
  <1>2. Manoeuvre(x, name)[k] \in Point /\ Payload \in Int /\ Bound \in Box
    BY <1>1 DEF StudyAssumption
  <1>3. Margin(i, Manoeuvre(x, name)[k], Bound, Payload) >= 0
    BY <1>1 DEF Clears, Rho
  <1> QED
    BY <1>2, <1>3, MarginCovers

\* Part F's membership under the physical bound is part E's survival under every
\* surface within it, for either fallback, though it judges the corners of the box only; and
\* the brake's set is closed under the brake's first step.
THEOREM MembersAreSaved ==
  ASSUME Arm
  PROVE  Spec => []MembersSurvive
  <1>1. FamilyInv => MembersSurvive
    <2> SUFFICES ASSUME FamilyInv, member # None, member.ok
                 PROVE  MembersSurvive
      BY DEF MembersSurvive
    <2>1. /\ member.x \in Samples /\ RestsInTime(member.x) /\ member.name \in {"brake", "retreat"}
          /\ Clears(member.x, member.name, Bound)
          /\ member.name = "brake" => member.next
      BY DEF FamilyInv, MemberOK
    <2>2. ASSUME answer # None, answer.x = member.x, answer.name = member.name,
                 answer.truth # None, Contains(Bound, answer.truth)
          PROVE  answer.saved
      <3>1. /\ answer.truth \in Truths
            /\ answer.saved <=> Clears(answer.x, answer.name, PointBox(answer.truth))
        BY <2>2 DEF FamilyInv, AnswerOK
      <3>2. answer.truth \in Env /\ member.x \in State
        BY <2>1, <3>1, StudyAssumption DEF StudyAssumption
      <3>3. Clears(member.x, member.name, PointBox(answer.truth))
        BY <2>1, <2>2, <3>2, ClearingCovers, StudyAssumption
      <3> QED
        BY <2>2, <3>1, <3>3
    <2> QED
      BY <2>1, <2>2 DEF MembersSurvive
  <1> QED
    BY <1>1, FamilyInvariant, PTL

-----------------------------------------------------------------------------
(***************************************************************************)
(* How a retreat ends.  Half of the way out accelerates; the rest but the  *)
(* last step decelerates, one step too few where the way out is even.      *)
(***************************************************************************)
Left(x) == RetreatSteps - RestStep(x)

RestingPlace(x) == ExtendedBrake(x, RetreatSteps)[RestStep(x)].q

\* The steps by which pushes outwards outnumber pushes inwards before step n.
Surplus(n, out) == IF n <= out \div 2 THEN n ELSE 2 * (out \div 2) - n

LEMMA SurplusSteps ==
  ASSUME NEW out \in Nat, NEW n \in Nat, n # 0, n <= out - 1
  PROVE  /\ Surplus(n - 1, out) \in Int /\ Surplus(n, out) \in Int
         /\ Surplus(n, out) * Accel = Surplus(n - 1, out) * Accel + Thrust(n - 1, out)
  <1> DEFINE h == out \div 2
  <1>1. h \in Nat /\ Accel \in Nat
    BY BrakeAssumption
  <1>2. Thrust(n - 1, out) = IF n - 1 < h THEN Accel ELSE -Accel
    BY DEF Thrust
  <1>3. /\ Surplus(n, out) = IF n <= h THEN n ELSE 2 * h - n
        /\ Surplus(n - 1, out) = IF n - 1 <= h THEN n - 1 ELSE 2 * h - (n - 1)
    BY DEF Surplus
  <1> HIDE DEF h
  <1>4. /\ Surplus(n, out) \in Int /\ Surplus(n - 1, out) \in Int
        /\ n - 1 < h => Surplus(n, out) = Surplus(n - 1, out) + 1
        /\ ~(n - 1 < h) => Surplus(n, out) = Surplus(n - 1, out) - 1
    BY <1>1, <1>3
  <1> DEFINE s == Surplus(n - 1, out)
  <1>5. s \in Int /\ (s + 1) * Accel = s * Accel + Accel /\ (s - 1) * Accel = s * Accel - Accel
    BY <1>1, <1>4
  <1> QED
    BY <1>1, <1>2, <1>4, <1>5

\* The speed of joint i along the way out.
Paced(away, u, out, i) ==
  \A n \in 0 .. out - 1 : away[n].v[i] = Surplus(n, out) * Accel * u[i]

LEMMA WithdrawalSpeed ==
  ASSUME NEW q \in [Joint -> Int], NEW u \in [Joint -> Int], NEW out \in Nat, NEW i \in Joint
  PROVE  Paced(Withdrawal(q, u, out), u, out, i)
  <1> DEFINE W == Withdrawal(q, u, out)
             Wrong == {n \in 0 .. out - 1 : W[n].v[i] # Surplus(n, out) * Accel * u[i]}
  <1>1. \A n \in 0 .. out : W[n] = IF n = 0 THEN Still(q) ELSE Pushed(W[n - 1], n, u, out)
    <2>1. W = [n \in 0 .. out |-> IF n = 0 THEN Still(q) ELSE Pushed(W[n - 1], n, u, out)]
      BY WithdrawalSolves
    <2> HIDE DEF W
    <2> QED
      BY <2>1
  <1>2. \A n \in 0 .. out : W[n] \in State
    BY WithdrawalIsTyped
  <1> HIDE DEF W
  <1>3. SUFFICES ASSUME Wrong # {} PROVE FALSE
    BY DEF Paced, W
  <1>4. PICK n \in Wrong : \A k \in Wrong : n <= k
    <2>1. Wrong \in SUBSET Nat
      OBVIOUS
    <2> HIDE DEF Wrong
    <2> QED
      BY <1>3, <2>1, LeastOf
  <1>5. n \in 0 .. out - 1 /\ W[n].v[i] # Surplus(n, out) * Accel * u[i]
    OBVIOUS
  <1>6. Accel \in Nat /\ u[i] \in Int
    BY BrakeAssumption
  <1>7. CASE n = 0
    <2>1. W[0].v[i] = 0
      BY <1>1 DEF Still
    <2>2. Surplus(0, out) = 0
      BY DEF Surplus
    <2>3. 0 * Accel * u[i] = 0
      BY <1>6
    <2> QED
      BY <1>5, <1>7, <2>1, <2>2, <2>3
  <1>8. CASE n # 0
    <2>1. n \in Nat /\ n <= out - 1 /\ n - 1 \in 0 .. out - 1 /\ n \in 0 .. out /\ ~(n <= n - 1)
      BY <1>5, <1>8
    <2> DEFINE s == Surplus(n - 1, out) * Accel
               t == Thrust(n - 1, out)
    <2>2. W[n - 1].v[i] = s * u[i]
      BY <1>4, <2>1
    <2>3. W[n].v[i] = W[n - 1].v[i] + t * u[i]
      <3>1. W[n] = Pushed(W[n - 1], n, u, out)
        BY <1>1, <1>8, <2>1
      <3> QED
        BY <3>1 DEF Pushed
    <2>4. Surplus(n, out) * Accel = s + t
      BY <1>8, <2>1, SurplusSteps
    <2>5. s \in Int /\ t \in Int
      <3>1. t \in Int
        BY <1>6 DEF Thrust
      <3>2. Surplus(n - 1, out) \in Int
        BY <1>8, <2>1, SurplusSteps
      <3> QED
        BY <1>6, <3>1, <3>2
    <2> HIDE DEF s, t
    <2>6. (s + t) * u[i] = s * u[i] + t * u[i]
      BY <1>6, <2>5
    <2> QED
      BY <1>5, <2>2, <2>3, <2>4, <2>6
  <1> QED
    BY <1>7, <1>8

\* A brake has come to rest by its last step.
LEMMA BrakeComesToRest ==
  ASSUME StudyAssumption, NEW x \in State, RestsInTime(x), NEW i \in Joint
  PROVE  ExtendedBrake(x, RetreatSteps)[RetreatSteps - 1].v[i] = 0
  <1>0. /\ RetreatSteps \in Nat /\ RetreatSteps >= Horizon /\ Horizon >= 2 /\ Horizon \in Nat
        /\ Last = Horizon - 1 /\ Last \in Nat
    BY BrakeAssumption DEF StudyAssumption, Last
  <1>1. After(x, Last).v[i] = 0
    BY BrakeEnds
  <1>2. BrakePoints(x)[Last].v[i] = 0
    BY <1>0, <1>1 DEF BrakePoints, Braking
  <1> DEFINE final == BrakePoints(x)[Last]
  <1>3. final \in Point
    <2>1. x.q \in [Joint -> Int] /\ x.v \in [Joint -> Int] /\ Last \in 0 .. Last
      BY <1>0 DEF State
    <2> QED
      BY <2>1, BrakeIsTyped
  <1>4. ExtendedBrake(x, RetreatSteps)[RetreatSteps - 1] =
          IF RetreatSteps - 1 < Horizon THEN BrakePoints(x)[RetreatSteps - 1]
          ELSE [final EXCEPT !.a = [l \in Joint |-> 0]]
    BY <1>0 DEF ExtendedBrake
  <1>5. RetreatSteps - 1 < Horizon => RetreatSteps - 1 = Last
    BY <1>0
  <1>6. [final EXCEPT !.a = [l \in Joint |-> 0]].v = final.v
    <2> HIDE DEF final
    <2> QED
      BY <1>3 DEF Point
  <1> QED
    BY <1>2, <1>4, <1>5, <1>6

LEMMA LastSurplus ==
  ASSUME NEW out \in Nat, out > 2
  PROVE  Surplus(out - 1, out) = IF out % 2 = 0 THEN 1 ELSE 0
  BY DEF Surplus

\* The speed a retreat ends with: none where the brake fills the time, or where the
\* way out has an odd number of steps; one deceleration along it where it is even.
LEMMA RetreatEndsAt ==
  ASSUME Arm, StudyAssumption, NEW x \in State, RestsInTime(x), NEW i \in Joint
  PROVE  Manoeuvre(x, "retreat")[RetreatSteps - 1].v[i] =
           IF Left(x) > 2 /\ Left(x) % 2 = 0 THEN Accel * Outward(i, RestingPlace(x)) ELSE 0
  <1> DEFINE brake == ExtendedBrake(x, RetreatSteps)
             r == RestStep(x)
             out == RetreatSteps - r
             u == [l \in Joint |-> Outward(l, brake[r].q)]
             away == Withdrawal(brake[r].q, u, out)
             still == \A l \in Joint : u[l] = 0
             end == RetreatSteps - 1
  <1>0. /\ r \in 0 .. Horizon /\ RetreatSteps \in Nat /\ RetreatSteps >= Horizon
        /\ Horizon \in Nat /\ Horizon >= 2 /\ out \in Nat
        /\ out > 2 <=> ~(r >= RetreatSteps - 2)
        /\ Left(x) = out /\ u[i] = Outward(i, RestingPlace(x))
    BY RestStepExists, BrakeAssumption DEF StudyAssumption, Left, RestingPlace
  <1>1. brake[end].v[i] = 0
    BY BrakeComesToRest
  <1>2. CASE r >= RetreatSteps - 2 \/ still
    <2>1. Manoeuvre(x, "retreat") = brake
      BY <1>2 DEF Manoeuvre, RetreatPoints
    <2>2. still => Accel * u[i] = 0
      BY BrakeAssumption
    <2> QED
      BY <1>0, <1>1, <1>2, <2>1, <2>2
  <1>3. CASE ~(r >= RetreatSteps - 2 \/ still)
    <2>1. /\ r \in 0 .. end /\ out > 2 /\ end \in 0 .. end /\ ~(end < r)
          /\ end - r = out - 1 /\ out - 1 \in 0 .. out - 1
      BY <1>0, <1>3
    <2>2. brake[r].q \in [Joint -> Int]
      BY <2>1, ExtendedBrakeIsTyped DEF Point
    <2>3. u \in [Joint -> Int]
      BY <2>2 DEF Arm
    <2>4. Manoeuvre(x, "retreat")[end].v = away[end - r].v
      BY <1>3, <2>1 DEF Manoeuvre, RetreatPoints
    <2>5. away[out - 1].v[i] = Surplus(out - 1, out) * Accel * u[i]
      <3> DEFINE place == brake[r].q
      <3>1. place \in [Joint -> Int] /\ out \in Nat /\ out - 1 \in 0 .. out - 1
        BY <1>0, <2>1, <2>2
      <3> HIDE DEF place, out, u
      <3>2. Paced(Withdrawal(place, u, out), u, out, i)
        BY <2>3, <3>1, WithdrawalSpeed
      <3> QED
        BY <3>1, <3>2 DEF Paced, place
    <2> HIDE DEF out, u, away, end, brake, r
    <2>6. Surplus(out - 1, out) = IF out % 2 = 0 THEN 1 ELSE 0
      <3>1. out \in Nat /\ out > 2
        BY <1>0, <2>1
      <3> QED
        BY <3>1, LastSurplus
    <2>7. Accel \in Nat /\ u[i] \in Int
      BY <2>3, BrakeAssumption
    <2>8. 1 * Accel * u[i] = Accel * u[i] /\ 0 * Accel * u[i] = 0
      BY <2>7
    <2>9. Manoeuvre(x, "retreat")[end].v[i] = Surplus(out - 1, out) * Accel * u[i]
      BY <2>1, <2>4, <2>5
    <2> QED
      BY <1>0, <2>1, <2>6, <2>8, <2>9 DEF end
  <1> QED
    BY <1>2, <1>3

\* RetreatComesToRest is violated where the way out is even; everywhere else
\* retreat_profile does come to rest, for every arm, deceleration and horizon.
THEOREM OddRetreatsComeToRest ==
  ASSUME Arm
  PROVE  Spec => [](member # None /\ member.name = "retreat" /\ Left(member.x) % 2 = 1
                      => RetreatComesToRest)
  <1>1. FamilyInv => (member # None /\ member.name = "retreat" /\ Left(member.x) % 2 = 1
                        => RetreatComesToRest)
    <2> SUFFICES ASSUME FamilyInv, member # None, Left(member.x) % 2 = 1, NEW i \in Joint
                 PROVE  Manoeuvre(member.x, "retreat")[RetreatSteps - 1].v[i] = 0
      BY DEF RetreatComesToRest
    <2>1. member.x \in State /\ RestsInTime(member.x)
      BY StudyAssumption DEF FamilyInv, MemberOK, StudyAssumption
    <2>2. ~(Left(member.x) % 2 = 0)
      OBVIOUS
    <2> QED
      BY <2>1, <2>2, RetreatEndsAt, StudyAssumption
  <1> QED
    BY <1>1, FamilyInvariant, PTL
=============================================================================
