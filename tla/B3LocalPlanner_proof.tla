------------------------- MODULE B3LocalPlanner_proof -------------------------
(***************************************************************************)
(* What TLAPS proves of the online loop, for every set of routes, every    *)
(* margin function, horizon length, timeout and bound.                     *)
(***************************************************************************)
EXTENDS B3LocalPlanner, TLAPS

-----------------------------------------------------------------------------
(***************************************************************************)
(* Facts about the operators a cycle is built from.                        *)
(***************************************************************************)

\* The progress gate never leaves the route, and keeps the stall age in range.
LEMMA GateStaysOnRoute ==
  ASSUME TypeOK, ref \in Route, AdvanceProgress
  PROVE  /\ ref' = ref
         /\ cur' \in Nat
         /\ cur' <= Duration[ref]
         /\ armed' \in BOOLEAN
         /\ age' \in 0 .. StallTimeout
         /\ dwell' \in 0 .. StallTimeout
  <1>1. ref' = ref /\ dwell' = (IF cur' = cur THEN dwell ELSE 0)
    BY DEF AdvanceProgress
  <1>2. CASE Within \/ StallExpired
    <2>1. cur' = Lesser(cur + 1, Duration[ref]) /\ armed' = FALSE /\ age' = 0
      BY <1>2 DEF AdvanceProgress
    <2>2. cur \in Nat /\ cur <= Duration[ref] /\ Duration[ref] \in Nat
      BY RouteAssumption DEF TypeOK
    <2>3. cur' \in Nat /\ cur' <= Duration[ref]
      BY <2>1, <2>2 DEF Lesser
    <2>4. age' \in 0 .. StallTimeout /\ dwell' \in 0 .. StallTimeout
      BY <1>1, <2>1, ParameterAssumption DEF TypeOK
    <2> QED
      BY <1>1, <2>1, <2>3, <2>4
  <1>3. CASE ~(Within \/ StallExpired)
    <2>1. /\ cur' = cur /\ armed' = Stuck
          /\ age' = IF Stuck /\ armed THEN age ELSE 0
      BY <1>3 DEF AdvanceProgress
    <2>2. Stuck \in BOOLEAN
      BY DEF Stuck
    <2>3. age' \in 0 .. StallTimeout
      BY <2>1, ParameterAssumption DEF TypeOK
    <2>4. dwell' \in 0 .. StallTimeout
      BY <1>1, <2>1 DEF TypeOK
    <2>5. cur' \in Nat /\ cur' <= Duration[ref]
      BY <2>1 DEF TypeOK
    <2> QED
      BY <1>1, <2>1, <2>2, <2>3, <2>4, <2>5
  <1> QED
    BY <1>2, <1>3

\* A waypoint on the route is a configuration.
LEMMA WaypointIsInt ==
  ASSUME NEW r \in Route, NEW d \in 0 .. Duration[r]
  PROVE  Waypoint[r][d] \in Int
  BY RouteAssumption

\* The certificate is a number at every horizon step.
LEMMA StepMarginIsInt ==
  ASSUME NEW r \in Route, NEW c \in 0 .. Duration[r],
         NEW t \in 0 .. ScheduleEnd, NEW j \in Steps
  PROVE  StepMargin(r, c, t, j) \in Int
  <1>1. Lesser(c + j, Duration[r]) \in 0 .. Duration[r]
    BY RouteAssumption, ParameterAssumption DEF Lesser, Steps
  <1>2. t + j + 1 \in 0 .. ScheduleEnd + HorizonSteps
    BY ParameterAssumption DEF Steps
  <1> QED
    BY <1>1, <1>2, ParameterAssumption DEF StepMargin

-----------------------------------------------------------------------------
(***************************************************************************)
(* Type correctness.                                                       *)
(***************************************************************************)

\* What a cycle that does not finish the goal leaves typed, whatever solve()
\* decides, as long as it commands an integer configuration.
LEMMA CutKeepsTypes ==
  ASSUME TypeOK, CutHorizon, SolveFrame, braked' \in BOOLEAN,
         NEW l \in {0, 2, 4}, NEW b, NEW p \in Int, Emit(l, b, p)
  PROVE  TypeOK'
  <1>1. ref \in Route
    BY DEF CutHorizon, Running, TypeOK
  <1>2. /\ ref' = ref /\ cur' \in Nat /\ cur' <= Duration[ref]
        /\ armed' \in BOOLEAN /\ age' \in 0 .. StallTimeout
        /\ dwell' \in 0 .. StallTimeout
    BY <1>1, GateStaysOnRoute DEF CutHorizon
  <1>3. out' = [level |-> l, route |-> ref, at |-> cur', time |-> elapsed,
                binding |-> b, target |-> p]
    BY DEF Emit
  <1>4. OutputOK'
    BY <1>1, <1>2, <1>3, RouteAssumption DEF OutputOK, TypeOK
  <1>5. UNCHANGED <<goal, active, started, elapsed, pos, goals, segments, pushes>>
    BY DEF SolveFrame, component, bounds
  <1> QED
    BY <1>1, <1>2, <1>4, <1>5 DEF TypeOK

LEMMA ResetKeepsTypes ==
  ASSUME TypeOK, ComponentReset, goal' \in {"succeeded", "aborted"}
  PROVE  TypeOK'
  <1>1. /\ ref' = NoRoute /\ NoRoute \notin Route
        /\ cur' = 0 /\ active' = FALSE /\ braked' = FALSE
        /\ UNCHANGED <<armed, age, started, elapsed, pos, out, dwell>>
        /\ UNCHANGED <<goals, segments, pushes>>
    BY RouteAssumption DEF ComponentReset, ClearReference, bounds
  <1> QED
    BY <1>1 DEF TypeOK, OutputOK

\* Every waypoint a cycle can command is an integer.
LEMMA CommandIsInt ==
  ASSUME TypeOK, CutHorizon
  PROVE  Waypoint[ref][cur'] \in Int
  <1>1. ref \in Route
    BY DEF CutHorizon, Running, TypeOK
  <1>2. cur' \in 0 .. Duration[ref]
    BY <1>1, GateStaysOnRoute, RouteAssumption DEF CutHorizon
  <1> QED
    BY <1>1, <1>2, WaypointIsInt

LEMMA CycleKeepsTypes ==
  ASSUME TypeOK, Cycle
  PROVE  TypeOK'
  <1>1. CASE HoldBraked
    BY <1>1, CutKeepsTypes DEF HoldBraked, TypeOK
  <1>2. CASE PassThrough
    <2>1. /\ CutHorizon /\ SolveFrame /\ braked' \in BOOLEAN
          /\ Emit(0, BindingStep(ref, cur', elapsed), Waypoint[ref][cur'])
      BY <1>2 DEF PassThrough, TypeOK
    <2> QED
      BY <2>1, CutKeepsTypes, CommandIsInt
  <1>3. CASE Reshape
    <2>1. /\ CutHorizon /\ SolveFrame /\ braked' \in BOOLEAN
          /\ Emit(2, BindingStep(ref, cur', elapsed), Waypoint[ref][cur'])
      BY <1>3 DEF Reshape, TypeOK
    <2> QED
      BY <2>1, CutKeepsTypes, CommandIsInt
  <1>4. CASE TriggerBrake
    <2>1. PICK coast \in {-1, 0, 1} :
            Emit(4, BindingStep(ref, cur', elapsed), pos + coast)
      BY <1>4 DEF TriggerBrake
    <2>2. CutHorizon /\ SolveFrame /\ braked' \in BOOLEAN /\ pos + coast \in Int
      BY <1>4 DEF TriggerBrake, TypeOK
    <2> QED
      BY <2>1, <2>2, CutKeepsTypes
  <1>5. CASE Succeed
    BY <1>5, ResetKeepsTypes DEF Succeed
  <1> QED
    BY <1>1, <1>2, <1>3, <1>4, <1>5 DEF Cycle

\* Every variable keeps its type: in particular the progress never passes the
\* end of the route, and the component is active exactly when it holds a route.
THEOREM TypeCorrect == Spec => []TypeOK
  <1>1. Init => TypeOK
    <2> SUFFICES ASSUME Init PROVE TypeOK
      OBVIOUS
    <2>1. NoRoute \notin Route /\ pos \in Int
      BY RouteAssumption DEF Init
    <2>2. 0 \in 0 .. StallTimeout /\ 0 \in 0 .. ScheduleEnd
      BY ParameterAssumption
    <2> QED
      BY <2>1, <2>2 DEF Init, TypeOK, OutputOK
  <1>2. TypeOK /\ [Next]_vars => TypeOK'
    <2> SUFFICES ASSUME TypeOK, [Next]_vars PROVE TypeOK'
      OBVIOUS
    <2>1. CASE AcceptGoal
      BY <2>1 DEF AcceptGoal, operator, TypeOK, OutputOK
    <2>2. ASSUME NEW r \in Route, AddTrajectorySegment(r) PROVE TypeOK'
      BY <2>2, RouteAssumption, ParameterAssumption
      DEF AddTrajectorySegment, TypeOK, OutputOK
    <2>3. CASE Abort
      BY <2>3, ResetKeepsTypes DEF Abort
    <2>4. CASE Cycle
      BY <2>4, CycleKeepsTypes
    <2>5. CASE Tick
      <3>1. /\ age' \in 0 .. StallTimeout /\ dwell' \in 0 .. StallTimeout
            /\ elapsed' \in 0 .. ScheduleEnd
        BY <2>5, ParameterAssumption DEF Tick, Saturate, Lesser, TypeOK
      <3> QED
        BY <2>5, <3>1 DEF Tick, component, bounds, TypeOK, OutputOK
    <2>6. CASE ForceStart
      BY <2>6, ParameterAssumption
      DEF ForceStart, component, operator, bounds, TypeOK, OutputOK
    <2>7. CASE RobotTracks
      <3>1. pos' \in Int
        BY <2>7 DEF RobotTracks, TypeOK
      <3> QED
        BY <2>7, <3>1
        DEF RobotTracks, RobotFrame, component, operator, bounds, TypeOK, OutputOK
    <2>8. CASE RobotPushed
      <3>1. pos' \in Int /\ pushes' \in Nat
        BY <2>8, RouteAssumption DEF RobotPushed, TypeOK
      <3> QED
        BY <2>8, <3>1
        DEF RobotPushed, RobotFrame, component, operator, TypeOK, OutputOK
    <2>9. CASE UNCHANGED vars
      BY <2>9 DEF vars, component, operator, bounds, TypeOK, OutputOK
    <2> QED
      BY <2>1, <2>2, <2>3, <2>4, <2>5, <2>6, <2>7, <2>8, <2>9 DEF Next
  <1> QED
    BY <1>1, <1>2, PTL DEF Spec

-----------------------------------------------------------------------------
(***************************************************************************)
(* The sticky brake.                                                       *)
(***************************************************************************)

\* What each of the four ways out of solve() does to the latch and the level.
LEMMA SolveOutcomes ==
  ASSUME HoldBraked \/ PassThrough \/ Reshape \/ TriggerBrake
  PROVE  /\ goal = "running" /\ goal' = goal
         /\ out'.route = ref /\ out'.at = cur' /\ out'.time = elapsed
         /\ braked' <=> out'.level = 4
         /\ braked => braked' /\ out'.target = pos
  <1> USE DEF Emit, CutHorizon, Running, SolveFrame, component
  <1>1. CASE HoldBraked
    BY <1>1 DEF HoldBraked
  <1>2. CASE PassThrough
    BY <1>2 DEF PassThrough
  <1>3. CASE Reshape
    BY <1>3 DEF Reshape
  <1>4. CASE TriggerBrake
    BY <1>4 DEF TriggerBrake
  <1> QED
    BY <1>1, <1>2, <1>3, <1>4

\* Every other step either keeps the latch, the last output and the goal, or
\* opens a goal on an empty output, or closes one and clears the latch.
LEMMA OtherSteps ==
  ASSUME [Next]_vars, ~(HoldBraked \/ PassThrough \/ Reshape \/ TriggerBrake)
  PROVE  \/ UNCHANGED <<goal, braked, out>>
         \/ /\ goal # "running" /\ goal' = "running"
            /\ out' = Nothing /\ braked' = braked
         \/ /\ goal = "running" /\ goal' # "running"
            /\ out' = out /\ braked' = FALSE
  <1>1. CASE AcceptGoal
    BY <1>1 DEF AcceptGoal
  <1>2. ASSUME NEW r \in Route, AddTrajectorySegment(r)
        PROVE  UNCHANGED <<goal, braked, out>>
    BY <1>2 DEF AddTrajectorySegment
  <1>3. CASE Abort
    BY <1>3 DEF Abort, ComponentReset
  <1>4. CASE Succeed
    BY <1>4 DEF Succeed, ComponentReset, Running
  <1>5. CASE Tick \/ ForceStart
    BY <1>5 DEF Tick, ForceStart, component
  <1>6. CASE RobotTracks \/ RobotPushed
    BY <1>6 DEF RobotTracks, RobotPushed, RobotFrame, component
  <1>7. CASE UNCHANGED vars
    BY <1>7 DEF vars, component
  <1> QED
    BY <1>1, <1>2, <1>3, <1>4, <1>5, <1>6, <1>7 DEF Next, Cycle

\* In every reachable state the latch and the published level agree, and no
\* goal starts braked.
THEOREM BrakeIsLatched == Spec => []BrakeLatched
  <1>1. Init => BrakeLatched
    BY DEF Init, BrakeLatched
  <1>2. BrakeLatched /\ [Next]_vars => BrakeLatched'
    <2> SUFFICES ASSUME BrakeLatched, [Next]_vars PROVE BrakeLatched'
      OBVIOUS
    <2>1. CASE HoldBraked \/ PassThrough \/ Reshape \/ TriggerBrake
      BY <2>1, SolveOutcomes DEF BrakeLatched
    <2>2. CASE ~(HoldBraked \/ PassThrough \/ Reshape \/ TriggerBrake)
      <3>1. CASE UNCHANGED <<goal, braked, out>>
        BY <3>1 DEF BrakeLatched
      <3>2. CASE /\ goal # "running" /\ goal' = "running"
                 /\ out' = Nothing /\ braked' = braked
        BY <3>2 DEF BrakeLatched, Nothing
      <3>3. CASE /\ goal = "running" /\ goal' # "running"
                 /\ out' = out /\ braked' = FALSE
        BY <3>3 DEF BrakeLatched
      <3> QED
        BY <2>2, <3>1, <3>2, <3>3, OtherSteps
    <2> QED
      BY <2>1, <2>2
  <1> QED
    BY <1>1, <1>2, PTL DEF Spec

\* Once Level 4 is out, the rest of the goal is holds of the measured
\* configuration, through new routes, force starts and disturbances.
THEOREM BrakeStaysFinal == Spec => BrakeIsFinal
  <1>1. BrakeLatched /\ [Next]_vars
          => [(goal = "running" /\ goal' = "running" /\ out.level = 4)
               => \/ out' = out
                  \/ out'.level = 4 /\ out'.target = pos]_vars
    <2> SUFFICES ASSUME BrakeLatched, [Next]_vars,
                        goal = "running", goal' = "running", out.level = 4
                 PROVE  out' = out \/ (out'.level = 4 /\ out'.target = pos)
      OBVIOUS
    <2>1. braked
      BY DEF BrakeLatched
    <2>2. CASE HoldBraked \/ PassThrough \/ Reshape \/ TriggerBrake
      BY <2>1, <2>2, SolveOutcomes
    <2>3. CASE ~(HoldBraked \/ PassThrough \/ Reshape \/ TriggerBrake)
      BY <2>3, OtherSteps
    <2> QED
      BY <2>2, <2>3
  <1> QED
    BY <1>1, BrakeIsLatched, PTL DEF Spec, BrakeIsFinal

-----------------------------------------------------------------------------
(***************************************************************************)
(* The lead of the warning.                                                *)
(***************************************************************************)

\* A Level 0 output says that the whole horizon it was decided on clears.
PassedHorizonClears ==
  out.level = 0 => Clears(out.route, out.at, out.time)

LEMMA PassedCleared == Spec => []PassedHorizonClears
  <1>1. Init => PassedHorizonClears
    BY DEF Init, PassedHorizonClears, Nothing
  <1>2. PassedHorizonClears /\ [Next]_vars => PassedHorizonClears'
    <2> SUFFICES ASSUME PassedHorizonClears, [Next]_vars, out' # out, out'.level = 0
                 PROVE  Clears(out'.route, out'.at, out'.time)
      BY DEF PassedHorizonClears
    <2>1. PassThrough
      <3>1. HoldBraked \/ PassThrough \/ Reshape \/ TriggerBrake
        <4>1. out' # Nothing
          BY DEF Nothing
        <4> QED
          BY <4>1, OtherSteps
      <3> QED
        BY <3>1 DEF HoldBraked, Reshape, TriggerBrake, Emit
    <2> QED
      BY <2>1, SolveOutcomes DEF PassThrough
  <1> QED
    BY <1>1, <1>2, PTL DEF Spec

\* One step of time and of progress shifts the horizon by one step.
LEMMA HorizonShifts ==
  ASSUME NEW r \in Route, NEW c \in 0 .. Duration[r], NEW t \in Nat,
         NEW j \in Steps, j + 1 \in Steps
  PROVE  StepMargin(r, Lesser(c + 1, Duration[r]), t + 1, j)
           = StepMargin(r, c, t, j + 1)
  <1>1. Duration[r] \in Nat /\ j \in Nat
    BY RouteAssumption, ParameterAssumption DEF Steps
  <1>2. Lesser(Lesser(c + 1, Duration[r]) + j, Duration[r])
          = Lesser(c + (j + 1), Duration[r])
    BY <1>1 DEF Lesser
  <1>3. (t + 1) + j + 1 = t + (j + 1) + 1
    BY <1>1
  <1> QED
    BY <1>2, <1>3 DEF StepMargin

\* The only step of a shifted clearing horizon that may fail is the last, and
\* then it is the binding one.
LEMMA LastStepBinds ==
  ASSUME NEW r \in Route, NEW c \in 0 .. Duration[r], NEW t \in Nat,
         t + 1 <= ScheduleEnd,
         Clears(r, c, t),
         ~Clears(r, Lesser(c + 1, Duration[r]), t + 1)
  PROVE  BindingStep(r, Lesser(c + 1, Duration[r]), t + 1) = HorizonSteps - 1
  <1> DEFINE d == Lesser(c + 1, Duration[r])
             m(j) == StepMargin(r, d, t + 1, j)
             last == HorizonSteps - 1
  <1>1. last \in Steps /\ (\A j \in Steps : j # last => j + 1 \in Steps)
    BY ParameterAssumption DEF Steps
  <1>2. \A j \in Steps : m(j) \in Int
    <2>1. d \in 0 .. Duration[r] /\ t + 1 \in 0 .. ScheduleEnd
      BY RouteAssumption DEF Lesser
    <2> QED
      BY <2>1, StepMarginIsInt
  <1>3. \A j \in Steps : j # last => m(j) >= MSafe
    BY <1>1, HorizonShifts DEF Clears
  <1>4. m(last) < MSafe
    <2>1. PICK j \in Steps : ~(m(j) >= MSafe)
      BY DEF Clears
    <2>2. j = last
      BY <1>3, <2>1
    <2> QED
      BY <1>1, <1>2, <2>1, <2>2, ParameterAssumption
  <1>5. \A k \in Steps : /\ m(last) <= m(k)
                         /\ k < last => m(last) < m(k)
    <2> TAKE k \in Steps
    <2>1. CASE k = last
      BY <1>1, <1>2, <2>1, ParameterAssumption DEF Steps
    <2>2. CASE k # last
      BY <1>1, <1>2, <1>3, <1>4, <2>2, ParameterAssumption
    <2> QED
      BY <2>1, <2>2
  <1>6. ASSUME NEW j \in Steps,
               \A k \in Steps : m(j) <= m(k) /\ (k < j => m(j) < m(k))
        PROVE  j = last
    BY <1>1, <1>2, <1>3, <1>4, <1>6, ParameterAssumption
  <1>7. BindingStep(r, d, t + 1) =
          CHOOSE j \in Steps : \A k \in Steps : m(j) <= m(k) /\ (k < j => m(j) < m(k))
    BY DEF BindingStep
  <1> HIDE DEF m, d, last
  <1>8. BindingStep(r, d, t + 1) = last
    BY <1>1, <1>5, <1>6, <1>7
  <1> QED
    BY <1>8 DEF d, last

\* A brake one step after a cleared horizon is triggered by the horizon's last
\* step: the rest of the horizon was certified one cycle ago.
THEOREM LeadIsFull == Spec => FullHorizonLead
  <1>1. TypeOK /\ TypeOK' /\ PassedHorizonClears /\ [Next]_vars
          => [(/\ ~braked /\ braked'
               /\ out.level = 0
               /\ out'.route = out.route
               /\ out'.at = Lesser(out.at + 1, Duration[ref])
               /\ out'.time = out.time + 1)
                => out'.binding = HorizonSteps - 1]_vars
    <2> SUFFICES ASSUME TypeOK, TypeOK', PassedHorizonClears, [Next]_vars,
                        ~braked, braked', out.level = 0,
                        out'.route = out.route,
                        out'.at = Lesser(out.at + 1, Duration[ref]),
                        out'.time = out.time + 1
                 PROVE  out'.binding = HorizonSteps - 1
      OBVIOUS
    <2>1. TriggerBrake
      <3>1. HoldBraked \/ PassThrough \/ Reshape \/ TriggerBrake
        BY OtherSteps
      <3> QED
        BY <3>1 DEF HoldBraked, PassThrough, Reshape
    <2>2. /\ ~Clears(ref, cur', elapsed)
          /\ out'.binding = BindingStep(ref, cur', elapsed)
      BY <2>1 DEF TriggerBrake, Emit
    <2>3. out'.route = ref /\ out'.at = cur' /\ out'.time = elapsed
      BY <2>1, SolveOutcomes
    <2>4. /\ out.route \in Route /\ out.at \in 0 .. Duration[out.route]
          /\ out.time \in Nat
      BY DEF TypeOK, OutputOK, Nothing
    <2>5. out.time + 1 <= ScheduleEnd
      BY <2>3, ParameterAssumption DEF TypeOK
    <2>6. Clears(out.route, out.at, out.time)
      BY DEF PassedHorizonClears
    <2>7. BindingStep(out.route, Lesser(out.at + 1, Duration[out.route]), out.time + 1)
            = HorizonSteps - 1
      BY <2>2, <2>3, <2>4, <2>5, <2>6, LastStepBinds
    <2> QED
      BY <2>2, <2>3, <2>7
  <1> QED
    BY <1>1, TypeCorrect, PassedCleared, PTL DEF Spec, FullHorizonLead

-----------------------------------------------------------------------------
(***************************************************************************)
(* The progress gate and the end of a goal.                                *)
(***************************************************************************)

\* Past the first target, the stall timer never claims more time than the
\* target has really stood still.
TimerIsHonest == (armed /\ cur > 0) => age <= dwell

\* A step that is no cycle leaves the progress alone or restarts it at zero.
LEMMA ProgressFrame ==
  ASSUME [Next]_vars, ~AdvanceProgress
  PROVE  \/ UNCHANGED <<cur, armed, age, dwell>>
         \/ cur' = 0
         \/ Tick
  <1>1. CASE AcceptGoal \/ ForceStart
    BY <1>1 DEF AcceptGoal, ForceStart, operator
  <1>2. ASSUME NEW r \in Route, AddTrajectorySegment(r) PROVE cur' = 0
    BY <1>2 DEF AddTrajectorySegment
  <1>3. CASE Abort \/ Succeed
    BY <1>3 DEF Abort, Succeed, ComponentReset, ClearReference
  <1>4. CASE HoldBraked \/ PassThrough \/ Reshape \/ TriggerBrake
    BY <1>4 DEF HoldBraked, PassThrough, Reshape, TriggerBrake, CutHorizon
  <1>5. CASE RobotTracks \/ RobotPushed
    BY <1>5 DEF RobotTracks, RobotPushed, RobotFrame, operator
  <1>6. CASE UNCHANGED vars
    BY <1>6 DEF vars, operator
  <1> QED
    BY <1>1, <1>2, <1>3, <1>4, <1>5, <1>6 DEF Next, Cycle

LEMMA TimerHonest == Spec => []TimerIsHonest
  <1>1. Init => TimerIsHonest
    BY DEF Init, TimerIsHonest
  <1>2. TypeOK /\ TimerIsHonest /\ [Next]_vars => TimerIsHonest'
    <2> SUFFICES ASSUME TypeOK, TimerIsHonest, [Next]_vars, armed', cur' > 0
                 PROVE  age' <= dwell'
      BY DEF TimerIsHonest
    <2>1. CASE AdvanceProgress
      <3>1. /\ cur' = cur /\ dwell' = dwell
            /\ age' = IF Stuck /\ armed THEN age ELSE 0
        BY <2>1 DEF AdvanceProgress
      <3>2. age' = 0 \/ (armed /\ age' = age)
        BY <3>1
      <3>3. 0 <= dwell
        BY ParameterAssumption DEF TypeOK
      <3>4. armed => age <= dwell
        BY <3>1 DEF TimerIsHonest
      <3> QED
        BY <3>1, <3>2, <3>3, <3>4
    <2>2. CASE Tick
      <3>1. armed' = armed /\ cur' = cur
        BY <2>2 DEF Tick
      <3>2. age <= dwell
        BY <3>1 DEF TimerIsHonest
      <3>3. age' = Lesser(age + 1, StallTimeout) /\ dwell' = Lesser(dwell + 1, StallTimeout)
        BY <2>2, <3>1 DEF Tick, Saturate
      <3> QED
        BY <3>2, <3>3, ParameterAssumption DEF TypeOK, Lesser
    <2>3. CASE ~AdvanceProgress /\ ~Tick
      <3>1. UNCHANGED <<cur, armed, age, dwell>> \/ cur' = 0
        BY <2>3, ProgressFrame
      <3>2. cur' # 0
        OBVIOUS
      <3>3. /\ cur' = cur /\ age' = age /\ dwell' = dwell
            /\ armed
        BY <3>1, <3>2
      <3>4. age <= dwell
        BY <3>3 DEF TimerIsHonest
      <3> QED
        BY <3>3, <3>4
    <2> QED
      BY <2>1, <2>2, <2>3
  <1> QED
    BY <1>1, <1>2, TypeCorrect, PTL DEF Spec

\* The fallback is earned: past the first target, nothing but a whole stall
\* timeout of standing still moves the target away from a robot that is off it.
THEOREM AdvancesAreEarned == Spec => AdvanceIsEarned
  <1>1. TypeOK /\ TimerIsHonest /\ [Next]_vars
          => [(cur' = cur + 1 /\ cur > 0 /\ ~Within) => dwell >= StallTimeout]_vars
    <2> SUFFICES ASSUME TypeOK, TimerIsHonest, [Next]_vars,
                        cur' = cur + 1, cur > 0, ~Within
                 PROVE  dwell >= StallTimeout
      OBVIOUS
    <2>1. cur \in Nat /\ age \in Nat /\ dwell \in Nat
      BY ParameterAssumption DEF TypeOK
    <2>2. AdvanceProgress
      BY <2>1, ProgressFrame DEF Tick
    <2>3. StallExpired
      BY <2>1, <2>2 DEF AdvanceProgress
    <2> QED
      BY <2>1, <2>3, ParameterAssumption DEF StallExpired, TimerIsHonest
  <1> QED
    BY <1>1, TypeCorrect, TimerHonest, PTL DEF Spec, AdvanceIsEarned

\* The local planner never stops commanding a robot that is not at the end of
\* the route.
THEOREM SuccessIsAnArrival == Spec => SuccessIsReached
  <1>1. TypeOK /\ [Next]_vars
          => [(goal = "running" /\ goal' = "succeeded")
               => /\ cur = Duration[ref]
                  /\ Dist(Waypoint[ref][Duration[ref]], pos) <= Tolerance]_vars
    <2> SUFFICES ASSUME TypeOK, [Next]_vars, goal = "running", goal' = "succeeded"
                 PROVE  /\ cur = Duration[ref]
                        /\ Dist(Waypoint[ref][Duration[ref]], pos) <= Tolerance
      OBVIOUS
    <2>1. Succeed
      <3>1. ~(HoldBraked \/ PassThrough \/ Reshape \/ TriggerBrake)
        BY SolveOutcomes
      <3>2. ~UNCHANGED goal
        OBVIOUS
      <3>3. ~AcceptGoal /\ ~Abort
        BY DEF AcceptGoal, Abort
      <3>4. ~Tick /\ ~ForceStart /\ ~RobotTracks /\ ~RobotPushed
        BY <3>2 DEF Tick, ForceStart, RobotTracks, RobotPushed, RobotFrame, component
      <3>5. ~UNCHANGED vars /\ ~(\E r \in Route : AddTrajectorySegment(r))
        BY <3>2 DEF vars, component, AddTrajectorySegment
      <3> QED
        BY <3>1, <3>3, <3>4, <3>5 DEF Next, Cycle
    <2>2. ref \in Route /\ Done
      BY <2>1 DEF Succeed, Running, TypeOK
    <2>3. cur \in Nat /\ Duration[ref] \in Nat /\ cur <= Duration[ref]
      BY <2>2, RouteAssumption DEF TypeOK
    <2> QED
      BY <2>2, <2>3 DEF Done, Unfinished
  <1> QED
    BY <1>1, TypeCorrect, PTL DEF Spec, SuccessIsReached

=============================================================================
