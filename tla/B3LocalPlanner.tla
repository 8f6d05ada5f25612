---------------------------- MODULE B3LocalPlanner ----------------------------
(***************************************************************************)
(* The online loop of the B3 baseline in ROS 2:                            *)
(*   - HorizonTrajectoryOperator walks the reference route and cuts the    *)
(*     receding horizon out of it (horizon_trajectory_operator.cpp);       *)
(*   - B3ConstraintSolver certifies the horizon and publishes Level 0, 2   *)
(*     or 4 (b3_constraint_solver.cpp);                                    *)
(*   - MoveIt's LocalPlannerComponent (not in this repository) owns both   *)
(*     plugins, runs them from one timer and resets them with the goal;    *)
(*   - the robot and its joint controller are the environment.             *)
(*                                                                         *)
(* The callbacks of the component's node share one callback group, so each *)
(* of them is one action; the robot and the clock move between any two.    *)
(* Durations and times are counted in control steps (b3.dt); the           *)
(* configuration distance of the joint group is the distance of integers.  *)
(***************************************************************************)
EXTENDS Integers

CONSTANTS
  Route,          \* the reference routes addTrajectorySegment may install
  NoRoute,        \* the cleared reference
  Duration,       \* Duration[r]: total duration of route r
  Waypoint,       \* Waypoint[r][d]: the configuration of r at duration d
  Position,       \* the configurations of the robot
  Tolerance,      \* WAYPOINT_RADIAN_TOLERANCE
  HorizonSteps,   \* b3.horizon_steps
  StallTimeout,   \* b3.progress_stall_timeout_s
  MSafe,          \* b3.m_safe
  Margin(_, _, _),\* Margin(r, d, t): the least joint margin at duration d of r,
                  \* at force-schedule time t
  ScheduleEnd,    \* the schedule is constant from here on: bounds the clock
  MaxGoals,       \* bound: goals accepted
  MaxSegments,    \* bound: global solutions delivered
  MaxPushes       \* bound: disturbances of the robot

Lesser(a, b) == IF a <= b THEN a ELSE b
Dist(a, b) == IF a <= b THEN b - a ELSE a - b

ASSUME RouteAssumption ==
  /\ NoRoute \notin Route
  /\ Position \subseteq Int
  /\ Duration \in [Route -> Nat]
  /\ \A r \in Route : Waypoint[r] \in [0 .. Duration[r] -> Position]

ASSUME ParameterAssumption ==
  /\ Tolerance \in Nat
  /\ HorizonSteps \in Nat \ {0}
  /\ StallTimeout \in Nat
  /\ MSafe \in Int
  /\ ScheduleEnd \in Nat
  /\ MaxGoals \in Nat /\ MaxSegments \in Nat /\ MaxPushes \in Nat
  /\ \A r \in Route : \A d \in 0 .. Duration[r], t \in 0 .. ScheduleEnd + HorizonSteps :
       Margin(r, d, t) \in Int

VARIABLES
  goal,       \* the local planning action: idle, running, succeeded, aborted
  active,     \* LOCAL_PLANNING_ACTIVE, as against AWAIT_GLOBAL_TRAJECTORY
  ref,        \* reference_trajectory_
  cur,        \* current_duration_
  armed,      \* has_stall_start_
  age,        \* now - stall_start_time_
  braked,     \* braked_
  started,    \* force_started_
  elapsed,    \* force_t_now of the next solve()
  pos,        \* the measured configuration
  out,        \* the last command and diagnostics published for this goal
  dwell,      \* history: time since the target last changed
  goals, segments, pushes   \* counters of the bounds

component == <<goal, active>>
operator  == <<ref, cur, armed, age>>
bounds    == <<goals, segments, pushes>>
vars == <<component, operator, braked, started, elapsed, pos, out, dwell, bounds>>

(***************************************************************************)
(* What a cycle publishes: the level, the route, duration and schedule     *)
(* time it was decided at, the binding step of the certificate (-1 when it *)
(* was not evaluated) and the commanded configuration.                     *)
(***************************************************************************)
Nothing == [level |-> -1, route |-> NoRoute, at |-> 0, time |-> 0,
            binding |-> -1, target |-> 0]

OutputOK ==
  \/ out = Nothing
  \/ /\ out.level \in {0, 2, 4}
     /\ out.route \in Route
     /\ out.at \in 0 .. Duration[out.route]
     /\ out.time \in 0 .. ScheduleEnd
     /\ out.target \in Int

TypeOK ==
  /\ goal \in {"idle", "running", "succeeded", "aborted"}
  /\ active \in BOOLEAN
  /\ ref \in Route \cup {NoRoute}
  /\ active <=> ref # NoRoute
  /\ cur \in Nat
  /\ ref \in Route => cur <= Duration[ref]
  /\ armed \in BOOLEAN
  /\ age \in 0 .. StallTimeout
  /\ dwell \in 0 .. StallTimeout
  /\ braked \in BOOLEAN
  /\ started \in BOOLEAN
  /\ elapsed \in 0 .. ScheduleEnd
  /\ pos \in Int
  /\ OutputOK
  /\ goals \in Nat /\ segments \in Nat /\ pushes \in Nat

-----------------------------------------------------------------------------
(***************************************************************************)
(* The receding horizon and its certificate.                               *)
(***************************************************************************)
Steps == 0 .. HorizonSteps - 1

\* Horizon step j of route r cut at duration c, at schedule time t.  A step
\* past the end repeats the terminal waypoint; every step lasts one dt, so
\* step j is reached at t + j + 1.
StepMargin(r, c, t, j) == Margin(r, Lesser(c + j, Duration[r]), t + j + 1)

\* Mutation: the horizon loop stops one step early.
ClearsAllButLast(r, c, t) ==
  \A j \in 0 .. HorizonSteps - 2 : StepMargin(r, c, t, j) >= MSafe

Clears(r, c, t) == \A j \in Steps : StepMargin(r, c, t, j) >= MSafe

\* The first step of least margin.
BindingStep(r, c, t) ==
  CHOOSE j \in Steps : \A k \in Steps :
    /\ StepMargin(r, c, t, j) <= StepMargin(r, c, t, k)
    /\ k < j => StepMargin(r, c, t, j) < StepMargin(r, c, t, k)

(***************************************************************************)
(* The operator's progress gate: one step forward when the robot is close  *)
(* enough to the target or the stall timer has expired.                    *)
(***************************************************************************)
Within == Dist(Waypoint[ref][cur], pos) <= Tolerance
Unfinished == cur < Duration[ref]
Stuck == ~Within /\ Unfinished

\* Mutation: no stall-timeout fallback.
NeverExpires == FALSE

StallExpired == Stuck /\ armed /\ age >= StallTimeout

\* Mutation: the stall timer is not cleared by the advance it caused.
AdvanceKeepsTimer ==
  /\ cur' = IF Within \/ StallExpired THEN Lesser(cur + 1, Duration[ref]) ELSE cur
  /\ armed' = Stuck
  /\ age' = IF Stuck /\ armed THEN age ELSE 0
  /\ ref' = ref
  /\ dwell' = IF cur' = cur THEN dwell ELSE 0

\* Mutation: progress stops one step short of the route's duration.
AdvanceShortOfEnd ==
  /\ cur' = IF Within \/ StallExpired
              THEN IF cur + 1 < Duration[ref] THEN cur + 1 ELSE cur
              ELSE cur
  /\ armed' = (Stuck /\ ~StallExpired)
  /\ age' = IF Stuck /\ armed /\ ~StallExpired THEN age ELSE 0
  /\ ref' = ref
  /\ dwell' = IF cur' = cur THEN dwell ELSE 0

AdvanceProgress ==
  /\ \/ /\ Within \/ StallExpired
        /\ cur' = Lesser(cur + 1, Duration[ref])
        /\ armed' = FALSE
        /\ age' = 0
     \/ /\ ~(Within \/ StallExpired)
        /\ cur' = cur
        /\ armed' = Stuck
        /\ age' = IF Stuck /\ armed THEN age ELSE 0
  /\ ref' = ref
  /\ dwell' = IF cur' = cur THEN dwell ELSE 0

\* Mutation: the robot itself is not looked at.
DoneByReferenceAlone == ~Unfinished

\* getTrajectoryProgress: the reference is walked and the robot is there.
Done ==
  /\ ~Unfinished
  /\ Dist(Waypoint[ref][Duration[ref]], pos) <= Tolerance

(***************************************************************************)
(* The component's part, as the plugins rely on it.                        *)
(***************************************************************************)
ClearReference == ref' = NoRoute /\ cur' = 0 /\ UNCHANGED <<armed, age>>

\* Mutation: the solver's reset() forgets the brake latch.
ResetKeepsBrake ==
  /\ ClearReference
  /\ active' = FALSE
  /\ UNCHANGED <<braked, started, elapsed, pos, out, dwell, bounds>>

ComponentReset ==
  /\ braked' = FALSE
  /\ ClearReference
  /\ active' = FALSE
  /\ UNCHANGED <<started, elapsed, pos, out, dwell, bounds>>

AcceptGoal ==
  /\ goal # "running"
  /\ goals < MaxGoals
  /\ goals' = goals + 1
  /\ goal' = "running"
  /\ out' = Nothing
  /\ UNCHANGED <<active, operator, braked, started, elapsed, pos, dwell, segments, pushes>>

\* addTrajectorySegment: the route the planning-time cascade settled on.
AddTrajectorySegment(r) ==
  /\ segments < MaxSegments
  /\ segments' = segments + 1
  /\ ref' = r
  /\ cur' = 0
  /\ UNCHANGED <<armed, age>>
  /\ dwell' = 0
  /\ active' = TRUE
  /\ UNCHANGED <<goal, braked, started, elapsed, pos, out, goals, pushes>>

Running == goal = "running" /\ active

Succeed ==
  /\ Running
  /\ Done
  /\ goal' = "succeeded"
  /\ ComponentReset

Abort ==
  /\ goal = "running"
  /\ goal' = "aborted"
  /\ ComponentReset

-----------------------------------------------------------------------------
(***************************************************************************)
(* One cycle of the timer that does not finish the goal: the operator cuts *)
(* the horizon, then solve() takes one of four ways out.                   *)
(***************************************************************************)
CutHorizon == Running /\ ~Done /\ AdvanceProgress

Emit(l, b, p) ==
  out' = [level |-> l, route |-> ref, at |-> cur', time |-> elapsed, binding |-> b, target |-> p]

SolveFrame == UNCHANGED <<component, started, elapsed, pos, bounds>>

\* Mutation: a braked solver follows the route again once the horizon clears.
HoldUntilClear ==
  /\ CutHorizon
  /\ braked
  /\ LET clear == Clears(ref, cur', elapsed)
     IN  /\ Emit(IF clear THEN 0 ELSE 4, -1, IF clear THEN Waypoint[ref][cur'] ELSE pos)
         /\ braked' = ~clear
  /\ SolveFrame

\* Sticky Level 4: hold where the robot is measured to be.
HoldBraked ==
  /\ CutHorizon
  /\ braked
  /\ Emit(4, -1, pos)
  /\ braked' = braked
  /\ SolveFrame

\* Level 0: the first waypoint of the horizon, unmodified.
PassThrough ==
  /\ CutHorizon
  /\ ~braked
  /\ Clears(ref, cur', elapsed)
  /\ Emit(0, BindingStep(ref, cur', elapsed), Waypoint[ref][cur'])
  /\ braked' = braked
  /\ SolveFrame

\* Level 2: the QP found a profile that clears.  Its first waypoint is pinned
\* to the configuration and velocity of the nominal one.
Reshape ==
  /\ CutHorizon
  /\ ~braked
  /\ ~Clears(ref, cur', elapsed)
  /\ Emit(2, BindingStep(ref, cur', elapsed), Waypoint[ref][cur'])
  /\ braked' = braked
  /\ SolveFrame

\* Level 4: the QP failed or did not clear.  One braking step from the
\* measured state, which coasts at most one unit.
TriggerBrake ==
  /\ CutHorizon
  /\ ~braked
  /\ ~Clears(ref, cur', elapsed)
  /\ \E coast \in {-1, 0, 1} :
       Emit(4, BindingStep(ref, cur', elapsed), pos + coast)
  /\ braked' = TRUE
  /\ SolveFrame

Cycle == HoldBraked \/ PassThrough \/ Reshape \/ TriggerBrake \/ Succeed

-----------------------------------------------------------------------------
(***************************************************************************)
(* The environment.                                                        *)
(***************************************************************************)
Saturate(x, top) == Lesser(x + 1, top)

\* One dt of the node's clock.
Tick ==
  /\ age' = IF armed THEN Saturate(age, StallTimeout) ELSE age
  /\ dwell' = Saturate(dwell, StallTimeout)
  /\ elapsed' = IF started THEN Saturate(elapsed, ScheduleEnd) ELSE elapsed
  /\ UNCHANGED <<component, ref, cur, armed, braked, started, pos, out, bounds>>

\* The start signal of the force schedule.  Each message anchors the schedule anew;
\* nothing but a restart of the node forgets it.
ForceStart ==
  /\ started' = TRUE
  /\ elapsed' = 0
  /\ UNCHANGED <<component, operator, braked, pos, out, dwell, bounds>>

RobotFrame == UNCHANGED <<component, operator, braked, started, elapsed, out, dwell>>

\* The controller closes one unit of the distance to the last command.
RobotTracks ==
  /\ out # Nothing
  /\ pos # out.target
  /\ pos' = IF pos < out.target THEN pos + 1 ELSE pos - 1
  /\ UNCHANGED bounds
  /\ RobotFrame

\* Gravity, contact or a saturated joint moves the arm instead.
RobotPushed ==
  /\ pushes < MaxPushes
  /\ pushes' = pushes + 1
  /\ \E p \in Position : Dist(p, pos) = 1 /\ pos' = p
  /\ UNCHANGED <<goals, segments>>
  /\ RobotFrame

-----------------------------------------------------------------------------
Init ==
  /\ goal = "idle" /\ active = FALSE
  /\ ref = NoRoute /\ cur = 0 /\ armed = FALSE /\ age = 0
  /\ braked = FALSE
  /\ started = FALSE /\ elapsed = 0
  /\ pos \in Position
  /\ out = Nothing
  /\ dwell = 0
  /\ goals = 0 /\ segments = 0 /\ pushes = 0

Next ==
  \/ AcceptGoal
  \/ \E r \in Route : AddTrajectorySegment(r)
  \/ Abort
  \/ Cycle
  \/ Tick
  \/ ForceStart
  \/ RobotTracks
  \/ RobotPushed

Spec == Init /\ [][Next]_vars

\* The timer keeps firing and the clock keeps running while a goal runs.
TimerFairness == WF_vars(Cycle) /\ WF_vars(Tick)
TimedSpec == Spec /\ TimerFairness

-----------------------------------------------------------------------------
(***************************************************************************)
(* Safety.                                                                 *)
(***************************************************************************)

\* While a goal runs, the solver's latch and the published level agree: it is
\* latched exactly from the first Level 4 of this goal on, whatever routes are
\* delivered meanwhile; and no goal inherits the latch of an earlier one.
BrakeLatched ==
  /\ goal = "running" => (braked <=> out.level = 4)
  /\ goal # "running" => ~braked

\* "Sticky brake, every cycle, once triggered, forever" (ros2_ws README): after
\* Level 4 a running goal is never again commanded along a route; every later
\* command holds the configuration measured in its own cycle.
BrakeIsFinal ==
  [][(goal = "running" /\ goal' = "running" /\ out.level = 4)
       => \/ out' = out
          \/ out'.level = 4 /\ out'.target = pos]_vars

\* The warning is as early as the horizon allows: when the cycle before cleared
\* the same route at Level 0, and time and progress both moved one step since,
\* the brake triggers on the last horizon step.  (With the progress gate shut
\* or the force clock jumping, the lead is lost: nothing is claimed then.)
FullHorizonLead ==
  [][(/\ ~braked /\ braked'
      /\ out.level = 0
      /\ out'.route = out.route
      /\ out'.at = Lesser(out.at + 1, Duration[ref])
      /\ out'.time = out.time + 1)
       => out'.binding = HorizonSteps - 1]_vars

\* Past the first target of a route, the target moves on from a robot that is
\* not there only after standing for the whole stall timeout.
AdvanceIsEarned ==
  [][(cur' = cur + 1 /\ cur > 0 /\ ~Within) => dwell >= StallTimeout]_vars

\* The same of every target, the first included: "If the target hasn't advanced
\* for progress_stall_timeout_s_ of REAL time, advance anyway"
\* (horizon_trajectory_operator.hpp).  reset() leaves the stall timer armed.
StallWaits ==
  [][(cur' = cur + 1 /\ ~Within) => dwell >= StallTimeout]_vars

\* A goal is reported done only with the route walked to its end and the real
\* robot within tolerance of the final waypoint, so that the loop never stops
\* commanding a robot that has not arrived.
SuccessIsReached ==
  [][(goal = "running" /\ goal' = "succeeded")
       => /\ cur = Duration[ref]
          /\ Dist(Waypoint[ref][Duration[ref]], pos) <= Tolerance]_vars

(***************************************************************************)
(* Liveness, with finitely many routes delivered per behaviour.            *)
(***************************************************************************)

\* The reference is always walked to its end, even when the robot never moves
\* or the solver has braked: the stall timeout opens the progress gate.
ReferenceFinishes == Running ~> (~Running \/ ~Unfinished)

\* With a controller that follows its command, every goal that is being
\* executed ends, or Level 4 latches.
GoalSettles ==
  WF_vars(RobotTracks) => (Running ~> (goal # "running" \/ braked))
=============================================================================
