# Verification of predictive realizability replanning

The program judges a robot's planned route by the joint torque it will need,
and adapts the route, or brakes, before the actuators saturate. The answer is
graded: Level 0 leaves the route alone, 1 slows it, 2 reshapes it by a QP,
3 replaces it by a route through a via point, 4 brakes and stays braked. It
exists twice: a Python reference (`src/code`, MuJoCo) and a ROS 2 workspace
(`src/ros2_ws`, MoveIt hybrid planning). This directory holds TLA+ models of
its logic, TLC runs on small instances, and TLAPS proofs for every value of
the constants.

What the program decides is a matter of comparisons (does this route's margin
clear `m_safe`?) and of state kept between cycles (a latch, a timer, a
counter, a shared simulator). What it computes is real-valued dynamics. The
models keep the first and take the second as constants and arbitrary sets: a
margin is whatever function, or whatever set of passing routes, the instance
or the theorem is about. Nothing is assumed of its shape unless a property
says so.

## 1. Inventory

| Part | State it keeps | Operations | Modelled by |
|---|---|---|---|
| B3 online loop: `horizon_trajectory_operator.cpp`, `b3_constraint_solver.cpp`, two plugins of MoveIt's local planner | reference route, position on it, stall timer; brake latch, start of the force schedule | `addTrajectorySegment`, `getLocalTrajectory`, `getTrajectoryProgress`, `solve`, `reset`, force-start callbacks | `B3LocalPlanner` |
| Certificate: `torque_margin_certificate.cpp`, `certificate.py` | none | minimum margin over a horizon or a route, its step | inside `B3LocalPlanner` (partly) |
| Level 1 search: `route_retime_search.cpp`, `_search_retime_whole_route` | a bracket, locally | probe, scan, bisect | `RetimeSearch`, `RetimeContract` |
| Levels 1 to 3 at planning time: `addTrajectorySegment`, `plan_route`, `via_point_trajectory.cpp` | the route, as the stages replace it | pretrack, judge, retime, reshape, reroute | `RouteChoice` (abstract), `RouteCascade` |
| Level 2 QP: `reshape_qp.cpp`, `_reshape` | none | linearise, solve | its outcomes only |
| Level 4: `_brake_profile`, terminal set of `theorem4_terminal_set.py` | none | build a profile, judge it, step along it | `BrakeLaw`, `BrakeProfile` |
| Reference benchmark: `executor.py`, `baselines.py`, `online_step` | B3's latch and event flags; the shared `arm.data` | `policy_b1/b2/b3`, control, restore, step | `ReferenceRollout` |
| B2 reactive solver: `b2_constraint_solver.cpp` | start of the force schedule | `solve`, `projectQddot`, force start | `B2Reactive` |
| Gravity feedforward controller: `gravity_feedforward_controller.cpp` | latest message, target, integral, life-cycle state | configure, activate, deactivate, update, subscription callback | `GravityFeedforward` |
| Experiment harness: `run_experiment.py` | launched processes, log, rclpy context | clear, launch, wait, record, send goal, tear down | `RunContract` (abstract), `ExperimentHarness` |
| Campaign: `capture_trajectory.py`, `exp2`, `exp3`, `exp4`, `nominal_route_crossing.py` | the captured plan on disk, the results of the cells, the crossing run | capture, cross, run a cell, print | `Campaign` (partly) |
| Result tables: `compute_metrics.py`, `validate_prediction.py` | none | settle window, episodes, latencies, alignment | `RunMetrics` (partly) |
| Fallback studies: `wmi_theorem3_hypothesis_fallback.py`, `wmi_fallback_family.py` | drawn states, the certified plans | admit, judge, sweep, follow, brake or retreat | `ContactWorld`, `FallbackStudies` (parts A to F) |
| Replay global planner | captured response | `initialize`, `plan` | inside `Campaign` |
| Bring-up: three launch files | none | environment to parameters | inside `Campaign`, `ExperimentHarness` (partly) |
| Dynamics, trajectories | MuJoCo's `arm.data`; else none | inertia, torques, interpolation | values are arbitrary functions; `arm.data` is in `ReferenceRollout` |
| Reference experiments, figures | none | scripts over fixed inputs | no: they average or plot |

**How they interact.** A route is delivered once to the operator
(`addTrajectorySegment`), which runs the cascade and installs the result.
From then on MoveIt's local planner calls, once per timer period, the
operator for a horizon and the solver for a command, and asks the operator
whether the goal is reached; when it is, or when the goal is aborted, it resets
both. The solver hears of the force schedule through a callback. The robot
closes the loop through its measured state, which gates the operator's
progress. The Python benchmark has the same shape without threads: plan once,
then every cycle ask the policy, compute the control, restore the simulator,
step. In ROS 2 the published commands end in the gravity feedforward controller,
which turns the newest into efforts; the harness launches all of it, once per
cell of a sweep, sends the goal and with its acceptance the start of the force
schedule. A sweep captures one plan and replays it in every cell; what its
tables compare was recorded by different launches, with clocks of their own.
The fallback studies use the brake of Level 4 under environments the planner
did not believe in.

**What is hard.** Callbacks, cycles, clock and robot interleave; state
outlives what it belongs to (the latch, the stall timer, the force start); a
decision is based on forces or states that differ from those the robot will
meet; the search gives guarantees without monotonicity; boundaries by one
step (last horizon step, end of the route, last braking step); messages that
arrive between life-cycle transitions; processes that outlive the call that
started them; a plan on disk that outlives its sweep; messages read out of
order or lost; a world model that is wrong in the middle of a plan. `PROJECT.json`
lists each hazard at its line, with the properties aimed at it.

**What makes each part correct.**
- Online loop: the brake latches for the goal and only for it; the warning
  uses the whole horizon; progress is earned by the robot or by a timeout;
  success means arrival; every reference is walked and every goal settles.
- Search: the answer clears, sits at a crossing, is the smallest under
  monotonicity; giving up is honest.
- Cascade: what is adopted clears under its own forces; the least intrusive
  level wins; a failed cascade leaves the pretracked primary route.
- Brake: rest at the closed-form step, at the right place; the terminal set is
  invariant.
- Benchmark: the plant is stepped from the truth; a certified route runs
  uninterrupted; a warning comes a horizon ahead; events are counted once.
- Controller: no target outlives its activation; activation is bumpless; the
  integral never winds up behind its clamp.
- Harness: a call cleans up however it ends, meets nothing of earlier calls, returns
  only on success, and always ends.
- Campaign: a table compares like with like; a lead is a difference of comparable
  instants; no number depends on the order of reading.
- Fallback studies: recovery does not rest on the hypothesis; a true hypothesis is
  never reported false; a false one is detected before it hurts.

## 2. Modules and their correspondence to the code

`PROJECT.json` maps every definition to its lines. Module names are those of
the parts; `MC*` modules give instances, `*_proof` modules hold theorems.
Operators under a comment "Mutation:" are plausible bugs. No action uses them;
each is there to show that a property would notice it.

**B3LocalPlanner.** `ref`, `cur`, `armed`, `age` are the operator's
`reference_trajectory_`, `current_duration_`, `has_stall_start_` and the age
of `stall_start_time_`; `braked`, `started`, `elapsed` are the solver's
`braked_`, `force_started_` and schedule time; `goal` and `active` are what the
plugins rely on of MoveIt's component, which is outside the repository (those
definitions are marked external). One action per callback: `AddTrajectorySegment`,
`Abort`, `AcceptGoal`, `ForceStart`, and the timer's `Cycle`. A cycle is
`getTrajectoryProgress` and then either `Succeed` with its reset, or
`getLocalTrajectory` (`AdvanceProgress`) and `solve` with its ways out:
`HoldBraked`, `PassThrough` (Level 0), `Reshape` (Level 2), `TriggerBrake`
(Level 4). They are atomic because the component's callbacks share one
mutually exclusive callback group. `Tick`, `RobotTracks` and `RobotPushed` move
clock and robot between any two of them; each message of `ForceStart` anchors the
schedule anew, also in mid-goal. Time is counted in control steps;
configurations are integers on a line, which keeps what the code reads of
them: a distance to the target against a tolerance. `dwell` and `out` are
history: how long the target has stood, and what was last published.

**RetimeSearch.** One action per stage of the search: `TryMaximum`,
`TryCandidates` (Python only; C++ is the case of no candidates), `ScanGrid`,
`Bisect`, `Return`. The interval of dilations is a grid of integers; which
of them clear is an arbitrary set. `RetimeContract` states in one operator what
callers rely on: a feasible answer, or none when no grid point is feasible.

**RouteChoice and RouteCascade.** `RouteChoice` is the promise: in one step,
the first of the six adaptations (primary or via route; plain, retimed or
reshaped) that clears. `RouteCascade` is the code's sequence of stages, one
action each, with `Pretrack` for the C++ side and the ablation flags for the
Python side; `CascadeInit` says which flags either can have. The cascade uses
`RetimeContract` in place of the search, and it implements `RouteChoice`
(`ImplementsChoice`, with the identity mapping of the shared variables). That a
QP is solved and that its result clears are separate facts, because the
QP sees the forces of the route it started from.

**BrakeLaw and BrakeProfile.** `BrakeLaw` is one step of the recursion and the
closed form it leads to; `BrakeProfile` shows the two agree, so that the studies,
which judge whole profiles, can use the closed form. `Build` adds a step of `_brake_profile`, `JudgeProfile` is
`_in_Xf`, `Advance` derives the profile again from its own next state, as
the experiment's `part_b` does. Positions are in half units so that
the code's mid-step term stays an integer. The torque certificate is any
predicate of the state.

**ReferenceRollout.** A cycle is policy, control, restore, step, as in
`executor.py`. `sim` says whose state and which force the one shared
`arm.data` holds; every dynamics query overwrites it. The margin along the
route is abstracted to the samples that fail (`fails`) and that exceed the
limit (`over`). `first` and `online` are history.

**B2Reactive.** `solve` with its ways out: `PassNominal`, `PassUnjudged` (the
dynamics failed), `Project`, `GiveUp` (the QP has no solution). One joint
of unit inertia at the state of its waypoint: with one joint the QP is the nearest
admissible acceleration. `ForceStart` and `Tick` are the schedule.

**GravityFeedforward.** `pending` and `current` are the two sides of the
`RealtimeBuffer` (external): `Receive` writes on the subscription's thread,
`Update` reads without ever waiting, so a write under way leaves it the older
message. `target`, `have_target` are the code's; `windup` is `i_gain *
integral_error`, which the code back-calculates from the clamped `term`.
`Configure`, `Activate`, `Deactivate` are the overridden transitions; `CleanUp`
is not overridden, so subscription and buffer outlive it. `Update` is
`ReadBuffer`, `PickUp`, `Integrate`. The feedforward, proportional and damping
terms keep no state and are left out. `since`, `from`, `untouched` are history.

**ExperimentHarness.** `at` is the line `run_one` has reached; each step that can
fail or wait is an action, with one for each way it can end. `alive` and `born`
hold the processes: `launch` (ros2 launch and the plain nodes), `sim`, `loader`
(the two `load_controller` commands), `daemon` (the ros2cli daemon they start,
which leaves the process group) and `recorder`. `Group` is what `killpg`
reaches, `Matched` what `PKILL_PATTERN` matches. `Die` is the end of the
harness's process at any step, a `Popen` that raises outside the `try`
included; the next `Begin` is then another process's. The world starts
processes, lets any exit, and answers the goal, also after the client has
given up; since the domain is drawn at random, any action server alive may answer.

**RunContract.** What a sweep relies on: one call at a time, which is refused, returns,
raises or dies, and returns only if its own goal arrived. `ExperimentHarness` implements it
(`ImplementsContract`): a call is in progress when `at` is not idle, and its goal has
arrived when its own server executed it with the force schedule started. `Campaign`
uses the contract: of a call it sees only that it returned (`RunCell`, `CrossRun`,
`Capture`) or did not (`CellFails`, `CrossFails`, `CaptureFails`).

**RunMetrics and Campaign.** `RunMetrics` holds what the scripts compute of one bag, as
operators, each a set or an extremum over the sorted messages: the settle window, the last violation, episodes, the start of execution, the
first detection, the first whole-route log, the validation of predictions. A bag is a
sequence of messages in the order of reading; each has the time it was recorded (`at`)
and, for diagnostics, the stamp of its own clock. `Campaign` runs one script, over and
over: `Capture` writes the plan to `disk`, `CrossRun` is the route-level run of exp3,
`RunCell` a cell of any script; `End` is both the end of the script and its death, of
which only `disk` remains. `HybridPlanningDemo`, `B2Demo` and `B3Demo` are the launch
files: what a run's environment becomes in the simulator (`world`) and in the planner
(`told`). Of a cell in exp3 the model derives the diagnostics from the ramp, cycle by
cycle, with one message lost or none; the bags of exp2 and exp4 are arbitrary members of
`Recordings`, since no property relates them to the physics.

**ContactWorld and FallbackStudies.** `ContactWorld` is the platform of the two studies: a
surface of unknown height and stiffness, the force it exerts, the margin under a box of
environments by its two corners, the threshold of detection, and the manoeuvres. The
arm is any function of the state. The way out of a retreat is a recursion over its steps
(`Withdrawal`), the brake is its closed form. `FallbackStudies` has an action per row of a study:
`Draw`, `Admit`, `Judge` (parts A, B, D), `Sweep`, `Follow`, `Sample` (part C: which plan
is deepest under the hypothesis, and with condition (b); then what its samples meet),
`JudgeContact`, `JudgePayload`, `Belongs` (parts E and F; every part builds an arm of its
own and judges the contact before the payloads, so a margin depends on its arguments only).

**Composition.** Search -> `RetimeContract` -> cascade -> `RouteChoice`. Harness -> `RunContract` ->
campaign. Brake recursion -> closed form -> studies. The
online loop takes whatever route the cascade settled on as an arbitrary member
of `Route`; the rollout takes the planning verdict (`plan`) and assumes of it
only what a certified route means (`Planned`).

## 3. Runs

| Run | Instance | What it shows |
|---|---|---|
| `b3_loop` | 2 goals, 2 routes, 2 deliveries, 1 push, horizon 2, timeout 2, schedule 3, `TimedSpec` | the latch, the lead of the warning, the progress gate and the report of success, under every interleaving; references are walked to their end; goals end or brake |
| `b3_stall_timer` | the same, `Spec` | violation, see Findings |
| `retime_search` | 2 cells of 4 dilations, 2 halvings; every feasible set and candidate set | what the search returns |
| `route_cascade` | 2 dilations, 1 on the grid; every verdict, QP outcome and flag | the cascade's promises, and that it implements `RouteChoice` |
| `brake_profile` | 2 joints, horizon 3, every start of 3 positions and 11 velocities per joint | rest, the closed form of every step, invariance of the terminal set |
| `reference_rollout` | 4 cycles, horizon 2, every policy, flag, verdict and set of failing samples | the rollout's promises |
| `b2_projection` | waypoints of 7 accelerations and 11 biases, limit 4, force up to 2 | violation, see Findings |
| `gravity_feedforward` | 2 joints, 3 contents of a message, 4 messages, 2 activations | targets, bumpless activation and anti-windup under every interleaving |
| `experiment_harness` | 2 calls, any crash, hang and late answer | clean-up, isolation and end of a call, and that it implements `RunContract` |
| `campaign` | 2 sweeps of any script, 2 payloads, routes of 4 cycles, 2 latencies, 2 stretches, 3 ramps, 1 lost message | what enters a table is comparable and means what it says |
| `fallback_studies` | 6 hypotheses, 10 truths, 36 states, 4 plans of 9 samples, 2 payloads | recovery, detection, membership and survival of the family |
| `fallback_retreat` | the same | violation, see Findings |

**Why the bounds suffice.** In the online loop, two routes and two goals are what
it takes for state of one to reach the other; a horizon of two separates the
current step from the last; a timeout of two separates arming, waiting and
expiry; one push is enough to move the robot off its target at any moment;
`direct` fails only after the force has ramped (a late warning), `detour` at once
and strides past the tolerance (the stall timer is needed). The search's grid
has an inner and an outer cell, and two halvings resolve every dilation of a
cell. The cascade's single off-grid dilation is the one a search may or may not
find. The brake's velocities include one that cannot be stopped within the
horizon. The rollout is longer than its horizon and looks past the end of the
route. The controller's messages name both joints, one, or one without a position;
two activations are what it takes for a target of one to reach the other, and one
joint's gain reaches its clamp in two updates while the other has no gain. Two calls
of the harness are one that leaves something behind and one that meets it; a third
would meet only what the second left. Two sweeps are what it takes for the plan of one
to reach the other; a stretch of two and a latency of one are what moves an instant of
one launch against another's; a ramp begins before the run, during it, or at a pose
reached in the middle. Of the truths some lie within the hypothesis, some only within the
physical bound, some outside of both; the plans dip from harmless to unsafe. The manoeuvres are judged state by state,
so one drawn state at a time (`MaxStates`) is enough. Counters (`MaxGoals`, `MaxSegments`,
`MaxPushes`, `MaxMessages`, `MaxSwitches`, `MaxRuns`, `MaxSweeps`) and clocks
(`ScheduleEnd`, `StallTimeout`) saturate or bound by their names; the schedule
is constant after `ScheduleEnd`, so a saturated clock loses nothing.

**Stopping.** Deadlock is checked in every run but `campaign`, which stops when the sweeps
are through. The MC modules of the search,
the cascade, the rollout and the harness add a `Finished` stutter, enabled in their
final stage only; the other models never stop.

**Fairness.** `TimedSpec` assumes weak fairness of `Cycle` and of `Tick`: the
component's timer is periodic as long as the goal runs and the node's
clock advances. Nothing is assumed of the robot: `ReferenceFinishes` holds for
one that never moves. That it follows its command is a premise inside
`GoalSettles`, not an assumption of the specification. Routes are delivered
finitely often (`MaxSegments`): a planner that replaces the route forever
restarts it forever. `FairSpec` of the harness assumes weak fairness of the calling
process alone: every wait in `run_one` has a timeout, so `EveryCallEnds` needs
nothing of the processes it started.

**Mutants.** Every property of a passing run is broken by at least one mutation
of a mapped definition, under the run's own configuration.

## 4. Findings

- `b3_stall_timer`: the operator's `reset()` (`horizon_trajectory_operator.cpp:422`)
  leaves the stall timer armed. A route delivered while the timer of the one
  before runs can advance past its first target without the timeout that
  `horizon_trajectory_operator.hpp:88` describes. `AdvanceIsEarned`
  is what remains true: all targets but the first.
- `b2_projection`: B2's torque test subtracts the external force, `projectQddot` does
  not (`b2_constraint_solver.cpp:123`), so under a force the projected acceleration
  may need more torque than there is. The comment at `:101` claims the "same problem as
  `code/baselines.py::_torque_feasible_qddot`", which includes the force
  (`baselines.py:29`).
- `fallback_retreat`: of the steps a retreat has left after braking (`n_out`), half
  accelerate, and all others but the last decelerate (`wmi_fallback_family.py:155`). With
  an even `n_out` one deceleration is missing and the manoeuvre ends at speed, although
  the docstring (`:131`) says it will "come to rest again". The horizon of 45 steps makes
  every start even that needs an odd number of steps to stop. The studies judge torques
  only, so their tables do not show it.

## 5. Proofs

The theorems hold for every value of the constants that satisfies the named
assumptions of the module: routes with valid durations and waypoints, integer
margins, a horizon of at least one step (two for the brake), a bracket width
that at most halves per step, grid points among the dilations, an arm whose heights, lifts,
directions and torques are functions of the state (`Arm`), hypotheses that contain what they
assert, ramps that warn no later than they cross and cross no later than they fail, recordings
that are sequences of messages. They assume
nothing of the shape of margins, feasible sets or verdicts. Every state machine with a
proof module has its type invariant proved, and every safety property a passing run checks,
state or step, is stated by a theorem.

Two techniques recur. *Recursion and extrema.* The library's induction theorems take an
operator as a parameter, which the provers cannot instantiate; its statements that an order is
well-founded do not. `LeastOf` and `LeastNatural` get the least element of a set of naturals
from `NatLessThanWellFounded`, `HasSmallestMember` the smallest of a collection of finite sets from
`FS_StrictSubsetOrderingWellFounded`. A statement about all steps of a recursion is then
proved by its least counterexample, and that a recursion has a solution at all by the least
length for which it has none (`RecursionExists`). *Sequences as sets.* What is computed
of a bag is stated by the messages and the rank of each in time; the one fold left counts
episodes of a sequence that is proved to be the same.

- **B3LocalPlanner_proof.** Invariant: types, `BrakeLatched`, `PassedHorizonClears`
  (the last Level 0 output of a goal cleared the certificate when it was
  published: without it `FullHorizonLead` could not conclude that only the new
  last step can fail), and `TimerIsHonest` (past the first target, the stall
  timer is no older than the target's dwell: a delivery breaks this at the first
  target, which is the finding above). From it: `BrakeIsFinal`, `FullHorizonLead`,
  `AdvanceIsEarned`, `SuccessIsReached`.
- **RetimeSearch_proof.** Invariant: the bracket's `hi` is feasible, its `lo` is not,
  and its width is bounded by `Width[step]`; each stage records what the earlier
  ones excluded. From it the four properties of the run, and `SearchKeepsContract`,
  which discharges what `RouteCascade` relies on.
- **RouteCascade_proof.** Invariant: types, at each stage every adaptation preferred to
  it is exhausted; pretracking left a dilation with the relative margin or none
  exists on the grid. From it `CascadeImplementsChoice`: every stage stutters or takes
  the one step of `RouteChoice`. `ChoiceKeepsPromises` proves the promises of
  the abstract specification, `CascadeKeepsPromises` and `ReroutesAreNecessary` inherit
  them through the refinement, `CascadeFallsBack` needs the detailed invariant.
- **TerminalSet_proof**, of `BrakeProfile`. Invariant `ProfileInv`: every built step is the
  step of the one before, and velocities follow the closed form. From it `RestsExactly`, and
  `RecursivelyFeasible`: the re-derived profile is the old one moved up, and its new
  last step is at rest where the old one rested, so it was judged before.
  `ProfileIsClosedForm` adds the positions: `TravelSteps` says that one more step of
  travel is one step of the recursion, with the division eliminated by
  `FullIsExact` before the quadratic terms are compared.
- **TerminalSet_proof**, of `FallbackStudies`. The studies evaluate two corners of a box;
  `MarginCovers` and `SwingCovers` say why that covers every environment in it (the force lies
  between the corners' because it grows with height and stiffness, and a torque affine in the
  force is largest at an end). Invariant `IInv`: what is admitted is in the terminal set it was
  admitted to, the plan called `b` maintains condition (b) at every sample, and detections and
  violations found so far are those of the samples seen. From it `FallbackSurvives`,
  `NoFalseAlarm`, and `DetectedInTime`: at a violation the deviation exceeds the banked
  margin, hence the threshold.
  Of the family, invariant `FamilyInv`: the drawn states can rest in time, and an answer and
  a membership say what the margins at the asked payload say of their state and fallback.
  `MembersAreSaved` adds two facts. The points of both
  manoeuvres are points of the arm (`ManoeuvreIsTyped`, the retreat's by `WithdrawalIsTyped`),
  so `MarginCovers` applies to each. And the brake of a brake's second point runs through
  the points the first has left and then stays (`BrakeGoesOn`, `BrakeEnds`), so the set is closed.
  `RetreatEndsAt` solves the retreat's recursion for its speed (`Surplus`): zero where the way
  out is odd, one deceleration along it where it is even. That is the finding of
  `fallback_retreat` for every arm and horizon, and `OddRetreatsComeToRest` what remains true.
- **ReferenceRollout_proof.** Invariant: types, counters tied to the phase, what the simulator
  holds in each phase, and that every sample already in view either passes or has
  triggered. From it `StepsFromTruth`, `CertifiedRouteRuns`, `WarnsAHorizonAhead`,
  `BrakeIsSticky`. `ReplansAreEvents` counts over the trace: appending a cycle adds
  its index to the set of events or leaves it (`EventsAppended`), and the counter does
  the same (`PolicyCounts`).
- **GravityFeedforward_proof.** Invariant: types, `BufferIsRecent` (what the buffer of
  an active controller holds was received since its activation, without which the next
  update could pick up an older target), `TargetsAreRecent`, `IntegralOK` (the
  integral is the state its clamped term came from) and `BumplessStart`. From it
  `UnwindsAtOnce`: within the clamp, a pull of the other sign moves the term.
- **ExperimentHarness_proof.** Invariant: types, one call at a time, `Staged` (what each
  stage has not started yet or has stopped already: after the group is killed only the
  daemon is left, and nothing that could start another), `Alone` (from the clearing on,
  launch and simulator of other calls are gone and nothing left can start them) and
  `Answered`. From it `NothingLeft`, `ReturnMeansSuccess`, `ReadyIsOwn`, and
  `HarnessImplements`: a step is one of `RunContract`, or a stutter.
- **Campaign_proof.** Invariant `CampaignInv`: types; `Phase` (between sweeps nothing is
  collected, and while cells run the plan on the disk is this sweep's: without it a cell could
  replay an older one); `RanAsTold` (a finished cell ran the plan of its sweep, in the physics
  its planner was told of); `DetectedFirst` and `CrossedFirst` (which cycle of the ramp a
  detection or a crossing is about, up to the message the recorder lost). From the third
  `LikeForLike`. From the last two `LeadsByTheHorizon`: a step that crosses has warned before,
  at the latest a horizon earlier or with the first cycle, and what is read of either run is
  off by its own lost message only. For the latter the lemmas follow a message through the
  bag: it is recorded unless it is the hole (`RunIsRecorded`), sorting keeps and ranks it
  (`RanksAreBijective`, `SortingKeeps`), and the first that qualifies is read
  (`DetectionIsEarliest`, `CrossingIsFirst`). `SuccessIsSustained`, `ReadOrderIsIrrelevant` and
  `ValidatesItsOwnCycle` hold of any bag whose times differ, and follow from the types.

**Only model-checked:** the liveness properties `ReferenceFinishes`, `GoalSettles` and
`EveryCallEnds`: they need fairness, hence ENABLED, which is beyond the prover. The three runs
that expect a violation are refutations and have nothing to prove.

## 6. Not modelled, and limits

- Dynamics, interpolation and the QP's arithmetic are outside TLC's reach. A
  failed dynamics solve, which the certificate skips, is not modelled: the
  models' margins are total.
- `getTrajectoryProgress` of a cleared reference reports 1.0; MoveIt's component
  leaves its active state with the reset that clears it, so no cycle sees it.
- MoveIt, the joint controller, MuJoCo and the clock are environment, modelled
  from how the code uses them.
- In the rollout the level a cycle reports and the recorded traces are left
  out: nothing reads them back. A route event and a brake in the first cycle count
  as one replan, since the code has one flag per cycle; `ReplansCountEvents`
  says so.
- `reset()` of the controller's buffer takes no lock; a race of it with a write inside
  realtime_tools is not modelled.
- `NothingLeft` speaks of calls that ended. What a call leaves when the harness dies is
  modelled: the next call's `pkill` reaps launch, simulator and daemon, but
  `PKILL_PATTERN` matches neither the recorder nor the loaders, which stay. `pkill` is
  atomic in the model. A node that cannot be created leaves rclpy initialised, and
  every later call of the same process then fails (`NodeFails`, `Connect`).
- `binding_step` is the worst step of the horizon, not the first failing one
  (`torque_margin_certificate.cpp:101`): a positive value does not mean that the current
  step still clears, which `b3_constraint_solver.cpp:295` leaves to its reader.
- Bisection returns a feasible dilation at a crossing of its bracket; that it is the
  smallest (`local_planner.py:308`) needs the monotonicity `SmallestWhenMonotone` names.
- `LeadsByTheHorizon` names its conditions. The crossing run's log is of the route as
  pretracked with the force, not of the "unmodified" one (`nominal_route_crossing.py:50`):
  the two times are comparable only if that stretches nothing. With the force heard late
  or never, or with different planning latencies under a force that still ramps, the
  difference means something else.
- B1's failures: run_one raises when a goal is not reached, so the cell of exp2 has no
  success to compare with `False` (`exp2_payload_sweep.py:86`), and the first violation of
  B1 stays empty. A brake in the crossing run makes it raise as well, and the table says
  "never" (`exp3_interaction_force.py:187`).
- `DetectedInTime` compares the banked margin with the threshold at the violation. The
  study prints it beside the threshold at the detection
  (`wmi_theorem3_hypothesis_fallback.py:373`), which says less where the threshold grows along the plan.
- The retreat integrates its position with the velocity of the end of the step plus the
  half-step term (`wmi_fallback_family.py:162`), the brake with that of its beginning; the model
  does what the code does.
- Not modelled of the studies: part G, which fits two regressors by least squares, the sweep over
  the scale of eps_R, and their self-checks. Not modelled of the result tables: means, deciles and
  error summaries; `goal_fragility_variance.py`, `sample_progress.py` and the smoke tests,
  which send one goal and print what they read. The scripts of `src/code/experiments` other than
  the terminal set and the fallback studies, `metrics.py` and `run_all.py` call the modelled
  planner over fixed inputs and average or plot what it returns. `fr3_mujoco_demo.launch.py` is
  called by nothing.
- `ReferenceRollout` takes the samples of planning, at `dt*(k+j)`, and of the online cycle, at
  `t0 + dt*j`, for the same. On a route reshaped by Level 2, a table of samples
  (`trajectory.py:136`), rounding of the two times may select neighbouring entries.
- The solver and the operator each keep a start of the force and each re-anchors on every
  message (`b3_constraint_solver.cpp:95`, `horizon_trajectory_operator.cpp:142`); the model has
  one clock for both, so a message that reaches one before the other is left out. No
  property claims a lead for the step in which the clock jumps.
- B2's several joints share one QP; the model has one joint, so coupling through the
  inertia matrix is left out.
- `CertifiedRouteRuns` names its condition: past the end of the route the rollout holds the
  goal, and the certificate judged only the route's last sample.

## 7. Plan

Done, in the order of importance: the online loop; the search; the brake; the
cascade with its abstract specification; the benchmark's rollout; the
controller; B2; the harness with the contract it implements; the campaign over that
contract and its tables; the fallback studies; the theorems above.

Left:
1. **Failing dynamics solve** in the certificate: a horizon of skipped steps, and what
   an empty horizon means to its callers.
2. **Composition of the cascade and the online loop**: a route that clears the
   whole-route certificate under the schedule the loop will meet never brakes.
3. **Level 2 online**: the reshaped horizon of `solve`, of which only the first waypoint
   is commanded, against the reference that continues unchanged.
4. **Campaign over the detailed harness**, in place of its contract: a cell that dies
   inside a call, and the processes it leaves to the next.
5. **Proofs**: of B2, that an intervention misses its limit by no more than the external
   torque (`B2Reactive` has no theorem yet); of the online loop and the harness, the variants
   their liveness rests on, as safety properties.
