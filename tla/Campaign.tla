-------------------------------- MODULE Campaign --------------------------------
(***************************************************************************)
(* The sweeps of ros2_ws/src/scripts: capture one plan, then replay it for *)
(* every baseline, under a payload (exp2_payload_sweep.py), a force nobody *)
(* announced (exp3_interaction_force.py) or a known contact                *)
(* (exp4_contact_transition.py).  Each cell is a call of run_one, which    *)
(* returns or raises as RunContract says; its environment variables become *)
(* the parameters of the nodes in the launch files.                        *)
(*                                                                         *)
(* Time is counted in control cycles.  The force is a ramp that is held:   *)
(* from a pose of the route on, and from three times of the schedule on,   *)
(* a margin is below m_safe, below 0, and the torque above its limit.      *)
(***************************************************************************)
EXTENDS RunMetrics

CONSTANTS
  Payloads,     \* the payloads of exp2, in the order they are swept
  Latencies,    \* from the goal's acceptance to the start of execution
  HorizonSteps, \* b3.horizon_steps
  Cycles,       \* cycles the replayed route lasts
  Extension,    \* kExtensionSteps: the terminal state is held so long
  Stretches,    \* what the force-aware pretracking retime may multiply the route by
  Ramps,        \* [pose, warn, cross, fail]
  Recordings,   \* Recordings[name]: the bags a run of exp2 or exp4 may leave
  MaxSweeps     \* bound: sweeps

\* A route lasts more than a cycle, a ramp grows, some run succeeds, and the stamps
\* are counted in cycles like every other time.
ASSUME CampaignAssumption ==
  /\ Payloads \in Seq(Int)
  /\ Latencies \subseteq Nat /\ Latencies # {}
  /\ HorizonSteps \in Nat \ {0}
  /\ Cycles \in Nat /\ Cycles >= 2
  /\ Extension \in Nat
  /\ Stretches \subseteq Nat \ {0}
  /\ Ramps \subseteq [pose : Nat, warn : Nat, cross : Nat, fail : Nat] /\ Ramps # {}
  /\ \A r \in Ramps : r.warn <= r.cross /\ r.cross <= r.fail
  /\ \A name \in {"B1", "B2", "B3"} :
       /\ Recordings[name] \subseteq BagSet
       /\ \E b \in Recordings[name] : ~Unusable(b.joints)
  /\ MaxSweeps \in Nat /\ Settle \in Nat /\ Tolerance \in Nat
  /\ Period = 1
  /\ None \notin Int

Baselines == <<"B1", "B2", "B3">>
Script == {"exp2", "exp3", "exp4"}
Fresh == 0      \* any plan OMPL has just found; captured plans are numbered by sweep
ForceStart == 1 \* when the node's clock read as the force schedule started

VARIABLES
  sweep,      \* the number of the sweep
  script,     \* which script runs; no two share a file
  at,         \* where it is
  disk,       \* the plan in its nominal trajectory file, or None
  ramp,       \* the ramp of this sweep
  bag,        \* the bag of the latest run
  ledger,     \* the results of the cells so far
  crossing,   \* the result of the crossing run, or None
  failed      \* the attempts at the crossing run that raised

vars == <<sweep, script, at, disk, ramp, bag, ledger, crossing, failed>>

NoBag == [joints |-> <<>>, sent |-> {}, routes |-> {}, diag |-> <<>>, routed |-> FALSE]

-----------------------------------------------------------------------------
\* What a script adds to the environment; everything else has its default.
Unset == [planner |-> "ompl", force |-> "none", known |-> FALSE, payload |-> 0]
Replay == [Unset EXCEPT !.planner = "replay"]

Exp2Env(payload) == [Replay EXCEPT !.payload = payload]
Exp3Env == [Replay EXCEPT !.force = "ramp"]
Exp4Env(name) == [Replay EXCEPT !.force = "spring", !.known = (name = "B3")]
CrossingEnv == [Exp3Env EXCEPT !.known = TRUE]

Env(cell) ==
  IF script = "exp2" THEN Exp2Env(cell.payload)
  ELSE IF script = "exp3" THEN Exp3Env
  ELSE Exp4Env(cell.name)

\* What the launch files make of it: the physics the simulator runs, and what the
\* local planner is told of it.  robot_description carries the payload to every
\* node; B1 has no parameters for the force, and only B3 may plan with it.
Simulator(env) == [payload |-> env.payload, force |-> env.force]
B1Params(env) == [payload |-> env.payload, force |-> "none", ahead |-> FALSE]
B2Params(env) == [B1Params(env) EXCEPT !.force = env.force]
B3Params(env) == [B2Params(env) EXCEPT !.ahead = env.known /\ env.force # "none"]

Nodes(env, params) == [planner |-> env.planner, world |-> Simulator(env), told |-> params]

HybridPlanningDemo(env) == Nodes(env, B1Params(env))
B2Demo(env) == Nodes(env, B2Params(env))
B3Demo(env) == Nodes(env, B3Params(env))

Launched(name, env) ==
  IF name = "B1" THEN HybridPlanningDemo(env)
  ELSE IF name = "B2" THEN B2Demo(env)
  ELSE B3Demo(env)

\* ReplayGlobalPlanner serves the file, whatever is in it.
Plan(nodes) == IF nodes.planner = "replay" THEN disk ELSE Fresh

-----------------------------------------------------------------------------
(***************************************************************************)
(* What a run of exp3 records.                                             *)
(***************************************************************************)
Pose(k) == Min({k, Cycles - 1})

Reached(k, time, onset) == Pose(k) >= ramp.pose /\ time >= onset

\* B2 looks at the current instant; B3 at every step of its horizon, each of
\* which is a cycle later than the state it pairs with the force.  Until the force
\* schedule has been heard of, B2 knows of no force and B3's schedule stands still.
Acts(name, k, clock, heard) ==
  IF name = "B2" THEN heard /\ Reached(k, clock, ramp.fail)
  ELSE \E j \in 0 .. HorizonSteps - 1 : Reached(k + j, clock + j + 1, ramp.warn)

\* The diagnostics of cycle k.
Message(name, nodes, latency, heard, k) ==
  [at |-> k, stamp |-> ForceStart + latency + k,
   acts |-> /\ nodes.told.force # "none"
            /\ Acts(name, k, IF heard THEN latency + k ELSE 0, heard),
   margin |-> 0, bind |-> k % HorizonSteps]

\* One message a cycle, of which the recorder may lose one.
Diagnostics(name, nodes, latency, heard) ==
  LET all == [i \in 1 .. Cycles |-> Message(name, nodes, latency, heard, i - 1)]
  IN {all} \cup {RemoveAt(all, n) : n \in 1 .. Cycles}

\* The whole-route log of the crossing run: the route as pretracked, its end
\* held, from the schedule time it is delivered at; a route delivered again
\* starts over at step 0.
RouteLog(nodes, stretch, start, again) ==
  LET Line(i) ==
        [step |-> i, time |-> start + i,
         margin |-> IF nodes.told.ahead /\ Reached(i \div stretch, start + i, ramp.cross)
                      THEN -1 ELSE 1]
      batch == [n \in 1 .. stretch * Cycles + Extension |-> Line(n - 1)]
  IN batch \o IF again THEN <<[step |-> 0, time |-> 0, margin |-> -1]>> ELSE <<>>

\* A run returned; its nodes found the plan they were to serve.
Returned(nodes) == Plan(nodes) # None

\* The order the reader returns messages in is not that of the recording.
Read(msgs) == {msgs, <<Last(msgs)>> \o Front(msgs)}

BagsOf(cell, nodes, latency, heard) ==
  IF script # "exp3" THEN Recordings[cell.name]
  ELSE LET some == CHOOSE b \in Recordings[cell.name] : ~Unusable(b.joints) IN
       IF cell.name = "B1" THEN {some}
       ELSE {[some EXCEPT !.diag = d] :
               d \in UNION {Read(e) : e \in Diagnostics(cell.name, nodes, latency, heard)}}

-----------------------------------------------------------------------------
(***************************************************************************)
(* The scripts.                                                            *)
(***************************************************************************)
\* The results of an earlier sweep are gone, its plan is not.
Start ==
  /\ at = "idle"
  /\ sweep < MaxSweeps
  /\ sweep' = sweep + 1
  /\ at' = "capturing"
  /\ ramp' \in Ramps
  /\ script # "exp3" => ramp' = ramp
  /\ ledger' = <<>> /\ crossing' = None /\ failed' = 0 /\ bag' = NoBag
  /\ UNCHANGED <<script, disk>>

\* capture_nominal_trajectory: one plan of B1's stock launch file, on the disk.
Capture ==
  /\ at = "capturing"
  /\ Plan(HybridPlanningDemo(Unset)) = Fresh
  /\ disk' = sweep
  /\ at' = IF script = "exp3" THEN "crossing" ELSE "cells"
  /\ UNCHANGED <<sweep, script, ramp, bag, ledger, crossing, failed>>

\* Mutation: the sweep goes on with whatever is on the disk.
CaptureFailsQuietly ==
  /\ at = "capturing"
  /\ at' = "cells"
  /\ UNCHANGED <<sweep, script, disk, ramp, bag, ledger, crossing, failed>>

\* The run raised, nothing was recorded, or the first plan was no success.
CaptureFails ==
  /\ at = "capturing"
  /\ at' = "idle"
  /\ UNCHANGED <<sweep, script, disk, ramp, bag, ledger, crossing, failed>>

\* run_nominal_route_crossing.  The force schedule may start before the route is
\* delivered, after it, or with nobody listening.
CrossRun ==
  /\ at = "crossing"
  /\ LET nodes == B3Demo(CrossingEnv) IN
     /\ Returned(nodes)
     /\ \E latency \in Latencies, stretch \in Stretches, again \in BOOLEAN,
          heard \in {"before", "after", "never"} :
        \E d \in Diagnostics("B3", nodes, latency, heard # "never") :
          LET log == RouteLog(nodes, stretch, IF heard = "before" THEN latency ELSE 0, again)
              t0 == IF heard = "never" THEN None ELSE ForceStart
          IN crossing' = [time |-> Anchored(RouteCrossing(log), ExecutionStart(d, t0)),
                          latency |-> latency, stretch |-> stretch, heard |-> heard,
                          lost |-> Cycles - Len(d), route |-> Plan(nodes), world |-> nodes.world]
  /\ at' = "cells"
  /\ UNCHANGED <<sweep, script, disk, ramp, bag, ledger, failed>>

\* One retry; then the sweep goes on without a crossing time.
CrossFails ==
  /\ at = "crossing"
  /\ failed' = failed + 1
  /\ at' = IF failed' = 2 THEN "cells" ELSE at
  /\ UNCHANGED <<sweep, script, disk, ramp, bag, ledger, crossing>>

Cells == IF script = "exp2" THEN Len(Payloads) * Len(Baselines) ELSE Len(Baselines)

Cell ==
  LET n == Len(ledger) IN
  [name |-> Baselines[1 + (n % Len(Baselines))],
   payload |-> IF script = "exp2" THEN Payloads[1 + (n \div Len(Baselines))] ELSE 0]

Result(cell, success) ==
  [name |-> cell.name, payload |-> cell.payload, success |-> success, finished |-> FALSE,
   detect |-> None, latency |-> 0, heard |-> FALSE, lost |-> 0,
   route |-> None, world |-> Simulator(Unset), told |-> B1Params(Unset)]

\* run_cell: the run returned and compute() did.  B1 hears of no force and publishes
\* no diagnostics.
RunCell ==
  /\ at = "cells" /\ Len(ledger) < Cells
  /\ LET nodes == Launched(Cell.name, Env(Cell)) IN
     /\ Returned(nodes)
     /\ \E latency \in Latencies, heard \in BOOLEAN :
          /\ script # "exp3" \/ Cell.name = "B1" => ~heard /\ latency = Min(Latencies)
          /\ bag' \in BagsOf(Cell, nodes, latency, heard)
          /\ ~Unusable(bag'.joints)
          /\ LET m == Compute(bag')
                 t0 == IF heard THEN ForceStart ELSE None
             IN ledger' = Append(ledger,
                  [Result(Cell, m.success) EXCEPT
                     !.finished = TRUE,
                     !.detect = Anchored(FirstDetection(bag'.diag, t0),
                                         ExecutionStart(bag'.diag, t0)),
                     !.latency = latency, !.heard = heard,
                     !.lost = IF script = "exp3" THEN Cycles - Len(bag'.diag) ELSE 0,
                     !.route = Plan(nodes),
                     !.world = nodes.world, !.told = nodes.told])
  /\ UNCHANGED <<sweep, script, at, disk, ramp, crossing, failed>>

\* run_one raised (a crash, a goal not reached, a brake) or compute() did.
CellFails ==
  /\ at = "cells" /\ Len(ledger) < Cells
  /\ ledger' = Append(ledger, Result(Cell, None))
  /\ bag' = NoBag
  /\ UNCHANGED <<sweep, script, at, disk, ramp, crossing, failed>>

\* The tables are printed, or the script dies with its memory; the file stays.
End ==
  /\ at # "idle"
  /\ at' = "idle"
  /\ bag' = NoBag /\ ledger' = <<>> /\ crossing' = None /\ failed' = 0
  /\ UNCHANGED <<sweep, script, disk, ramp>>

-----------------------------------------------------------------------------
Init ==
  /\ sweep = 0 /\ script \in Script /\ at = "idle"
  /\ disk = None
  /\ ramp = CHOOSE r \in Ramps : TRUE
  /\ bag = NoBag /\ ledger = <<>> /\ crossing = None /\ failed = 0

Next ==
  \/ Start
  \/ Capture \/ CaptureFails
  \/ CrossRun \/ CrossFails
  \/ RunCell \/ CellFails
  \/ End

Spec == Init /\ [][Next]_vars

-----------------------------------------------------------------------------
(***************************************************************************)
(* What the comparison rests on.                                           *)
(***************************************************************************)
Finished == {ledger[i] : i \in {k \in DOMAIN ledger : ledger[k].finished}}

\* "identical geometric trajectory, geometric path and time law held fixed"
\* (exp3_interaction_force.py): every run that enters a sweep's table executed
\* the plan this very sweep captured, in the same physics as the others of its
\* payload; and what B2 and B3 are told of the physics is what is simulated.
LikeForLike ==
  /\ \A c \in Finished :
       /\ c.route = sweep
       /\ c.told.payload = c.world.payload
       /\ c.name # "B1" => c.told.force = c.world.force
       /\ \A d \in Finished : c.payload = d.payload => c.world = d.world
       /\ crossing # None => c.world = crossing.world
  /\ crossing # None => crossing.route = sweep

Compared(c) ==
  /\ crossing # None /\ crossing.time # None /\ crossing.heard = "before"
  /\ c.detect # None
  /\ \/ c.latency = crossing.latency
     \/ \A t \in {ramp.warn, ramp.cross, ramp.fail} : t <= Min(Latencies)

\* T_warning compares instants of two launches with clocks of their own.  With
\* the route as captured, the force schedule heard before it, and either the
\* same planning latency or a force that is constant by then, B3 warns a whole
\* horizon ahead of the crossing, or with its first cycle, and B2 not at all; a
\* message the recorder lost, of either run, moves it by a cycle.
LeadsByTheHorizon ==
  \A c \in Finished : Compared(c) /\ crossing.stretch = 1 =>
    LET warning == crossing.time - c.detect
    IN IF c.name = "B2" THEN warning <= c.lost
       ELSE warning >= Min({crossing.time, HorizonSteps - 1}) - c.lost - crossing.lost

\* A cell's success and its execution time are computed apart, and agree: of a
\* successful run, the last time the error was too large lies before the settle
\* window it was judged by.
SuccessIsSustained ==
  (bag # NoBag /\ Compute(bag).success) =>
    \/ \A j \in ToSet(bag.joints) : j.whole => j.err <= Tolerance
    \/ LastViolation(bag.joints) < Final(bag.joints).at - Settle

\* "read_bag's own bag-read order isn't guaranteed to match": no number in a
\* table depends on the order the reader returns the messages in.
ReadOrderIsIrrelevant ==
  bag # NoBag =>
    LET sorted == [bag EXCEPT !.joints = InTime(@), !.diag = InTime(@)]
    IN /\ Compute(bag) = Compute(sorted)
       /\ FirstDetection(bag.diag, ForceStart) = FirstDetection(sorted.diag, ForceStart)

\* With cycles on the grid, a prediction is only ever compared with the
\* observation of the cycle it is about, also when that one was lost.
ValidatesItsOwnCycle ==
  \A pair \in Validated(bag.diag) : pair[2].stamp = pair[1].stamp + pair[1].bind * Period
=============================================================================
