------------------------------ MODULE B2Reactive ------------------------------
(***************************************************************************)
(* The reactive baseline in ROS 2: B2ConstraintSolver::solve judges the    *)
(* torque of the current waypoint alone and, past the limit, projects its  *)
(* acceleration onto the torque-feasible ones (b2_constraint_solver.cpp).  *)
(*                                                                         *)
(* One joint of unit inertia, at the state of the waypoint; accelerations, *)
(* torques and the torque of the external force are integers, time is      *)
(* counted in control steps.                                               *)
(***************************************************************************)
EXTENDS Integers

CONSTANTS
  Waypoint,     \* the nominal waypoints: accel, and the bias torque there
  Accel,        \* the accelerations the QP chooses from
  TauMax,
  Force(_),     \* Force(t): the torque of the scheduled force at time t
  ScheduleEnd   \* the schedule is constant from here on: bounds the clock

VARIABLES
  force_started,
  elapsed,      \* the time since force_t0_sec_
  out           \* the last command: accel, the torque it will need, intervened

vars == <<force_started, elapsed, out>>

Magnitude(x) == IF x < 0 THEN -x ELSE x

\* The external torque solve() subtracts at this instant.
ForceNow == IF force_started THEN Force(elapsed) ELSE 0

TorqueFor(w, a) == a + w.bias - ForceNow

Exceeds(w) == Magnitude(TorqueFor(w, w.accel)) > TauMax

\* projectQddot's constraint: the bias of the dynamics, no external force.
Admissible(w) == {a \in Accel : Magnitude(a + w.bias) <= TauMax}

\* The admissible accelerations nearest to the nominal one.
Projection(w) ==
  {a \in Admissible(w) :
     \A b \in Admissible(w) : Magnitude(a - w.accel) <= Magnitude(b - w.accel)}

Command(w, a, i) ==
  out' = [accel |-> a, torque |-> TorqueFor(w, a), intervened |-> i]

-----------------------------------------------------------------------------
Stay == UNCHANGED <<force_started, elapsed>>

PassNominal ==
  /\ \E w \in Waypoint : ~Exceeds(w) /\ Command(w, w.accel, FALSE)
  /\ Stay

\* The dynamics could not be computed: the waypoint passes unjudged.
PassUnjudged ==
  /\ \E w \in Waypoint : Command(w, w.accel, FALSE)
  /\ Stay

Project ==
  /\ \E w \in Waypoint : Exceeds(w) /\ \E a \in Projection(w) : Command(w, a, TRUE)
  /\ Stay

\* No acceleration is admissible: the nominal one passes all the same.
GiveUp ==
  /\ \E w \in Waypoint :
       Exceeds(w) /\ Projection(w) = {} /\ Command(w, w.accel, FALSE)
  /\ Stay

\* The start signal of the schedule; reset() leaves it as it is.
ForceStart ==
  /\ force_started' = TRUE
  /\ elapsed' = 0
  /\ UNCHANGED out

Tick ==
  /\ force_started /\ elapsed < ScheduleEnd
  /\ elapsed' = elapsed + 1
  /\ UNCHANGED <<force_started, out>>

Init ==
  /\ force_started = FALSE /\ elapsed = 0
  /\ out = [accel |-> 0, torque |-> 0, intervened |-> FALSE]

Next == PassNominal \/ PassUnjudged \/ Project \/ GiveUp \/ ForceStart \/ Tick

Spec == Init /\ [][Next]_vars

-----------------------------------------------------------------------------
\* "Same problem as code/baselines.py::_torque_feasible_qddot" (projectQddot),
\* whose acceleration keeps "tau = M(q) qddot + h(q,qdot,F) within the actuator
\* envelope": an intervention needs no more torque than there is.
InterventionIsFeasible == out.intervened => Magnitude(out.torque) <= TauMax
=============================================================================
