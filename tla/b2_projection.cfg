\* What B2's projection leaves of the torque limit under an external force.
CONSTANTS
  Waypoint <- MCWaypoint
  Accel <- MCAccel
  TauMax = 4
  Force <- MCForce
  ScheduleEnd = 3
SPECIFICATION Spec
INVARIANTS
  InterventionIsFeasible
