\* A route delivered while the stall timer of the one before is armed.
CONSTANTS
  direct = direct
  detour = detour
  Onset = 3
  NoRoute = NoRoute
  Route <- MCRoute
  Duration <- MCDuration
  Waypoint <- MCWaypoint
  Position <- MCPosition
  Margin <- MCMargin
  Tolerance = 0
  HorizonSteps = 2
  StallTimeout = 2
  MSafe = 2
  ScheduleEnd = 3
  MaxGoals = 2
  MaxSegments = 2
  MaxPushes = 1
SPECIFICATION Spec
PROPERTIES
  StallWaits
