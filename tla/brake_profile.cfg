CONSTANTS
  Joint = {j1, j2}
  Accel = 2
  Horizon = 3
  Safe <- MCSafe
  StartQ <- MCStartQ
  StartV <- MCStartV
SPECIFICATION ProfileSpec
INVARIANTS
  RestsExactly
  FollowsClosedForm
  RecursivelyFeasible
