CONSTANTS
  j1 = j1
  j2 = j2
  Joint = {j1, j2}
  Accel = 2
  Horizon = 3
  Height <- MCHeight
  Lift <- MCLift
  Inverse <- MCInverse
  Outward <- MCOutward
  TauMax <- MCTauMax
  Delta <- MCDelta
  None = None
  Samples <- MCSamples
  MaxStates = 1
  Plans <- MCPlans
  PlanEnd = 8
  Asserted <- MCAsserted
  Hypotheses <- MCHypotheses
  Bound <- MCBound
  Truths <- MCTruths
  MSafe = 1
  Payload = 1
  Payloads = {1, 3}
  RetreatSteps = 7
SPECIFICATION Spec
INVARIANT RetreatComesToRest
