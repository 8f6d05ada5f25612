\* The sweeps: two of them, of any script, each of which may die anywhere.
CONSTANTS
  Settle = 1
  Tolerance = 1
  Period = 1
  None = None
  Payloads <- MCPayloads
  Latencies <- MCLatencies
  HorizonSteps = 2
  Cycles = 4
  Extension = 2
  Stretches <- MCStretches
  Ramps <- MCRamps
  Recordings <- MCRecordings
  MaxSweeps = 2
SPECIFICATION Spec
CHECK_DEADLOCK FALSE
INVARIANTS
  LikeForLike
  LeadsByTheHorizon
  SuccessIsSustained
  ReadOrderIsIrrelevant
  ValidatesItsOwnCycle
