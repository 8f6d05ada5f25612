CONSTANTS
  Cycles = 4
  Horizon = 2
  End = 3
  Last = 4
  NoCycle = NoCycle
SPECIFICATION MCSpec
INVARIANTS
  StepsFromTruth
  CertifiedRouteRuns
  WarnsAHorizonAhead
  BrakeIsSticky
  ReplansCountEvents
