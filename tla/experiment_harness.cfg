CONSTANTS
  MaxRuns = 2
SPECIFICATION MCSpec
INVARIANTS
  NothingLeft
  ReturnMeansSuccess
PROPERTIES
  ReadyIsOwn
  ImplementsContract
  EveryCallEnds
