CONSTANTS
  Span = 2
  Grid = {2}
  NoDilation = NoDilation
SPECIFICATION MCSpec
INVARIANTS
  AdaptedClears
  RerouteIsNecessary
  FallBackIsPretracked
PROPERTIES
  ImplementsChoice
