CONSTANTS
  Cells = 2
  CellSize = 4
  Iterations = 2
  Width <- MCWidth
  NoDilation = NoDilation
SPECIFICATION MCSpec
INVARIANTS
  ReturnsFeasible
  EndsAtCrossing
  SmallestWhenMonotone
  GivesUpHonestly
