SPECIFICATION Spec
CONSTANTS
  Employees = {ann}
  Project = project
  Workers = {p1}
  MaxLevel = 2
  MaxCalls = 4
  MaxMoves = 0
  MaxLosses = 0
INVARIANT
  ResolvedOnEveryWrite
CHECK_DEADLOCK FALSE
