SPECIFICATION Spec
CONSTANTS
  Devices = {d1}
  Workspaces = {w1}
  Calls = {c1}
  MaxClock = 6
INVARIANT
  ExplicitIsIrreversible
CHECK_DEADLOCK FALSE
