SPECIFICATION ContentSpec
CONSTANTS
  Domains = {d1, d2}
  Calls = {c1, c2, c3}
  MaxKeys = 3
  MaxCalls = 4
  Employees = {ann}
  Callers = {finance, manager}
  Overriders = {manager}
  CardReaders = {finance}
  Percents = {50, 100}
  Lines = {120}
  Overrides = {150}
  NoRate = 0
  DefaultDaily = 800
  MaxDay = 2
  MaxAssignments = 2
  MaxCards = 2
  MaxWrites = 4
  MaxPending = 1
INVARIANTS
  OneLiveKey
  NothingReadAfterErasure
  OvercommitIsExplained
  CardsInForce
PROPERTY
  ShownAsDelivered
SYMMETRY ContentSymmetry
CHECK_DEADLOCK FALSE
