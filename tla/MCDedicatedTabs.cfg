SPECIFICATION FairSpec
CONSTANTS
  Tabs = {t1, t2}
  MaxMutations = 2
  MaxFaults = 1
INVARIANTS
  NeverSilentlyDropped
PROPERTIES
  SettledInTheEnd
CHECK_DEADLOCK FALSE
