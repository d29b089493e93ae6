SPECIFICATION FairSpec
CONSTANTS
  tab1 = tab1
  tab2 = tab2
  other = other
  acme = acme
  globex = globex
  Caches = {acme, globex}
  Workers = {tab1, tab2, other}
  CacheOf <- DedicatedTabs
  MaxFaults = 1
  MaxOpens = 2
INVARIANTS
  NothingForgotten
PROPERTIES
  OpensNothingDue
  ErasedInTheEnd
CHECK_DEADLOCK FALSE
