SPECIFICATION HoursSpec
CONSTANTS
  Acme = acme
  Beta = beta
  Assignments = {build}
  Pitches = {bid}
  Entities = {acme, beta}
  FirstAnchor <- MCFirstAnchor
  WeekLength = 2
  Expected = 16
  HourChoices = {12}
  DayLimit = 24
  MaxDay = 2
  MaxWrites = 3
  MaxChanges = 1
  PaidWeeks = {1, 2}
  Contents <- MCContents
  WorkingDays <- MCWorkingDays
  ExpectedHours <- MCExpectedHours
  Terms <- MCTerms
  Today = 2
  MaxSubmits = 2
  MaxFlags = 3
  MaxPolicies = 2
  Alerts = {gap}
  Flags = {flag}
  Reminders = {week}
  Self = ann
  Managers = {bo, cy}
  Nobody = nobody
  MaxSeverity = 2
  MaxScopes = 2
  MaxFailures = 1
  Employees = {ann, bo}
  Project = project
  MaxLevel = 2
  MaxCalls = 3
  MaxLosses = 1
  Workers = {1, 2}
  MaxMoves = 1
INVARIANTS
  HoursAgree
  OvertimeIsGrantedOnce
  BalanceIsCapped
  NotifiedOnce
  
PROPERTIES
  UnlockUnlocks
  CallsShownAsDelivered
CHECK_DEADLOCK FALSE
