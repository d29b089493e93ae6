SPECIFICATION WorkforceSpec
CONSTANTS
  Employees = {e1, e2, e3}
  Nobody = nobody
  MaxTime = 3
  MaxLines = 4
  Acme = acme
  Ann = ann
  Bea = bea
  Karachi = karachi
  Lahore = lahore
  Nowhere = nowhere
  Everywhere = everywhere
  Entities = {acme}
  Residents = {ann}
  EntityOf <- MCEntityOf
  LocationOf <- MCLocationOf
  HolidayKinds <- MCHolidayKinds
  WeekLength = 2
  Weeks <- MCWeeks
  PatternWeeks <- MCPatternWeeks
  ReducedDays <- MCReducedDays
  StartDays = {2}
  HolidayDates = {2}
  PatternDates = {1, 3}
  DailyHours = 8
  MaxRows = 4
  MaxHolidays = 2
  MaxVersion = 2
  MaxPending = 1
  Consultants = {bea}
  Working <- MCWorking
  PitchDays = {3}
  Rates = {100}
  NoRate = 0
  DefaultDaily = 400
  Threshold = 1
  Percent = 60
  CostHorizon = 2
  MaxWrites = 3
  MaxDay = 3
INVARIANTS
  OneManagerAtATime
  NoReportingLoop
  DaysAgree
PROPERTIES
  HistoryIsKept
  AlertsTellTheGap
  ShownAsDelivered
SYMMETRY EmployeeSymmetry
CHECK_DEADLOCK FALSE
