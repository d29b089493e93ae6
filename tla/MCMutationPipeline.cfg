SPECIFICATION MutationSpec
CONSTANTS
  m1 = m1
  m2 = m2
  a1 = a1
  a2 = a2
  Workers = {w1, w2}
  Ids = {m1, m2}
  Args = {a1, a2}
  Envelopes <- SentEnvelopes
  Serializable = {m2}
  MaxAttempts = 2
  Members = {u1, u2}
  NoEmployee = none
  Employees = {"e1", "e2"}
  Records = {"HRCase", "CaseEvent"}
  Judged = {"e1", "HRCase", "CaseEvent", "PaySlip", "TimesheetEntry"}
  EmployeeIdOf <- MCEmployeeIdOf
  Drawable <- MCDrawable
  RoleSets = {{}, {"owner"}, {"hr_admin"}, {"finance_admin"}, {"team_member"}}
  MaxLinking = 2
  MaxPast = 1
  ReadEdges <- MCReadEdges
  WrittenEdges <- MCWrittenEdges
  WalkStart = "e1"
  WalkTypes = {"managed_by", "case_concerns", "event_in"}
  WalkDepth = 3
INVARIANTS
  AppliedExactlyOnce
  NoLostUpdate
  NobodyWaitsInACircle
  GrantsAgree
  WalkIsExact
  PlansAreWritable
SYMMETRY HandlerSymmetry
