SPECIFICATION WorkspaceSpec
CONSTANTS
  Users = {u1, u2, u3}
  Founder = u1
  OpenRows = {r1}
  OwnerRows = {r2}
  OwnerCap = 2
  Calls = {c1, c2}
  MaxCalls = 5
  Emails = {mail}
  Logins = {login}
  Unset = unset
  MaxInstant = 3
  MaxEmployees = 2
  MaxEntities = 2
  MaxGhosts = 1
  MaxWritten = 6
INVARIANTS
  AudienceIsCurrent
  EntitiesInForce
  PromotedOnce
PROPERTIES
  OwnersCapped
  ShownAsDelivered
SYMMETRY MembershipSymmetry
CHECK_DEADLOCK FALSE
