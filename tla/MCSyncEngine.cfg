SPECIFICATION DeviceSpec
CONSTANTS
  MaxMutations = 2
  MaxFaults = 1
  UploadBatch = 2
  MaxOthers = 1
  Rows = {r1, r2}
  Ports = {p1, p2, p3}
  MaxEngines = 3
  Devices = {d1}
  Workspaces = {w1, w2}
  ApiCalls = {c1, c2}
  MaxClock = 4
INVARIANTS
  CacheFollowsLog
  SoleRejectionRestores
  OneEngine
PROPERTY
  OnlyStaleIsTakenBack
SYMMETRY DeviceSymmetry
CHECK_DEADLOCK FALSE
