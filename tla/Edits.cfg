SPECIFICATION MCSpec
CHECK_DEADLOCK FALSE
CONSTANTS
  Order <- Two
  Requests = {r1, r2}
  Pools = {"b"}
  Limit <- OneEach
  Policy = "auto_return"
  FastAttempts = 1
  SlowAttempts = 1
  ExtraAttempts = 1
  MayPin = FALSE
  NoEndpoint = NoEndpoint
  Spare = "c"
  Editors = {"e"}
  Readers = {}
  MaxEdits = 2
  MaxFaults = 1
  Files = {file}
  Workers = {worker}
  Restorers = {restorer, other}
  MaxRequests = 1
  MaxBackupOps = 3
SYMMETRY RequestSymmetry
INVARIANTS ActiveIsExact ListSound RestoresAreExact
