CONSTANTS
  Cmds = {1, 2}
  Handlers = {h1, h2}
  Batch = 2
  MaxRemembered = 1
  MaxFaults = 1
  None = None
SPECIFICATION Spec
INVARIANTS ReportsAreTrue
PROPERTIES NeverReopened QueueDrains
CHECK_DEADLOCK FALSE
