CONSTANTS
  Spare = "c"
  Editors = {"e", "f"}
  Readers = {}
  MaxEdits = 2
  MaxFaults = 0
SPECIFICATION ListSpec
INVARIANT PoolsSurvive
CHECK_DEADLOCK FALSE
