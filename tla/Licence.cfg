CONSTANTS
  Cards = {c1, c2}
  OneCard = c1
  Devices = {d1, d2}
  Apps = {d1}
  MaxDevices = 1
  Days = 1
  Grace = 1
  MaxNow = 2
  MaxFaults = 1
  MaxEdits = 1
  MaxStarting = 2
  None = None
SPECIFICATION MCSpec
INVARIANTS SlotsRespected
PROPERTIES BlockedForGood RevocationArrives ProxyFollows
CHECK_DEADLOCK FALSE
