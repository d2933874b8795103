CONSTANTS
  Cards = {c1, c2}
  Devices = {d1}
  Apps = {d1}
  MaxDevices = 1
  Days = 1
  Grace = 1
  MaxNow = 2
  MaxFaults = 1
  MaxEdits = 0
  MaxStarting = 2
  None = None
SPECIFICATION LicensedSpec
PROPERTIES OfflineGraceEnds
CHECK_DEADLOCK FALSE
