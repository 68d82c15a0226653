\* Units of 500 ms: beats of one second, a battery record of two, a pass that may
\* be late by a whole beat, a millisecond count that wraps soon after the latest.
CONSTANTS
  Ports = {"uart", "usb"}
  Rows <- MCRows
  Interval <- MCInterval
  Lead <- MCLead
  MinInterval = 2
  BatteryLogInterval = 4
  Wrap = 10
  MaxStall = 2
  Arriving <- MCArriving
  ReadDepth = 1
  Boards = {"normal", "reduced"}
  Slots = 3
  Exists <- MCExists
SPECIFICATION Spec
INVARIANTS
  TypeOK
  CadenceKept
  BeatsOnTime
  BatteryLogged
PROPERTIES
  HousekeepingCycles
