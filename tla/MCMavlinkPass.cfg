\* The five rows of the program; a TaskMavlink that is late by half a beat.
CONSTANTS
  Ports = {"uart", "usb"}
  Rows <- FiveRows
  Interval <- Beat
  Lead <- BeatLead
  MinInterval = 2
  BatteryLogInterval = 4
  Wrap = 10
  MaxStall = 1
  Arriving <- ArmsAndRequests
  ReadDepth = 1
  Boards = {"normal", "reduced"}
  Slots = 3
  Exists <- MCExists
SPECIFICATION Spec
INVARIANT
  WorstPassIsSeven
