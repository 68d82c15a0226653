\* The queues as deep as in the code; five requests and a LOG_REQUEST_END.
CONSTANTS
  Files = 2
  SlotSize = 4
  FlushEvery = 2
  PreambleLen = 1
  Chunk = 2
  SdDepth = 6
  PortDepth = 9
  Requests <- ReadAndEnd
  ReadMayFail = FALSE
  MaxRequests = 6
  MaxRecords = 0
  MaxOthers = 0
SPECIFICATION Spec
INVARIANTS
  EndStops
CHECK_DEADLOCK FALSE
