\* The queues as deep as in the code; a request and nine other messages.
CONSTANTS
  Files = 2
  SlotSize = 4
  FlushEvery = 2
  PreambleLen = 1
  Chunk = 2
  SdDepth = 6
  PortDepth = 9
  Requests <- ReadAndEnd
  ReadMayFail = FALSE
  MaxRequests = 1
  MaxRecords = 0
  MaxOthers = 9
SPECIFICATION Spec
INVARIANTS
  DeliversAll
CHECK_DEADLOCK FALSE
