\* The queues as deep as in the code; a burst of five requests and two records.
CONSTANTS
  Files = 2
  SlotSize = 4
  FlushEvery = 2
  PreambleLen = 1
  Chunk = 2
  SdDepth = 6
  PortDepth = 9
  Requests <- ReadAndEnd
  ReadMayFail = FALSE
  MaxRequests = 5
  MaxRecords = 2
  MaxOthers = 0
SPECIFICATION Spec
INVARIANTS
  NoRecordLostToDownload
CHECK_DEADLOCK FALSE
