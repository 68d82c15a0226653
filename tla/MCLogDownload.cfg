\* Two slots of four bytes, chunks of two, a preamble of one byte, a sync every
\* two records; a card that may refuse a file, a position or a read.
CONSTANTS
  Files = 2
  SlotSize = 4
  FlushEvery = 2
  PreambleLen = 1
  Chunk = 2
  SdDepth = 2
  PortDepth = 2
  Requests <- Mixed
  ReadMayFail = TRUE
  MaxRequests = 2
  MaxRecords = 3
  MaxOthers = 1
SPECIFICATION FairSpec
INVARIANTS
  TypeOK
  DeliversNamedFile
  PostsAll
  ReaderIsCurrent
  EndIsSignalled
  ListsEveryLog
PROPERTIES
  WorkEnds
CHECK_DEADLOCK FALSE
