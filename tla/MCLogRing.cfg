\* Three slots of four units, a two-piece preamble, records of one or two
\* units, a sync every three units; index.bin may be lost twice.
CONSTANTS
  Files = 3
  SlotSize = 4
  FlushEvery = 3
  RecordLens = {1, 2}
  PreambleLens <- TwoPieces
  Faults = {"lostIndex"}
  MaxStamp = 13
  MaxDamage = 2
SPECIFICATION Spec
INVARIANTS
  TypeOK
  NoMixedPasses
  UnfinishedIsNewest
  PreambleBeforeRecords
  LossIsBounded
PROPERTIES
  ResumesUnfinished
  ImplementsRecycledLog
