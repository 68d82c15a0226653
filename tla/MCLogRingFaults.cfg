\* What survives a card that does not obey: a remove or an open that fails, an
\* index that names a slot it should not.
CONSTANTS
  Files = 2
  SlotSize = 3
  FlushEvery = 2
  RecordLens = {1}
  PreambleLens <- OnePiece
  Faults = {"lostIndex", "lostIndexAllFull", "strayIndex", "removeFails", "openFails"}
  MaxStamp = 9
  MaxDamage = 1
SPECIFICATION Spec
INVARIANTS
  PreambleBeforeRecords
