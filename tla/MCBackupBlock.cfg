CONSTANTS
  Width = 3
  FaultPhases <- MCFaultPhases
SPECIFICATION Spec
INVARIANTS
  TypeOK
  CutWriteIsSeen
  FaultClaimIsWhole
PROPERTIES
  ImplementsAtomicBlock
