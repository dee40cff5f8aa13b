SPECIFICATION Spec
CONSTANTS
  MaxLineLen = 1
  MaxBytes = 2
  MaxBacklog = 4
  BacklogTail = 2
  Rotations <- AllRotations
  MaxLines = 2
  MaxText = 2
  MaxFiles = 3
  MaxCuts = 1
  MaxFaults = 2
INVARIANTS
  NoSilentLoss
  WholeLines
  PendingIsTheTail
PROPERTIES
  EventuallyAccounted
